---------------------------- MODULE LatencyProofs ----------------------------
(***************************************************************************)
(* Proofs about Latency, for every number of threads, syscalls and         *)
(* buckets, every size of latency_start and every command line.            *)
(***************************************************************************)
EXTENDS Latency, FiniteSetTheorems, TLAPS

Steps == {"user", "store", "inside", "slot", "sum", "max", "setmax"}

Links == [at : {"enter", "exit"}, sys : Syscalls]

(* run returns, or has returned.                                           *)
Gone == Teardown \cup Ended

(* No program remembers a time that is still to come.                      *)
TimesOK == \A t \in Threads : local[t].ts <= now

TInv == TypeOK /\ TimesOK

-----------------------------------------------------------------------------

LEMMA AtRestType == AtRest \in Locals /\ AtRest.ts = 0
BY LatencyAssumption DEF AtRest, Locals, Syscalls

LEMMA ZerosType == Zeros \in [Cells -> Nat]
BY DEF Zeros

(* The programs of the syscalls selected.                                  *)
LEMMA ProgramsType ==
  ASSUME opts \in Options
  PROVE  /\ Kinds \in Seq(Syscalls) /\ Len(Kinds) \in Nat
         /\ DOMAIN Programs(Kinds) = 1..(2 * Len(Kinds))
         /\ \A i \in DOMAIN Programs(Kinds) : Programs(Kinds)[i] \in Links
<1>1. Kinds \in Seq(Syscalls)
  <2>1. CASE opts.syscall = {}
    <3>1. \A i \in 1..SYSCALL_COUNT : i - 1 \in Syscalls
      BY LatencyAssumption DEF Syscalls
    <3>2. Kinds = [i \in 1..SYSCALL_COUNT |-> i - 1] /\ SYSCALL_COUNT \in Nat
      BY <2>1, LatencyAssumption DEF Kinds, Selected
    <3> QED BY <3>1, <3>2
  <2>2. CASE opts.syscall # {}
    <3>1. opts.syscall \subseteq Syscalls
      BY LatencyAssumption DEF CommandLines, Option
    <3>2. The(opts.syscall) \in Syscalls
      BY <2>2, <3>1 DEF The
    <3> QED BY <2>2, <3>2 DEF Kinds, Selected
  <2> QED BY <2>1, <2>2
<1>2. PICK kinds \in Seq(Syscalls) : kinds = Kinds
  BY <1>1
<1>3. Len(kinds) \in Nat /\ DOMAIN Programs(kinds) = 1..(2 * Len(kinds))
  BY DEF Programs
<1>4. ASSUME NEW i \in 1..(2 * Len(kinds)) PROVE Programs(kinds)[i] \in Links
  <2>1. (i + 1) \div 2 \in 1..Len(kinds)
    BY <1>3
  <2>2. kinds[(i + 1) \div 2] \in Syscalls
    BY <2>1
  <2> QED BY <2>2 DEF Programs, Program, Links
<1> QED BY <1>2, <1>3, <1>4

LEMMA InitTInv == Init => TInv
<1> SUFFICES ASSUME Init PROVE TInv
  OBVIOUS
<1> USE DEF Init
<1>1. local \in [Threads -> Locals] /\ TimesOK
  BY AtRestType DEF TimesOK
<1>2. now \in 0..MaxTime /\ calls \in 0..MaxCalls
  BY LatencyAssumption
<1>3. began \in [Syscalls -> [0..MaxTime -> Nat]] /\ raced \in [Syscalls -> BOOLEAN]
      /\ fresh \in [Threads -> BOOLEAN]
  OBVIOUS
<1>4. DOMAIN start \subseteq Threads /\ \A t \in DOMAIN start : start[t] \in 0..now
  OBVIOUS
<1>5. pc \in [Threads -> Steps]
  BY DEF Steps
<1>6. /\ links = <<>> /\ links \in Seq([at : {"enter", "exit"}, sys : Syscalls])
      /\ Len(links) <= 2 * Len(Kinds)
  <2>1. Len(Kinds) \in Nat
    BY ProgramsType
  <2> QED BY <2>1
<1>7. filterMap \in {ZeroConfig, Config(opts.filter, TcpEvents)}
  OBVIOUS
<1>8. /\ opts \in Options
      /\ phase \in {"start", "loaded", "attach", "check", "read", "warn", "sleep", "summary"}
                    \cup Teardown \cup Ended
      /\ running \in BOOLEAN /\ expired \in BOOLEAN
  OBVIOUS
<1>9. DOMAIN links = {}
  BY <1>6
<1>10. /\ hist \in [Cells -> Nat] /\ snap \in [Cells -> Nat] /\ shown \in [Cells -> Nat]
       /\ cursor \in Nat /\ drops \in Nat /\ seen \in Nat /\ summary \subseteq Nat
       /\ enters \in Nat /\ overwritten \in Nat /\ exits \in Nat /\ comm \in [Threads -> Comms]
  BY ZerosType
<1>11. TypeOK
  <2> USE DEF TypeOK
  <2> QED
    BY <1>1, <1>2, <1>3, <1>4, <1>5, <1>6, <1>7, <1>8, <1>9, <1>10, ZenonT(30) DEF Steps
<1> QED BY <1>1, <1>11 DEF TInv

(* The cells of the syscalls do not overlap.                               *)
LEMMA CellType ==
  ASSUME NEW k \in Syscalls, NEW slot \in 0..(HIST_SLOTS + 1)
  PROVE  CellOf(k, slot) \in Cells
<1>1. HIST_SLOTS \in Nat /\ SYSCALL_COUNT \in Nat
  BY LatencyAssumption, HistogramAssumption
<1>2. k \in Nat /\ k + 1 <= SYSCALL_COUNT
  BY <1>1 DEF Syscalls
<1> DEFINE L == HIST_SLOTS + 2
<1>3. k * L \in Nat /\ SYSCALL_COUNT * L \in Nat /\ (k + 1) * L = k * L + L
  BY <1>1, <1>2
<1>4. (k + 1) * L <= SYSCALL_COUNT * L
  <2>1. \A m, n \in Nat, l \in Nat : m <= n => m * l <= n * l
    OBVIOUS
  <2> QED BY <1>1, <1>2, <2>1
<1>5. k * L + slot \in 0..(SYSCALL_COUNT * L - 1)
  BY <1>1, <1>3, <1>4
<1> QED BY <1>5 DEF CellOf, Cells, LATENCY_SLOTS

LEMMA CellDistinct ==
  ASSUME NEW k \in Syscalls, NEW j \in Syscalls, NEW slot \in 0..HIST_SLOTS
  PROVE  CellOf(j, slot) # MaxCell(k)
<1>1. HIST_SLOTS \in Nat /\ k \in Nat /\ j \in Nat
  BY LatencyAssumption, HistogramAssumption DEF Syscalls
<1> DEFINE L == HIST_SLOTS + 2
<1>2. \A m, n \in Nat, l \in Nat : m < n => m * l + l <= n * l
  <2> SUFFICES ASSUME NEW m \in Nat, NEW n \in Nat, NEW l \in Nat, m < n
               PROVE  m * l + l <= n * l
    OBVIOUS
  <2>1. (m + 1) * l = m * l + l /\ (m + 1) * l <= n * l
    OBVIOUS
  <2> QED BY <2>1
<1>3. k * L \in Nat /\ j * L \in Nat
  BY <1>1
<1>4. CASE j < k
  BY <1>1, <1>2, <1>3, <1>4 DEF CellOf, MaxCell, LATENCY_SLOTS
<1>5. CASE k < j
  BY <1>1, <1>2, <1>3, <1>5 DEF CellOf, MaxCell, LATENCY_SLOTS
<1>6. CASE k = j
  BY <1>1, <1>3, <1>6 DEF CellOf, MaxCell, LATENCY_SLOTS
<1> QED BY <1>1, <1>4, <1>5, <1>6

(* What a thread's step leaves of the types of its locals.                 *)
LEMMA GotoType ==
  ASSUME TInv, NEW t \in Threads, NEW next \in Steps, NEW locals \in Locals, locals.ts <= now,
         Goto(t, next, locals), now' = now
  PROVE  pc' \in [Threads -> Steps] /\ local' \in [Threads -> Locals] /\ TimesOK'
BY DEF Goto, TInv, TypeOK, TimesOK, Steps

LEMMA LocalType ==
  ASSUME TInv, NEW t \in Threads
  PROVE  /\ local[t] \in Locals /\ local[t].ts <= now /\ Sys(t) \in Syscalls
         /\ Delta(t) \in 0..MaxTime /\ local[t].ts \in 0..now
BY LatencyAssumption DEF TInv, TypeOK, TimesOK, Locals, Sys, Delta

(* The step of a thread and its locals ...                                 *)
LEMMA StepType ==
  ASSUME TInv, NEW t \in Threads, RunThread(t)
  PROVE  pc' \in [Threads -> Steps] /\ local' \in [Threads -> Locals] /\ TimesOK' /\ now' = now
<1>0. local[t] \in Locals /\ local[t].ts <= now
  BY LocalType
<1>1. AtRest \in Locals /\ AtRest.ts <= now
  BY AtRestType, LatencyAssumption DEF TInv, TypeOK
<1>2. [AtRest EXCEPT !.sys = Sys(t)] \in Locals /\ [AtRest EXCEPT !.sys = Sys(t)].ts <= now
  BY <1>1, LocalType DEF AtRest, Locals
<1>3. CASE Leave(t) /\ now' = now
  BY <1>1, <1>3, GotoType DEF Leave, Steps
<1>4. CASE EnterSyscall(t) /\ now' = now
  BY <1>2, <1>4, GotoType DEF EnterSyscall, Steps
<1>5. CASE SysExit(t)
  <2>0. start[t] \in 0..now /\ now \in 0..MaxTime /\ MaxTime \in Nat
    BY <1>5, LatencyAssumption DEF SysExit, TInv, TypeOK
  <2>1. Elapsed(t) \in 0..MaxTime
    BY <2>0 DEF Elapsed
  <2>2. [local[t] EXCEPT !.delta = Elapsed(t)] \in Locals
        /\ [local[t] EXCEPT !.delta = Elapsed(t)].ts <= now
    BY <1>0, <2>1 DEF Locals
  <2> QED BY <1>5, <2>2, GotoType DEF SysExit, Steps
<1>6. CASE AddSlot(t) \/ AddSum(t)
  BY <1>0, <1>6, GotoType DEF AddSlot, AddSum, Steps
<1>7. CASE CompareMax(t) /\ ~Leave(t)
  <2>1. hist[MaxCell(Sys(t))] \in Nat
    <3>1. MaxCell(Sys(t)) \in Cells
      BY LocalType, CellType, HistogramAssumption DEF MaxCell
    <3> QED BY <3>1 DEF TInv, TypeOK
  <2>2. [local[t] EXCEPT !.old = hist[MaxCell(Sys(t))]] \in Locals
        /\ [local[t] EXCEPT !.old = hist[MaxCell(Sys(t))]].ts <= now
    BY <1>0, <2>1 DEF Locals
  <2> QED BY <1>7, <2>2, GotoType DEF CompareMax, Steps
<1> QED BY <1>3, <1>4, <1>5, <1>6, <1>7 DEF RunThread, Filtered, Store, StoreFails,
          SysExitUntraced, CompareMax, SetMax

LEMMA Increased ==
  ASSUME NEW D, NEW f \in [D -> Nat], NEW c, NEW n \in Nat
  PROVE  [f EXCEPT ![c] = f[c] + n] \in [D -> Nat]
<1> DEFINE g == [f EXCEPT ![c] = f[c] + n]
<1>1. ASSUME NEW x \in D PROVE g[x] \in Nat
  <2>1. f[x] \in Nat /\ f[x] + n \in Nat
    OBVIOUS
  <2>2. g[x] = IF x = c THEN f[x] + n ELSE f[x]
    OBVIOUS
  <2> HIDE DEF g
  <2> QED BY <2>1, <2>2
<1>2. g = [x \in D |-> g[x]]
  OBVIOUS
<1> HIDE DEF g
<1>3. g \in [D -> Nat]
  BY <1>1, <1>2
<1> QED BY <1>3 DEF g

(* ... the maps it changes ...                                             *)
LEMMA MapsType ==
  ASSUME TInv, NEW t \in Threads, RunThread(t)
  PROVE  /\ hist' \in [Cells -> Nat] /\ drops' \in Nat
         /\ DOMAIN start' \subseteq Threads /\ \A u \in DOMAIN start' : start'[u] \in 0..now
<1>1. hist \in [Cells -> Nat] /\ drops \in Nat
      /\ DOMAIN start \subseteq Threads /\ \A u \in DOMAIN start : start[u] \in 0..now
  BY DEF TInv, TypeOK
<1>2. Delta(t) \in Nat /\ local[t].ts \in 0..now
  BY LocalType, LatencyAssumption
<1>3. CASE Store(t)
  BY <1>1, <1>2, <1>3 DEF Store
<1>4. CASE SysExit(t)
  BY <1>1, <1>4 DEF SysExit
<1>5. CASE AddSlot(t)
  BY <1>1, <1>5, Increased DEF AddSlot
<1>6. CASE AddSum(t)
  BY <1>1, <1>2, <1>6, Increased DEF AddSum
<1>7. CASE SetMax(t)
  BY <1>1, <1>2, <1>7 DEF SetMax
<1>8. CASE StoreFails(t)
  BY <1>1, <1>8 DEF StoreFails
<1>9. CASE Filtered(t) \/ SysExitUntraced(t) \/ CompareMax(t)
  BY <1>1, <1>9 DEF Filtered, SysExitUntraced, CompareMax, mapVars
<1> QED BY <1>3, <1>4, <1>5, <1>6, <1>7, <1>8, <1>9 DEF RunThread

HistoryOK ==
  /\ calls \in 0..MaxCalls /\ enters \in Nat /\ overwritten \in Nat /\ exits \in Nat
  /\ fresh \in [Threads -> BOOLEAN]
  /\ began \in [Syscalls -> [0..MaxTime -> Nat]]
  /\ raced \in [Syscalls -> BOOLEAN]

(* ... and the history.                                                    *)
LEMMA HistoryType ==
  ASSUME TInv, NEW t \in Threads, RunThread(t)
  PROVE  HistoryOK' /\ comm' = comm
<1>1. HistoryOK
  BY DEF TInv, TypeOK, HistoryOK
<1>2. CASE SysExit(t)
  <2>1. began' \in [Syscalls -> [0..MaxTime -> Nat]]
    <3> DEFINE d == Elapsed(t)
               k == Sys(t)
    <3>1. k \in Syscalls /\ began[k] \in [0..MaxTime -> Nat]
      BY <1>1, LocalType DEF HistoryOK
    <3>2. [began[k] EXCEPT ![d] = began[k][d] + 1] \in [0..MaxTime -> Nat]
      BY <3>1, Increased
    <3>3. began' = [began EXCEPT ![k] = [began[k] EXCEPT ![d] = began[k][d] + 1]]
      BY <1>2 DEF SysExit
    <3> QED BY <1>1, <3>2, <3>3 DEF HistoryOK
  <2> QED BY <1>1, <1>2, <2>1 DEF SysExit, HistoryOK
<1>3. CASE SetMax(t)
  BY <1>1, <1>3 DEF SetMax, HistoryOK
<1>4. CASE StoreFails(t)
  BY <1>1, <1>4 DEF StoreFails, HistoryOK
<1>6. CASE Store(t)
  <2>1. overwritten' \in Nat /\ enters' \in Nat
    BY <1>1, <1>6 DEF Store, HistoryOK
  <2>2. fresh' \in [Threads -> BOOLEAN]
    BY <1>1, <1>6 DEF Store, HistoryOK
  <2> QED BY <1>1, <1>6, <2>1, <2>2 DEF Store, HistoryOK
<1>5. CASE Filtered(t) \/ SysExitUntraced(t) \/ AddSlot(t) \/ AddSum(t) \/ CompareMax(t)
  BY <1>1, <1>5 DEF Filtered, SysExitUntraced, AddSlot, AddSum, CompareMax, historyVars, HistoryOK
<1> QED BY <1>2, <1>3, <1>4, <1>5, <1>6 DEF RunThread

LEMMA MachineTInv ==
  ASSUME TInv, MachineNext, UNCHANGED <<readerVars, runVars>>
  PROVE  TInv'
<1>0. MaxTime \in Nat /\ MaxCalls \in Nat
  BY LatencyAssumption
<1>1. ASSUME NEW t \in Threads, RunThread(t) PROVE TInv'
  <2>1. pc' \in [Threads -> Steps] /\ local' \in [Threads -> Locals] /\ TimesOK' /\ now' = now
    BY <1>1, StepType
  <2>2. /\ hist' \in [Cells -> Nat] /\ drops' \in Nat
        /\ DOMAIN start' \subseteq Threads /\ \A u \in DOMAIN start' : start'[u] \in 0..now
    BY <1>1, MapsType
  <2>3. HistoryOK' /\ comm' = comm
    BY <1>1, HistoryType
  <2> QED BY <2>1, <2>2, <2>3 DEF TInv, TypeOK, Kinds, HistoryOK, Steps, readerVars, runVars
<1>2. ASSUME NEW t \in Threads, NEW k \in Syscalls, SysEnter(t, k) PROVE TInv'
  <2>1. pc' \in [Threads -> Steps] /\ local' \in [Threads -> Locals] /\ TimesOK' /\ now' = now
    <3>0. now \in 0..MaxTime /\ now' = now
      BY <1>2 DEF SysEnter, TInv, TypeOK
    <3>1. [AtRest EXCEPT !.sys = k, !.ts = now] \in Locals
          /\ [AtRest EXCEPT !.sys = k, !.ts = now].ts <= now
      <4>1. AtRest \in Locals /\ 0 \in Nat
        BY AtRestType
      <4> DEFINE r == [AtRest EXCEPT !.sys = k, !.ts = now]
      <4>2. r = [[AtRest EXCEPT !.sys = k] EXCEPT !.ts = now]
        BY DEF AtRest
      <4>3. [AtRest EXCEPT !.sys = k] \in Locals
        BY <4>1 DEF Locals
      <4>4. now \in 0..MaxTime /\ now <= now
        BY <3>0
      <4> HIDE DEF r
      <4>5. r \in Locals /\ r.ts = now
        BY <4>2, <4>3, <4>4 DEF Locals
      <4> QED BY <4>4, <4>5 DEF r
    <3>2. [AtRest EXCEPT !.sys = k] \in Locals /\ [AtRest EXCEPT !.sys = k].ts <= now
      BY <1>0, <3>0 DEF AtRest, Locals
    <3> QED BY <1>2, <3>0, <3>1, <3>2, GotoType DEF SysEnter, Steps
  <2>2. calls' \in 0..MaxCalls /\ fresh' \in [Threads -> BOOLEAN]
    BY <1>0, <1>2 DEF SysEnter, TInv, TypeOK
  <2> QED BY <1>2, <2>1, <2>2 DEF SysEnter, mapVars, TInv, TypeOK, Kinds, Steps,
         readerVars, runVars
<1>3. CASE Tick
  <2>1. now' \in 0..MaxTime /\ now' = now + 1 /\ now \in Nat
    BY <1>0, <1>3 DEF Tick, TInv, TypeOK
  <2>2. \A t \in DOMAIN start : start[t] \in 0..now'
    BY <2>1 DEF TInv, TypeOK
  <2>3. TimesOK'
    BY <1>3, <2>1, LocalType DEF Tick, TimesOK, threadVars
  <2> QED BY <1>3, <2>1, <2>2, <2>3 DEF Tick, TInv, TypeOK, Kinds, threadVars, mapVars,
         historyVars, readerVars, runVars
<1>4. ASSUME NEW t \in Threads, NEW c \in Comms, SetComm(t, c) PROVE TInv'
  <2>1. comm' \in [Threads -> Comms]
    BY <1>4 DEF SetComm, TInv, TypeOK
  <2> QED BY <1>4, <2>1 DEF SetComm, TInv, TypeOK, Kinds, TimesOK, threadVars, mapVars,
         historyVars, readerVars, runVars
<1> QED BY <1>1, <1>2, <1>3, <1>4 DEF MachineNext

LEMMA ReaderTInv ==
  ASSUME TInv, Collect \/ SetupFails \/ Signal \/ Expire, UNCHANGED machineVars
  PROVE  TInv'
<1>1. UNCHANGED <<now, comm, pc, local, start, hist, drops, calls, enters, overwritten, exits,
                  fresh, began, raced>> /\ TimesOK'
  BY DEF machineVars, threadVars, mapVars, historyVars, TimesOK, TInv
<1>2. opts' = opts /\ Kinds' = Kinds
  BY DEF Collect, Load, ApplyMap, Attach, Check, ReadCell, PrintSnapshot, WarnOnDrops, WakeUp,
     PrintSummary, DropLink, Return, SetupFails, Signal, Expire, Step, Kinds
<1>3. /\ links' \in Seq(Links) /\ Len(links') <= 2 * Len(Kinds)
      /\ \A i \in DOMAIN links' : \E j \in DOMAIN Programs(Kinds) :
           links'[i] = Programs(Kinds)[j] /\ (phase' \notin Teardown => j = i)
  <2> DEFINE progs == Programs(Kinds)
  <2>1. /\ links \in Seq(Links) /\ Len(links) <= 2 * Len(Kinds)
        /\ \A i \in DOMAIN links : \E j \in DOMAIN progs :
             links[i] = progs[j] /\ (phase \notin Teardown => j = i)
    BY DEF TInv, TypeOK, Links
  <2>2. /\ Len(Kinds) \in Nat /\ DOMAIN progs = 1..(2 * Len(Kinds))
        /\ \A i \in DOMAIN progs : progs[i] \in Links
    BY ProgramsType DEF TInv, TypeOK
  <2>3. Len(links) \in Nat /\ DOMAIN links = 1..Len(links)
    BY <2>1
  <2> HIDE DEF progs
  <2>4. CASE Attach
    <3>1. /\ links' = Append(links, progs[Len(links) + 1]) /\ phase = "attach"
          /\ Len(links) + 1 \in DOMAIN progs
      BY <2>2, <2>3, <2>4 DEF Attach, progs
    <3>2. links' \in Seq(Links) /\ Len(links') = Len(links) + 1
      BY <2>1, <2>2, <3>1
    <3>3. \A i \in DOMAIN links : i \in DOMAIN progs /\ links[i] = progs[i]
      BY <2>1, <3>1 DEF Teardown
    <3>4. ASSUME NEW i \in DOMAIN links' PROVE i \in DOMAIN progs /\ links'[i] = progs[i]
      <4>1. CASE i = Len(links) + 1
        BY <2>1, <3>1, <4>1
      <4>2. CASE i # Len(links) + 1
        <5>1. i \in DOMAIN links /\ links'[i] = links[i]
          BY <2>1, <2>3, <3>1, <3>2, <4>2
        <5> QED BY <3>3, <5>1
      <4> QED BY <4>1, <4>2
    <3>5. Len(links') <= 2 * Len(Kinds)
      BY <2>2, <2>3, <3>1, <3>2
    <3> QED BY <3>2, <3>4, <3>5 DEF progs
  <2>5. CASE DropLink
    <3>1. links # <<>> /\ links' = Tail(links) /\ phase \in Teardown /\ phase' = phase
      BY <2>5 DEF DropLink, Step
    <3>2. /\ links' \in Seq(Links) /\ Len(links') = Len(links) - 1
          /\ \A i \in DOMAIN links' : i + 1 \in DOMAIN links /\ links'[i] = links[i + 1]
      BY <2>1, <2>3, <3>1
    <3>3. Len(links') <= 2 * Len(Kinds)
      BY <2>1, <2>2, <2>3, <3>2
    <3>4. \A i \in DOMAIN links' : \E j \in DOMAIN progs : links'[i] = progs[j]
      BY <2>1, <3>2
    <3> QED BY <3>1, <3>2, <3>3, <3>4 DEF progs
  <2>6. CASE ~Attach /\ ~DropLink
    <3>1. UNCHANGED links /\ (phase \in Teardown => phase' \in Teardown \/ links = <<>>)
      BY <2>6 DEF Collect, Load, ApplyMap, Check, ReadCell, PrintSnapshot, WarnOnDrops, WakeUp,
         PrintSummary, Return, SetupFails, Signal, Expire, Step, readerVars, Teardown
    <3> QED BY <2>1, <3>1 DEF progs
  <2> QED BY <2>4, <2>5, <2>6
<1>4. /\ phase' \in {"start", "loaded", "attach", "check", "read", "warn", "sleep", "summary"}
                \cup Teardown \cup Ended
      /\ running' \in BOOLEAN /\ expired' \in BOOLEAN
      /\ filterMap' \in {ZeroConfig, Config(opts.filter, TcpEvents)}
  BY DEF Collect, Load, ApplyMap, Attach, Check, ReadCell, PrintSnapshot, WarnOnDrops, WakeUp,
     PrintSummary, DropLink, Return, SetupFails, Signal, Expire, Step, TInv, TypeOK, Teardown, Ended
<1>5. /\ snap' \in [Cells -> Nat] /\ shown' \in [Cells -> Nat]
      /\ cursor' \in Nat /\ seen' \in Nat /\ summary' \subseteq Nat
  <2>1. CASE ReadCell
    <3>1. snap' \in [Cells -> Nat]
      BY <2>1 DEF ReadCell, TInv, TypeOK
    <3> QED BY <2>1, <3>1 DEF ReadCell, TInv, TypeOK
  <2>2. CASE PrintSnapshot
    BY <2>2 DEF PrintSnapshot, TInv, TypeOK
  <2>5. CASE Check
    BY <2>5 DEF Check, TInv, TypeOK
  <2>4. CASE WarnOnDrops \/ PrintSummary
    BY <1>1, <2>4 DEF WarnOnDrops, PrintSummary, TInv, TypeOK
  <2>3. CASE Load \/ ApplyMap \/ Attach \/ WakeUp \/ DropLink \/ Return \/ SetupFails \/ Signal
             \/ Expire
    BY <2>3 DEF Load, ApplyMap, Attach, WakeUp, DropLink, Return, SetupFails, Signal, Expire, readerVars, TInv, TypeOK
  <2> QED BY <2>1, <2>2, <2>3, <2>4, <2>5 DEF Collect
<1> QED BY <1>1, <1>2, <1>3, <1>4, <1>5 DEF TInv, TypeOK, Links

LEMMA NextTInv ==
  ASSUME TInv, [Next]_vars PROVE TInv'
<1>1. CASE UNCHANGED vars
  BY <1>1 DEF vars, machineVars, threadVars, mapVars, historyVars, readerVars, runVars, TInv,
     TypeOK, Kinds, TimesOK
<1> QED BY <1>1, MachineTInv, ReaderTInv DEF Next

LEMMA TInvHolds == Spec => []TInv
BY InitTInv, NextTInv, PTL DEF Spec

(* Every variable keeps its type; in particular no elapsed time is         *)
(* negative, and an entry of latency_start never lies in the future.       *)
THEOREM TypeCorrect == Spec => []TypeOK
<1>1. TInv => TypeOK
  BY DEF TInv
<1> QED BY <1>1, TInvHolds, PTL

-----------------------------------------------------------------------------
(* No entry goes uncounted.                                                *)

LEMMA StartFinite ==
  ASSUME TInv PROVE IsFiniteSet(DOMAIN start) /\ Cardinality(DOMAIN start) \in Nat
<1>1. DOMAIN start \subseteq Threads
  BY DEF TInv, TypeOK
<1>2. IsFiniteSet(DOMAIN start)
  BY <1>1, FS_Subset, LatencyAssumption
<1> QED BY <1>2, FS_CardinalityType

LEMMA NextEnters ==
  ASSUME TInv, EveryEnterCounted, [Next]_vars PROVE EveryEnterCounted'
<1> USE DEF EveryEnterCounted
<1>0. enters \in Nat /\ drops \in Nat /\ overwritten \in Nat /\ exits \in Nat
  BY DEF TInv, TypeOK
<1>1. ASSUME NEW t \in Threads, Store(t) PROVE EveryEnterCounted'
  <2>1. DOMAIN start' = DOMAIN start \cup {t} /\ UNCHANGED <<drops, exits>> /\ enters' = enters + 1
    BY <1>1 DEF Store
  <2>2. CASE t \in DOMAIN start
    <3>1. DOMAIN start' = DOMAIN start /\ overwritten' = overwritten + 1
      BY <1>1, <2>1, <2>2 DEF Store
    <3> QED BY <1>0, <2>1, <3>1, StartFinite
  <2>3. CASE t \notin DOMAIN start
    <3>1. Cardinality(DOMAIN start') = Cardinality(DOMAIN start) + 1
      BY <2>1, <2>3, StartFinite, FS_AddElement
    <3>2. overwritten' = overwritten
      BY <1>1, <2>3 DEF Store
    <3> QED BY <1>0, <2>1, <3>1, <3>2, StartFinite
  <2> QED BY <2>2, <2>3
<1>2. ASSUME NEW t \in Threads, SysExit(t) PROVE EveryEnterCounted'
  <2>1. /\ DOMAIN start' = DOMAIN start \ {t} /\ t \in DOMAIN start
        /\ UNCHANGED <<drops, enters, overwritten>> /\ exits' = exits + 1
    BY <1>2 DEF SysExit
  <2>2. Cardinality(DOMAIN start') = Cardinality(DOMAIN start) - 1
    BY <2>1, StartFinite, FS_RemoveElement
  <2> QED BY <1>0, <2>1, <2>2, StartFinite
<1>3. ASSUME NEW t \in Threads, StoreFails(t) PROVE EveryEnterCounted'
  BY <1>0, <1>3, StartFinite DEF StoreFails
<1>4. CASE UNCHANGED <<enters, drops, start, overwritten, exits>>
  BY <1>4
<1>5. ASSUME NEW t \in Threads,
             \/ \E k \in Syscalls : SysEnter(t, k)
             \/ Filtered(t) \/ SysExitUntraced(t) \/ AddSlot(t) \/ AddSum(t) \/ CompareMax(t)
             \/ SetMax(t) \/ \E c \in Comms : SetComm(t, c)
      PROVE  UNCHANGED <<enters, drops, start, overwritten, exits>>
  BY <1>5 DEF SysEnter, Filtered, SysExitUntraced, AddSlot, AddSum, CompareMax, SetMax, SetComm,
     mapVars, historyVars
<1>6. CASE Tick \/ UNCHANGED machineVars
  BY <1>4, <1>6 DEF Tick, machineVars, mapVars, historyVars
<1> QED BY <1>1, <1>2, <1>3, <1>4, <1>5, <1>6 DEF Next, MachineNext, RunThread, vars

(* Every entry is a drop, waits, was replaced, or was measured: no entry   *)
(* disappears and none is counted twice.                                   *)
THEOREM EntersCounted == Spec => []EveryEnterCounted
<1>1. Init => EveryEnterCounted
  <2> SUFFICES ASSUME Init PROVE EveryEnterCounted
    OBVIOUS
  <2>1. DOMAIN start = {} /\ enters = 0 /\ drops = 0 /\ overwritten = 0 /\ exits = 0
    BY DEF Init
  <2> QED BY <2>1, FS_EmptySet DEF EveryEnterCounted
<1> QED BY <1>1, NextEnters, TInvHolds, PTL DEF Spec

-----------------------------------------------------------------------------
(* Snapshots grow.                                                         *)

(* The cells of the buckets and of the sums: what was printed is behind    *)
(* what was read, and what was read behind what the maps hold.             *)
CountCells == {CellOf(k, slot) : k \in Syscalls, slot \in 0..HIST_SLOTS}

GInv == \A c \in CountCells : shown[c] <= snap[c] /\ snap[c] <= hist[c]

LEMMA CountCellsAreCells == CountCells \subseteq Cells
BY CellType, HistogramAssumption DEF CountCells

LEMMA CountsGrow ==
  ASSUME TInv, [Next]_vars, NEW c \in CountCells PROVE hist'[c] >= hist[c]
<1>0. hist \in [Cells -> Nat] /\ hist[c] \in Nat /\ c \in Cells
  BY CountCellsAreCells DEF TInv, TypeOK
<1>1. ASSUME NEW t \in Threads, AddSlot(t) PROVE hist'[c] >= hist[c]
  <2> DEFINE i == CellOf(Sys(t), Slot(Delta(t)))
  <2>1. hist' = [hist EXCEPT ![i] = hist[i] + 1]
    BY <1>1 DEF AddSlot
  <2> HIDE DEF i
  <2>2. hist'[c] = IF i = c THEN hist[c] + 1 ELSE hist[c]
    BY <1>0, <2>1
  <2> QED BY <1>0, <2>2
<1>2. ASSUME NEW t \in Threads, AddSum(t) PROVE hist'[c] >= hist[c]
  <2> DEFINE i == SumCell(Sys(t))
  <2>0. Delta(t) \in Nat
    BY LocalType, LatencyAssumption
  <2>1. hist' = [hist EXCEPT ![i] = hist[i] + Delta(t)]
    BY <1>2 DEF AddSum
  <2> HIDE DEF i
  <2>2. hist'[c] = IF i = c THEN hist[c] + Delta(t) ELSE hist[c]
    BY <1>0, <2>1
  <2> QED BY <1>0, <2>0, <2>2
<1>3. ASSUME NEW t \in Threads, SetMax(t) PROVE hist'[c] >= hist[c]
  <2>1. c # MaxCell(Sys(t))
    BY LocalType, CellDistinct DEF CountCells
  <2>2. hist'[c] = hist[c]
    BY <1>0, <1>3, <2>1 DEF SetMax
  <2> QED BY <1>0, <2>2
<1>4. CASE UNCHANGED hist
  BY <1>0, <1>4
<1>5. ASSUME NEW t \in Threads,
             \/ \E k \in Syscalls : SysEnter(t, k)
             \/ Filtered(t) \/ Store(t) \/ StoreFails(t) \/ SysExitUntraced(t) \/ SysExit(t)
             \/ CompareMax(t) \/ \E d \in Comms : SetComm(t, d)
      PROVE  UNCHANGED hist
  BY <1>5 DEF SysEnter, Filtered, Store, StoreFails, SysExitUntraced, SysExit, CompareMax, SetComm,
     mapVars
<1>6. CASE Tick \/ UNCHANGED machineVars
  BY <1>4, <1>6 DEF Tick, machineVars, mapVars
<1> QED BY <1>1, <1>2, <1>3, <1>4, <1>5, <1>6 DEF Next, MachineNext, RunThread, vars

LEMMA NextGInv ==
  ASSUME TInv, GInv, [Next]_vars
  PROVE  GInv' /\ \A c \in CountCells : shown'[c] >= shown[c]
<1> SUFFICES ASSUME NEW c \in CountCells
             PROVE  shown'[c] <= snap'[c] /\ snap'[c] <= hist'[c] /\ shown'[c] >= shown[c]
  BY DEF GInv, CountCells, CellOf, Syscalls, LATENCY_SLOTS
<1>0. c \in Cells /\ hist[c] \in Nat /\ hist'[c] \in Nat /\ snap[c] \in Nat /\ shown[c] \in Nat
  BY CountCellsAreCells, NextTInv DEF TInv, TypeOK
<1>1. shown[c] <= snap[c] /\ snap[c] <= hist[c] /\ hist[c] <= hist'[c]
  BY <1>0, CountsGrow DEF GInv
<1>2. CASE UNCHANGED <<snap, shown>>
  BY <1>0, <1>1, <1>2
<1>3. CASE ReadCell
  <2>1. snap'[c] = (IF c = cursor THEN hist[c] ELSE snap[c]) /\ shown' = shown
    BY <1>0, <1>3 DEF ReadCell, TInv, TypeOK
  <2> QED BY <1>0, <1>1, <2>1
<1>4. CASE PrintSnapshot
  BY <1>0, <1>1, <1>4 DEF PrintSnapshot
<1>5. CASE (Load \/ ApplyMap \/ Attach \/ Check \/ WarnOnDrops \/ WakeUp \/ PrintSummary
            \/ DropLink \/ Return \/ SetupFails \/ Signal \/ Expire)
  BY <1>2, <1>5 DEF Load, ApplyMap, Attach, Check, WarnOnDrops, WakeUp, PrintSummary, DropLink,
     Return, SetupFails,
     Signal, Expire, readerVars
<1>6. CASE UNCHANGED vars \/ UNCHANGED <<readerVars, runVars>>
  BY <1>2, <1>6 DEF vars, readerVars
<1> QED BY <1>3, <1>4, <1>5, <1>6 DEF Next, Collect

(* No count and no sum is ever printed smaller than before, though the     *)
(* cells of a snapshot are read one by one while threads change them.      *)
THEOREM SnapshotsNeverShrink == Spec => SnapshotsGrow
<1>1. Init => GInv
  BY CountCellsAreCells DEF Init, GInv, Zeros
<1>2. ASSUME TInv, GInv, [Next]_vars
      PROVE  [\A k \in Syscalls : \A slot \in 0..HIST_SLOTS :
                shown'[CellOf(k, slot)] >= shown[CellOf(k, slot)]]_vars
  BY <1>2, NextGInv DEF CountCells
<1>3. ASSUME TInv, GInv, [Next]_vars PROVE GInv'
  BY <1>3, NextGInv
<1> QED BY <1>1, <1>2, <1>3, TInvHolds, PTL DEF Spec, SnapshotsGrow

-----------------------------------------------------------------------------
(* The maximum.                                                            *)

Busy == {"slot", "sum", "max", "setmax"}

(* A thread that is busy with an exit is counted in began, and one that is *)
(* about to store has compared.                                            *)
ThreadsInv ==
  \A t \in Threads :
    /\ pc[t] \in Busy => began[Sys(t)][Delta(t)] > 0
    /\ pc[t] = "setmax" => Delta(t) > local[t].old

(* The maximum of a syscall is the duration of one of its exits ...        *)
MaxMeasured(k) == hist[MaxCell(k)] = 0 \/ began[k][hist[MaxCell(k)]] > 0

(* ... and unless two stores raced, no other exit took longer, or its      *)
(* thread has yet to look.                                                 *)
MaxPending(k) ==
  ~raced[k] =>
    \A d \in 0..MaxTime :
      began[k][d] > 0 => d <= hist[MaxCell(k)] \/ \E t \in At(k, Busy) : Delta(t) = d

XInv ==
  /\ ThreadsInv
  /\ \A k \in Syscalls : MaxMeasured(k) /\ MaxPending(k) /\ hist[MaxCell(k)] \in 0..MaxTime

LEMMA SlotType == ASSUME NEW d \in Nat PROVE Slot(d) \in 0..(HIST_SLOTS - 1)
<1>1. \A v : Found(v, 32) \in {0, 32} /\ Found(v, 16) \in {0, 16} /\ Found(v, 8) \in {0, 8}
           /\ Found(v, 4) \in {0, 4} /\ Found(v, 2) \in {0, 2} /\ Found(v, 1) \in {0, 1}
  BY DEF Found
<1>2. Log2Slot(d) \in Nat
  BY <1>1 DEF Log2Slot
<1> QED BY <1>2, HistogramAssumption DEF Slot

LEMMA MaxCellType ==
  ASSUME NEW k \in Syscalls
  PROVE  MaxCell(k) \in Cells /\ \A j \in Syscalls : MaxCell(j) = MaxCell(k) => j = k
<1>1. MaxCell(k) \in Cells
  BY CellType, HistogramAssumption DEF MaxCell
<1>2. ASSUME NEW j \in Syscalls, MaxCell(j) = MaxCell(k) PROVE j = k
  <2>1. HIST_SLOTS \in Nat /\ k \in Nat /\ j \in Nat
    BY LatencyAssumption, HistogramAssumption DEF Syscalls
  <2> DEFINE L == HIST_SLOTS + 2
  <2>2. j * L \in Nat /\ k * L \in Nat /\ j * L = k * L /\ L \in Nat \ {0}
    BY <1>2, <2>1 DEF MaxCell, CellOf, LATENCY_SLOTS
  <2>3. \A m, n \in Nat, l \in Nat \ {0} : m < n => m * l # n * l
    <3> SUFFICES ASSUME NEW m \in Nat, NEW n \in Nat, NEW l \in Nat \ {0}, m < n
                 PROVE  m * l # n * l
      OBVIOUS
    <3>1. (m + 1) * l = m * l + l /\ (m + 1) * l <= n * l /\ m * l \in Nat /\ n * l \in Nat
      OBVIOUS
    <3> QED BY <3>1
  <2> HIDE DEF L
  <2> QED BY <2>1, <2>2, <2>3
<1> QED BY <1>1, <1>2

(* The thread t moves on and the others stand still.                       *)
LEMMA OthersStay ==
  ASSUME TInv, NEW t \in Threads, NEW next, NEW locals, Goto(t, next, locals)
  PROVE  /\ pc'[t] = next /\ local'[t] = locals
         /\ \A u \in Threads \ {t} : pc'[u] = pc[u] /\ local'[u] = local[u]
BY DEF Goto, TInv, TypeOK

LEMMA LeavesAlone ==
  ASSUME TInv, XInv, NEW t \in Threads, NEW next \in Steps, NEW locals, Goto(t, next, locals),
         UNCHANGED <<hist, began, raced>>,
         \/ pc[t] \notin Busy /\ next \notin Busy
         \/ next \in Busy \ {"setmax"} /\ pc[t] \in Busy /\ locals = local[t]
  PROVE  XInv'
<1>1. /\ pc'[t] = next /\ local'[t] = locals
      /\ \A u \in Threads \ {t} : pc'[u] = pc[u] /\ local'[u] = local[u]
  BY OthersStay
<1>2. ThreadsInv'
  BY <1>1 DEF XInv, ThreadsInv, Busy, Sys, Delta
<1>3. ASSUME NEW k \in Syscalls PROVE At(k, Busy)' = At(k, Busy) /\ \A u \in At(k, Busy) : Delta(u)' = Delta(u)
  BY <1>1 DEF At, Sys, Delta, Busy
<1> QED BY <1>2, <1>3 DEF XInv, MaxMeasured, MaxPending

(* Steps that touch no maximum.                                            *)
LEMMA CellsOff ==
  ASSUME TInv, NEW t \in Threads, AddSlot(t) \/ AddSum(t), NEW k \in Syscalls
  PROVE  hist'[MaxCell(k)] = hist[MaxCell(k)]
<1>1. Sys(t) \in Syscalls /\ Delta(t) \in Nat /\ HIST_SLOTS \in Nat
  BY LocalType, LatencyAssumption, HistogramAssumption
<1>2. CellOf(Sys(t), Slot(Delta(t))) # MaxCell(k) /\ SumCell(Sys(t)) # MaxCell(k)
  BY <1>1, SlotType, CellDistinct DEF SumCell
<1>3. MaxCell(k) \in Cells /\ hist \in [Cells -> Nat]
  BY MaxCellType DEF TInv, TypeOK
<1> QED BY <1>2, <1>3 DEF AddSlot, AddSum

LEMMA ExitXInv ==
  ASSUME TInv, XInv, NEW t \in Threads, SysExit(t)
  PROVE  XInv'
<1> DEFINE e == Elapsed(t)
           k == Sys(t)
<1>0. k \in Syscalls /\ e \in 0..MaxTime /\ pc[t] = "inside"
  <2>1. start[t] \in 0..now /\ now \in 0..MaxTime /\ MaxTime \in Nat
    BY LatencyAssumption DEF SysExit, TInv, TypeOK
  <2>2. now - start[t] \in 0..MaxTime
    BY <2>1
  <2> QED BY <2>2, LocalType DEF SysExit, Elapsed
<1>1. /\ pc'[t] = "slot" /\ Sys(t)' = k /\ Delta(t)' = e
      /\ \A u \in Threads \ {t} : pc'[u] = pc[u] /\ local'[u] = local[u]
  <2>1. local'[t] = [local[t] EXCEPT !.delta = e] /\ pc'[t] = "slot"
        /\ \A u \in Threads \ {t} : pc'[u] = pc[u] /\ local'[u] = local[u]
    BY OthersStay DEF SysExit
  <2>2. local[t] \in Locals
    BY LocalType
  <2> QED BY <2>1, <2>2 DEF Sys, Delta, Locals
<1>2. /\ UNCHANGED <<hist, raced>>
      /\ \A j \in Syscalls, d \in 0..MaxTime :
           /\ began[j][d] \in Nat
           /\ began'[j][d] = IF j = k /\ d = e THEN began[j][d] + 1 ELSE began[j][d]
  <2>1. began' = [began EXCEPT ![k] = [began[k] EXCEPT ![e] = began[k][e] + 1]]
    BY DEF SysExit
  <2>2. began \in [Syscalls -> [0..MaxTime -> Nat]]
    BY DEF TInv, TypeOK
  <2>3. UNCHANGED <<hist, raced>>
    BY DEF SysExit
  <2> HIDE DEF e, k
  <2>4. ASSUME NEW j \in Syscalls, NEW d \in 0..MaxTime
        PROVE  /\ began[j][d] \in Nat
               /\ began'[j][d] = IF j = k /\ d = e THEN began[j][d] + 1 ELSE began[j][d]
    <3>1. began[j] \in [0..MaxTime -> Nat] /\ began[j][d] \in Nat
      BY <2>2
    <3>2. CASE j = k
      <4>1. began'[j] = [began[k] EXCEPT ![e] = began[k][e] + 1]
        BY <2>1, <2>2, <3>2
      <4> QED BY <3>1, <3>2, <4>1
    <3>3. CASE j # k
      BY <2>1, <2>2, <3>1, <3>3
    <3> QED BY <3>2, <3>3
  <2> QED BY <2>3, <2>4
<1> HIDE DEF e, k
<1>3. ThreadsInv'
  <2> SUFFICES ASSUME NEW u \in Threads
               PROVE  /\ pc'[u] \in Busy => began'[Sys(u)'][Delta(u)'] > 0
                      /\ pc'[u] = "setmax" => Delta(u)' > local'[u].old
    BY DEF ThreadsInv, Sys, Delta
  <2>1. CASE u = t
    BY <1>0, <1>1, <1>2, <2>1
  <2>2. CASE u # t
    <3>1. pc'[u] = pc[u] /\ local'[u] = local[u] /\ Sys(u)' = Sys(u) /\ Delta(u)' = Delta(u)
      BY <1>1, <2>2 DEF Sys, Delta
    <3>2. Sys(u) \in Syscalls /\ Delta(u) \in 0..MaxTime
      BY LocalType
    <3> QED BY <1>2, <3>1, <3>2 DEF XInv, ThreadsInv
  <2> QED BY <2>1, <2>2
<1>4. ASSUME NEW j \in Syscalls PROVE MaxMeasured(j)' /\ hist'[MaxCell(j)] \in 0..MaxTime
  BY <1>2 DEF XInv, MaxMeasured
<1>5. ASSUME NEW j \in Syscalls PROVE MaxPending(j)'
  <2> SUFFICES ASSUME ~raced'[j], NEW d \in 0..MaxTime, began'[j][d] > 0
               PROVE  d <= hist'[MaxCell(j)] \/ \E u \in At(j, Busy)' : Delta(u)' = d
    BY DEF MaxPending
  <2>1. CASE j = k /\ d = e
    <3>1. t \in At(j, Busy)' /\ Delta(t)' = d
      BY <1>1, <2>1 DEF At, Busy, Sys
    <3> QED BY <3>1
  <2>2. CASE ~(j = k /\ d = e)
    <3>1. began[j][d] > 0 /\ ~raced[j]
      BY <1>2, <2>2
    <3>2. CASE d <= hist[MaxCell(j)]
      BY <1>2, <3>2
    <3>3. ASSUME NEW u \in At(j, Busy), Delta(u) = d
          PROVE  u \in At(j, Busy)' /\ Delta(u)' = d
      <4>1. u # t
        BY <1>0, <3>3 DEF At, Busy
      <4> QED BY <1>1, <3>3, <4>1 DEF At, Sys, Delta
    <3> QED BY <3>1, <3>2, <3>3 DEF XInv, MaxPending
  <2> QED BY <2>1, <2>2
<1> QED BY <1>3, <1>4, <1>5 DEF XInv

LEMMA CompareXInv ==
  ASSUME TInv, XInv, NEW t \in Threads, CompareMax(t)
  PROVE  XInv'
<1> DEFINE m == hist[MaxCell(Sys(t))]
<1>0. Sys(t) \in Syscalls /\ Delta(t) \in 0..MaxTime /\ pc[t] = "max" /\ m \in Nat
      /\ UNCHANGED <<hist, began, raced>>
  BY LocalType, MaxCellType DEF CompareMax, mapVars, historyVars, TInv, TypeOK
<1>1. CASE Delta(t) > m
  <2>1. /\ pc'[t] = "setmax" /\ local'[t] = [local[t] EXCEPT !.old = m]
        /\ \A u \in Threads \ {t} : pc'[u] = pc[u] /\ local'[u] = local[u]
    BY <1>1, OthersStay DEF CompareMax
  <2>2. Sys(t)' = Sys(t) /\ Delta(t)' = Delta(t) /\ local'[t].old = m
    BY <2>1, LocalType DEF Sys, Delta, Locals
  <2> HIDE DEF m
  <2>3. ThreadsInv'
    <3> SUFFICES ASSUME NEW u \in Threads
                 PROVE  /\ pc'[u] \in Busy => began'[Sys(u)'][Delta(u)'] > 0
                        /\ pc'[u] = "setmax" => Delta(u)' > local'[u].old
      BY DEF ThreadsInv, Sys, Delta
    <3>1. CASE u = t
      BY <1>0, <1>1, <2>1, <2>2, <3>1 DEF XInv, ThreadsInv, Busy
    <3>2. CASE u # t
      BY <1>0, <2>1, <3>2 DEF XInv, ThreadsInv, Sys, Delta
    <3> QED BY <3>1, <3>2
  <2>4. ASSUME NEW k \in Syscalls
        PROVE  At(k, Busy)' = At(k, Busy) /\ \A u \in At(k, Busy) : Delta(u)' = Delta(u)
    <3>1. \A u \in Threads : Sys(u)' = Sys(u) /\ Delta(u)' = Delta(u)
      BY <2>1, <2>2 DEF Sys, Delta
    <3>2. \A u \in Threads : pc'[u] \in Busy <=> pc[u] \in Busy
      BY <1>0, <2>1 DEF Busy
    <3> QED BY <3>1, <3>2 DEF At
  <2> QED BY <1>0, <2>3, <2>4 DEF XInv, MaxMeasured, MaxPending
<1>2. CASE ~(Delta(t) > m)
  <2>1. /\ pc'[t] = "user"
        /\ \A u \in Threads \ {t} : pc'[u] = pc[u] /\ local'[u] = local[u]
    BY <1>2, OthersStay DEF CompareMax, Leave
  <2>2. ThreadsInv'
    BY <1>0, <2>1 DEF XInv, ThreadsInv, Sys, Delta, Busy
  <2>3. ASSUME NEW k \in Syscalls, NEW u \in At(k, Busy), u # t
        PROVE  u \in At(k, Busy)' /\ Delta(u)' = Delta(u)
    BY <2>1, <2>3 DEF At, Sys, Delta
  <2>4. ASSUME NEW k \in Syscalls PROVE MaxPending(k)'
    <3> SUFFICES ASSUME ~raced[k], NEW d \in 0..MaxTime, began[k][d] > 0
                 PROVE  d <= hist[MaxCell(k)] \/ \E u \in At(k, Busy)' : Delta(u)' = d
      BY <1>0 DEF MaxPending
    <3>1. CASE d <= hist[MaxCell(k)]
      BY <3>1
    <3>2. ASSUME NEW u \in At(k, Busy), Delta(u) = d
          PROVE  d <= hist[MaxCell(k)] \/ \E v \in At(k, Busy)' : Delta(v)' = d
      <4>1. CASE u = t
        <5>1. k = Sys(t) /\ d = Delta(t)
          BY <3>2, <4>1 DEF At
        <5> QED BY <1>0, <1>2, <5>1
      <4>2. CASE u # t
        BY <2>3, <3>2, <4>2
      <4> QED BY <4>1, <4>2
    <3> QED BY <3>1, <3>2 DEF XInv, MaxPending
  <2> QED BY <1>0, <2>2, <2>4 DEF XInv, MaxMeasured
<1> QED BY <1>1, <1>2

LEMMA SetXInv ==
  ASSUME TInv, XInv, NEW t \in Threads, SetMax(t)
  PROVE  XInv'
<1> DEFINE k == Sys(t)
           e == Delta(t)
<1>0. k \in Syscalls /\ e \in 0..MaxTime /\ pc[t] = "setmax" /\ began' = began
  BY LocalType DEF SetMax
<1>1. began[k][e] > 0 /\ e > local[t].old
  BY <1>0 DEF XInv, ThreadsInv, Busy
<1>2. /\ pc'[t] = "user"
      /\ \A u \in Threads \ {t} : pc'[u] = pc[u] /\ local'[u] = local[u]
  BY OthersStay DEF SetMax, Leave
<1>3. ASSUME NEW j \in Syscalls
      PROVE  hist'[MaxCell(j)] = IF j = k THEN e ELSE hist[MaxCell(j)]
  <2>1. MaxCell(j) \in Cells /\ MaxCell(k) \in Cells /\ (MaxCell(j) = MaxCell(k) => j = k)
    BY <1>0, MaxCellType
  <2>2. hist \in [Cells -> Nat] /\ hist' = [hist EXCEPT ![MaxCell(k)] = e]
    BY DEF SetMax, TInv, TypeOK
  <2> HIDE DEF k, e
  <2> QED BY <2>1, <2>2
<1>4. ASSUME NEW j \in Syscalls
      PROVE  ~raced'[j] => ~raced[j] /\ (j = k => hist[MaxCell(k)] = local[t].old)
  BY <1>0 DEF SetMax, TInv, TypeOK
<1>5. ThreadsInv'
  BY <1>0, <1>2 DEF XInv, ThreadsInv, Sys, Delta, Busy
<1>6. ASSUME NEW j \in Syscalls, NEW u \in At(j, Busy), u # t
      PROVE  u \in At(j, Busy)' /\ Delta(u)' = Delta(u)
  BY <1>2, <1>6 DEF At, Sys, Delta
<1>7. k = Sys(t) /\ e = Delta(t)
  OBVIOUS
<1> HIDE DEF k, e
<1>8. ASSUME NEW j \in Syscalls PROVE MaxMeasured(j)' /\ hist'[MaxCell(j)] \in 0..MaxTime
  <2>1. CASE j = k
    BY <1>0, <1>1, <1>3, <2>1 DEF MaxMeasured
  <2>2. CASE j # k
    BY <1>0, <1>3, <2>2 DEF MaxMeasured, XInv
  <2> QED BY <2>1, <2>2
<1>9. ASSUME NEW j \in Syscalls PROVE MaxPending(j)'
  <2> SUFFICES ASSUME ~raced'[j], NEW d \in 0..MaxTime, began[j][d] > 0
               PROVE  d <= hist'[MaxCell(j)] \/ \E u \in At(j, Busy)' : Delta(u)' = d
    BY <1>0 DEF MaxPending
  <2>1. ~raced[j] /\ (j = k => hist[MaxCell(k)] = local[t].old)
    BY <1>4
  <2>2. CASE d <= hist[MaxCell(j)]
    <3>1. CASE j = k
      <4>1. d <= hist[MaxCell(k)] /\ hist[MaxCell(k)] < e /\ hist'[MaxCell(j)] = e
        BY <1>0, <1>1, <1>3, <2>1, <2>2, <3>1
      <4>2. hist[MaxCell(k)] \in Nat /\ e \in Nat
        BY <1>0, LatencyAssumption DEF XInv
      <4> QED BY <4>1, <4>2
    <3>2. CASE j # k
      BY <1>3, <2>2, <3>2
    <3> QED BY <3>1, <3>2
  <2>3. ASSUME NEW u \in At(j, Busy), Delta(u) = d
        PROVE  d <= hist'[MaxCell(j)] \/ \E v \in At(j, Busy)' : Delta(v)' = d
    <3>1. CASE u = t
      <4>1. j = k /\ d = e
        BY <1>7, <2>3, <3>1 DEF At
      <4> QED BY <1>3, <4>1
    <3>2. CASE u # t
      BY <1>6, <2>3, <3>2
    <3> QED BY <3>1, <3>2
  <2> QED BY <2>1, <2>2, <2>3 DEF XInv, MaxPending
<1> QED BY <1>5, <1>8, <1>9 DEF XInv

LEMMA NextXInv ==
  ASSUME TInv, XInv, [Next]_vars PROVE XInv'
<1>1. CASE UNCHANGED <<pc, local, hist, began, raced>>
  BY <1>1 DEF XInv, ThreadsInv, MaxMeasured, MaxPending, At, Sys, Delta
<1>2. ASSUME NEW t \in Threads, RunThread(t) PROVE XInv'
  <2>1. CASE Filtered(t) \/ Store(t) \/ StoreFails(t)
    <3>1. Goto(t, "inside", [AtRest EXCEPT !.sys = Sys(t)]) /\ UNCHANGED <<hist, began, raced>>
          /\ pc[t] = "store"
      BY <2>1 DEF Filtered, Store, StoreFails, EnterSyscall, mapVars, historyVars
    <3> QED BY <3>1, LeavesAlone DEF Busy, Steps
  <2>2. CASE SysExitUntraced(t)
    <3>1. Goto(t, "user", AtRest) /\ UNCHANGED <<hist, began, raced>> /\ pc[t] = "inside"
      BY <2>2 DEF SysExitUntraced, Leave, mapVars, historyVars
    <3> QED BY <3>1, LeavesAlone DEF Busy, Steps
  <2>3. CASE SysExit(t)
    BY <2>3, ExitXInv
  <2>4. CASE AddSlot(t) \/ AddSum(t)
    <3>1. \A k \in Syscalls : hist'[MaxCell(k)] = hist[MaxCell(k)]
      BY <2>4, CellsOff
    <3>2. /\ UNCHANGED <<began, raced, local>> /\ pc[t] \in Busy
          /\ pc'[t] \in Busy \ {"setmax"} /\ \A u \in Threads \ {t} : pc'[u] = pc[u]
      BY <2>4, OthersStay DEF AddSlot, AddSum, Goto, historyVars, Busy, TInv, TypeOK
    <3>3. ThreadsInv'
      BY <3>2 DEF XInv, ThreadsInv, Busy, Sys, Delta
    <3>4. ASSUME NEW k \in Syscalls
          PROVE  At(k, Busy)' = At(k, Busy) /\ \A u \in At(k, Busy) : Delta(u)' = Delta(u)
      BY <3>2 DEF At, Sys, Delta
    <3> QED BY <3>1, <3>2, <3>3, <3>4 DEF XInv, MaxMeasured, MaxPending
  <2>5. CASE CompareMax(t)
    BY <2>5, CompareXInv
  <2>6. CASE SetMax(t)
    BY <2>6, SetXInv
  <2> QED BY <1>2, <2>1, <2>2, <2>3, <2>4, <2>5, <2>6 DEF RunThread
<1>3. ASSUME NEW t \in Threads, NEW k \in Syscalls, SysEnter(t, k) PROVE XInv'
  <2>1. PICK next \in {"store", "inside"},
             locals \in {[AtRest EXCEPT !.sys = k], [AtRest EXCEPT !.sys = k, !.ts = now]} :
               Goto(t, next, locals)
    BY <1>3 DEF SysEnter
  <2>2. pc[t] = "user" /\ UNCHANGED <<hist, began, raced>>
    BY <1>3 DEF SysEnter, mapVars
  <2> QED BY <2>1, <2>2, LeavesAlone DEF Busy, Steps
<1>4. ASSUME NEW t \in Threads, NEW c \in Comms, SetComm(t, c)
      PROVE  UNCHANGED <<pc, local, hist, began, raced>>
  BY <1>4 DEF SetComm, threadVars, mapVars, historyVars
<1>5. CASE Tick \/ UNCHANGED machineVars
  BY <1>1, <1>5 DEF Tick, machineVars, threadVars, mapVars, historyVars
<1> QED BY <1>1, <1>2, <1>3, <1>4, <1>5 DEF Next, MachineNext, vars

LEMMA InitXInv == Init => XInv
<1> SUFFICES ASSUME Init PROVE XInv
  OBVIOUS
<1>1. \A k \in Syscalls : hist[MaxCell(k)] = 0
  BY MaxCellType DEF Init, Zeros
<1>2. \A k \in Syscalls, d \in 0..MaxTime : began[k][d] = 0
  BY DEF Init
<1>3. ThreadsInv
  BY DEF Init, ThreadsInv, Busy
<1>4. MaxTime \in Nat
  BY LatencyAssumption
<1> QED BY <1>1, <1>2, <1>3, <1>4 DEF XInv, MaxMeasured, MaxPending

LEMMA XInvMax == ASSUME TInv, XInv PROVE MaxExact
<1> SUFFICES ASSUME NEW k \in Syscalls, At(k, Busy) = {}, ~raced[k]
             PROVE  hist[MaxCell(k)] = Max({0} \cup {d \in 0..MaxTime : began[k][d] > 0})
  BY DEF MaxExact, Busy
<1> DEFINE D == {0} \cup {d \in 0..MaxTime : began[k][d] > 0}
           m == hist[MaxCell(k)]
<1>1. m \in 0..MaxTime /\ MaxTime \in Nat
  BY LatencyAssumption DEF XInv
<1>2. m \in D
  BY <1>1 DEF XInv, MaxMeasured
<1>3. \A d \in D : m >= d
  BY <1>1 DEF XInv, MaxPending
<1>4. D \subseteq Nat
  BY <1>1
<1> HIDE DEF D, m
<1>5. Max(D) \in D /\ \A d \in D : Max(D) >= d
  BY <1>2, <1>3 DEF Max
<1>6. Max(D) \in Nat /\ m \in Nat /\ Max(D) >= m /\ m >= Max(D)
  BY <1>2, <1>3, <1>4, <1>5
<1>7. m = Max(D)
  BY <1>6
<1> QED BY <1>7 DEF D, m

(* The maximum of a syscall is exact once its programs have returned, as   *)
(* long as no two stores raced.                                            *)
THEOREM MaximumExact == Spec => []MaxExact
BY XInvMax, InitXInv, NextXInv, TInvHolds, PTL DEF Spec

-----------------------------------------------------------------------------
(* Pairing, where it holds: one syscall is traced and no name selects.     *)

OneSyscall ==
  \A o \in Options : o.filter.comm = {} /\ (o.syscall # {} \/ ~ValidArgs(o.filter))

(* Programs are attached by a valid run only, while it lasts.              *)
SInv ==
  /\ links # <<>> => phase \notin {"start", "loaded"} \cup Ended
  /\ phase \notin {"start", "abort", "failed"} => ValidArgs(opts.filter)

(* Until the links are dropped: nothing is recorded before the first       *)
(* program is attached; while any is attached, a recorded thread passes    *)
(* the filter, and inside the traced syscall its record is that of this    *)
(* very call.                                                              *)
RInv ==
  phase \notin Gone =>
    /\ links = <<>> =>
         DOMAIN start = {} /\ \A t \in Threads : pc[t] # "store"
    /\ links # <<>> => \A t \in DOMAIN start :
         /\ Allowed(filterMap, Attrs(t))
         /\ pc[t] = "inside" /\ Sys(t) = The(opts.syscall) => fresh[t]

PInv == SInv /\ RInv

LEMMA InitPInv == Init => PInv
BY DEF Init, PInv, SInv, RInv

(* One syscall has two programs.                                           *)
LEMMA TwoPrograms ==
  ASSUME opts.syscall # {}
  PROVE  /\ 2 * Len(Kinds) = 2
         /\ Programs(Kinds)[1] = Program("enter", The(opts.syscall))
         /\ Programs(Kinds)[2] = Program("exit", The(opts.syscall))
<1>1. Kinds = <<The(opts.syscall)>>
  BY DEF Kinds, Selected
<1>2. Len(Kinds) = 1 /\ Kinds[1] = The(opts.syscall)
  BY <1>1
<1>3. 2 * Len(Kinds) = 2
  BY <1>2
<1>4. (1 + 1) \div 2 = 1 /\ (2 + 1) \div 2 = 1 /\ 1 % 2 = 1 /\ 2 % 2 = 0 /\ 1 \in 1..2 /\ 2 \in 1..2
  OBVIOUS
<1>5. Programs(Kinds) =
        [i \in 1..2 |-> Program(IF i % 2 = 1 THEN "enter" ELSE "exit", Kinds[(i + 1) \div 2])]
  BY <1>3 DEF Programs
<1> QED BY <1>2, <1>3, <1>4, <1>5

(* The first one attached is that of the entry.                            *)
LEMMA AttachedPrograms ==
  ASSUME TInv, PInv, OneSyscall, links # <<>>, phase \notin Gone
  PROVE  /\ Attached("enter", The(opts.syscall))
         /\ \A k : Attached("exit", k) => k = The(opts.syscall)
<1>1. opts.syscall # {} /\ Len(links) <= 2
  <2>1. opts.syscall # {}
    BY DEF PInv, SInv, OneSyscall, TInv, TypeOK, Gone, Teardown, Ended
  <2> QED BY <2>1, TwoPrograms DEF TInv, TypeOK
<1>2. links \in Seq(Links) /\ \A i \in DOMAIN links : links[i] = Programs(Kinds)[i]
  BY DEF TInv, TypeOK, Links, Gone
<1>3. Len(links) \in Nat /\ DOMAIN links = 1..Len(links) /\ Len(links) # 0
  BY <1>2
<1>4. 1 \in DOMAIN links /\ \A i \in DOMAIN links : i = 1 \/ i = 2
  BY <1>1, <1>3
<1>5. Attached("enter", The(opts.syscall))
  BY <1>1, <1>2, <1>4, TwoPrograms DEF Attached
<1>6. ASSUME NEW k, Attached("exit", k) PROVE k = The(opts.syscall)
  BY <1>1, <1>2, <1>4, <1>6, TwoPrograms DEF Attached, Program
<1> QED BY <1>5, <1>6

(* Without --comm a new name changes no decision.                          *)
LEMMA NameNotAsked ==
  ASSUME TInv, OneSyscall, NEW t \in Threads
  PROVE  /\ ~filterMap.comm_enabled
         /\ filterMap' = filterMap => (Allowed(filterMap, Attrs(t)))' = Allowed(filterMap, Attrs(t))
<1>1. opts \in Options /\ opts.filter.comm = {}
  BY DEF TInv, TypeOK, OneSyscall
<1>2. ~filterMap.comm_enabled
  <2>1. ZeroConfig.comm_enabled = FALSE
    BY DEF ZeroConfig
  <2>2. Config(opts.filter, TcpEvents).comm_enabled = FALSE
    BY <1>1 DEF Config
  <2> QED BY <2>1, <2>2 DEF TInv, TypeOK
<1> QED BY <1>2 DEF Allowed, Attrs, PidAllowed, ParentAllowed, NameAllowed

LEMMA MachinePInv ==
  ASSUME TInv, PInv, OneSyscall, MachineNext, UNCHANGED <<readerVars, runVars>>
  PROVE  PInv'
<1>0. SInv' /\ UNCHANGED <<opts, phase, filterMap, links>>
  BY DEF PInv, SInv, runVars
<1>1. CASE links = <<>>
  <2> SUFFICES ASSUME phase \notin Gone
               PROVE  DOMAIN start' = {} /\ \A t \in Threads : pc'[t] # "store"
    BY <1>0, <1>1 DEF PInv, RInv
  <2>1. DOMAIN start = {} /\ \A t \in Threads : pc[t] # "store"
    BY <1>1 DEF PInv, RInv
  <2>2. \A at, k : ~Attached(at, k)
    BY <1>1 DEF Attached
  <2>3. CASE Tick \/ \E t \in Threads, c \in Comms : SetComm(t, c)
    BY <2>1, <2>3 DEF Tick, SetComm, threadVars, mapVars
  <2>4. ASSUME NEW t \in Threads, NEW k \in Syscalls, SysEnter(t, k)
        PROVE  DOMAIN start' = {} /\ \A u \in Threads : pc'[u] # "store"
    <3>1. Goto(t, "inside", [AtRest EXCEPT !.sys = k]) /\ start' = start
      BY <2>2, <2>4 DEF SysEnter, mapVars
    <3> QED BY <2>1, <3>1, OthersStay
  <2>5. ASSUME NEW t \in Threads, RunThread(t)
        PROVE  DOMAIN start' = {} /\ \A u \in Threads : pc'[u] # "store"
    <3>1. start' = start
      BY <2>1, <2>2, <2>5 DEF RunThread, Filtered, Store, StoreFails, SysExitUntraced, SysExit,
         AddSlot, AddSum, CompareMax, SetMax, mapVars
    <3>2. \E next \in {"user", "sum", "max", "setmax"}, locals \in {local'[t]} :
            pc' = [pc EXCEPT ![t] = next]
      BY <2>1, <2>2, <2>5 DEF RunThread, Filtered, Store, StoreFails, SysExitUntraced, SysExit,
         AddSlot, AddSum, CompareMax, SetMax, Goto, Leave
    <3> QED BY <2>1, <3>1, <3>2 DEF TInv, TypeOK
  <2> QED BY <2>3, <2>4, <2>5 DEF MachineNext
<1>2. CASE links # <<>> /\ phase \notin Gone
  <2> DEFINE k0 == The(opts.syscall)
             Recorded(u) == /\ Allowed(filterMap, Attrs(u))
                            /\ pc[u] = "inside" /\ Sys(u) = k0 => fresh[u]
  <2> SUFFICES \A u \in DOMAIN start' : Recorded(u)'
    BY <1>0, <1>2 DEF PInv, RInv
  <2>1. /\ DOMAIN start \subseteq Threads /\ \A u \in DOMAIN start : Recorded(u)
        /\ fresh \in [Threads -> BOOLEAN]
    BY <1>2 DEF PInv, RInv, TInv, TypeOK
  <2>2. \A u \in Threads : (Allowed(filterMap, Attrs(u)))' = Allowed(filterMap, Attrs(u))
    BY <1>0, NameNotAsked
  <2>3. CASE Tick \/ \E t \in Threads, c \in Comms : SetComm(t, c)
    <3>1. UNCHANGED <<pc, local, start, fresh>>
      BY <2>3 DEF Tick, SetComm, threadVars, mapVars, historyVars
    <3> QED BY <1>0, <2>1, <2>2, <3>1 DEF Sys
  <2>4. ASSUME NEW t \in Threads, NEW k \in Syscalls, SysEnter(t, k), NEW u \in DOMAIN start'
        PROVE  Recorded(u)'
    <3>1. start' = start /\ \A v \in Threads \ {t} : fresh'[v] = fresh[v]
      BY <2>1, <2>4 DEF SysEnter, mapVars
    <3>2. CASE u # t
      <4>1. pc'[u] = pc[u] /\ local'[u] = local[u]
        BY <2>1, <2>4, <3>1, <3>2, OthersStay DEF SysEnter
      <4> QED BY <1>0, <2>1, <2>2, <3>1, <3>2, <4>1 DEF Sys
    <3>3. CASE u = t
      <4>1. CASE Attached("enter", k)
        BY <1>0, <2>1, <2>2, <2>4, <3>1, <3>3, <4>1, OthersStay DEF SysEnter
      <4>2. CASE ~Attached("enter", k)
        <5>1. local'[t] = [AtRest EXCEPT !.sys = k] /\ k # k0
          BY <1>2, <2>4, <4>2, OthersStay, AttachedPrograms DEF SysEnter
        <5>2. Sys(t)' # k0
          BY <5>1 DEF Sys, AtRest
        <5> QED BY <1>0, <2>1, <2>2, <3>1, <3>3, <5>2
      <4> QED BY <4>1, <4>2
    <3> QED BY <3>2, <3>3
  <2>5. ASSUME NEW t \in Threads, RunThread(t), NEW u \in DOMAIN start'
        PROVE  Recorded(u)'
    <3>0. \E next, locals : Goto(t, next, locals)
      BY <2>5 DEF RunThread, Filtered, Store, StoreFails, SysExitUntraced, SysExit,
         AddSlot, AddSum, CompareMax, SetMax, EnterSyscall, Leave
    <3>1. CASE Store(t) /\ u = t
      BY <1>0, <2>1, <2>2, <3>1 DEF Store
    <3>2. u \in DOMAIN start \/ (Store(t) /\ u = t)
      <4>1. Store(t) => DOMAIN start' = DOMAIN start \cup {t}
        BY DEF Store
      <4>2. SysExit(t) => DOMAIN start' \subseteq DOMAIN start
        BY DEF SysExit
      <4>3. start' = start \/ Store(t) \/ SysExit(t)
        BY <2>5 DEF RunThread, Filtered, StoreFails, SysExitUntraced, AddSlot, AddSum, CompareMax,
           SetMax, mapVars
      <4> QED BY <2>5, <4>1, <4>2, <4>3
    <3>3. CASE u \in DOMAIN start /\ u # t
      <4>1. pc'[u] = pc[u] /\ local'[u] = local[u]
        BY <2>1, <3>0, <3>3, OthersStay
      <4>2. fresh'[u] = fresh[u]
        BY <2>1, <2>5, <3>3 DEF RunThread, Filtered, Store, StoreFails, SysExitUntraced, SysExit,
           AddSlot, AddSum, CompareMax, SetMax, historyVars
      <4> QED BY <1>0, <2>1, <2>2, <3>3, <4>1, <4>2 DEF Sys
    <3>4. CASE u \in DOMAIN start /\ u = t /\ ~Store(t)
      <4>1. ~Filtered(t) /\ ~StoreFails(t)
        BY <2>1, <3>4 DEF Filtered, StoreFails, Room
      <4>2. pc'[t] # "inside"
        <5>1. \E next \in {"user", "slot", "sum", "max", "setmax"} : pc' = [pc EXCEPT ![t] = next]
          BY <2>5, <3>4, <4>1 DEF RunThread, SysExitUntraced, SysExit,
             AddSlot, AddSum, CompareMax, SetMax, Goto, Leave
        <5> QED BY <5>1 DEF TInv, TypeOK
      <4> QED BY <1>0, <2>1, <2>2, <3>4, <4>2
    <3> QED BY <3>1, <3>2, <3>3, <3>4
  <2> QED BY <2>3, <2>4, <2>5 DEF MachineNext
<1>3. CASE phase \in Gone
  BY <1>0, <1>3 DEF PInv, RInv
<1> QED BY <1>1, <1>2, <1>3

LEMMA AppendNotEmpty == ASSUME NEW S, NEW seq \in Seq(S), NEW e PROVE Append(seq, e) # <<>>
<1>1. Len(Append(seq, e)) = Len(seq) + 1 /\ Len(seq) \in Nat
  OBVIOUS
<1>2. Len(Append(seq, e)) # 0
  BY <1>1
<1>3. Len(<<>>) = 0
  OBVIOUS
<1> QED BY <1>2, <1>3

LEMMA ReaderPInv ==
  ASSUME TInv, PInv, OneSyscall, Collect \/ SetupFails \/ Signal \/ Expire, UNCHANGED machineVars
  PROVE  PInv'
<1>0. UNCHANGED <<comm, pc, local, start, fresh>>
  BY DEF machineVars, threadVars, mapVars, historyVars
<1>1. CASE Load
  BY <1>0, <1>1 DEF Load, Step, readerVars, PInv, SInv, RInv, Gone, Teardown, Ended
<1>2. CASE ApplyMap
  BY <1>0, <1>2 DEF ApplyMap, Step, PInv, SInv, RInv, Gone, Teardown, Ended
<1>3. CASE Attach
  <2>1. opts' = opts /\ phase' \in {"attach", "check"} /\ phase = "attach" /\ filterMap' = filterMap
        /\ links' = Append(links, Programs(Kinds)[Len(links) + 1])
    BY <1>3 DEF Attach, Step
  <2>2. links' # <<>>
    <3>1. links \in Seq(Links)
      BY DEF TInv, TypeOK, Links
    <3> QED BY <2>1, <3>1, AppendNotEmpty
  <2>3. SInv'
    BY <2>1 DEF PInv, SInv, Ended
  <2>4. RInv'
    BY <1>0, <2>1, <2>2 DEF PInv, RInv, Gone, Teardown, Ended, Attrs, Sys
  <2> QED BY <2>3, <2>4 DEF PInv
<1>4. CASE SetupFails \/ PrintSummary \/ DropLink \/ Return
  <2>1. /\ opts' = opts /\ phase' \in Gone
        /\ links' # <<>> => links # <<>> /\ phase' \in Teardown
        /\ phase' \notin {"abort", "failed"} => phase \notin {"start", "abort", "failed"}
    <3>1. CASE SetupFails \/ PrintSummary
      BY <3>1 DEF SetupFails, PrintSummary, Step, Gone, Teardown, Ended
    <3>2. CASE DropLink
      BY <3>2 DEF DropLink, Step, Gone, Teardown, Ended
    <3>3. CASE Return
      BY <3>3 DEF Return, Step, Gone, Teardown, Ended
    <3> QED BY <1>4, <3>1, <3>2, <3>3
  <2> QED BY <2>1 DEF PInv, SInv, RInv, Gone, Teardown, Ended
<1>5. CASE Check \/ ReadCell \/ PrintSnapshot \/ WarnOnDrops \/ WakeUp \/ Signal \/ Expire
  <2>1. UNCHANGED <<opts, filterMap, links>>
    BY <1>5 DEF Check, ReadCell, PrintSnapshot, WarnOnDrops, WakeUp, Signal, Expire, Step
  <2>2. /\ phase' = phase
           \/ /\ phase \notin {"start", "loaded"} \cup Gone
              /\ phase' \notin {"start", "loaded"} \cup Gone
    BY <1>5 DEF Check, ReadCell, PrintSnapshot, WarnOnDrops, WakeUp, Signal, Expire, Step, Gone,
       Teardown, Ended
  <2> QED BY <1>0, <2>1, <2>2 DEF PInv, SInv, RInv, Attrs, Sys, Gone, Teardown, Ended
<1> QED BY <1>1, <1>2, <1>3, <1>4, <1>5 DEF Collect

LEMMA NextPInv ==
  ASSUME TInv, PInv, OneSyscall, [Next]_vars PROVE PInv'
<1>1. CASE UNCHANGED vars
  BY <1>1 DEF vars, machineVars, threadVars, mapVars, historyVars, runVars, PInv, SInv, RInv,
     Attrs, Sys
<1> QED BY <1>1, MachinePInv, ReaderPInv DEF Next

LEMMA ExitIsFresh ==
  ASSUME TInv, PInv, OneSyscall, [Next]_vars, phase \notin Gone,
         NEW t \in Threads, pc[t] = "inside", pc'[t] = "slot"
  PROVE  fresh[t]
<1>1. SysExit(t)
  <2>1. ASSUME NEW u \in Threads, u # t, RunThread(u) \/ \E k \in Syscalls : SysEnter(u, k)
        PROVE  FALSE
    <3>1. \E next, locals : Goto(u, next, locals)
      BY <2>1 DEF RunThread, Filtered, Store, StoreFails, SysExitUntraced, SysExit, SysEnter,
         AddSlot, AddSum, CompareMax, SetMax, EnterSyscall, Leave
    <3> QED BY <2>1, <3>1, OthersStay
  <2>2. CASE RunThread(t) /\ ~SysExit(t)
    <3>1. SysExitUntraced(t)
      BY <2>2 DEF RunThread, Filtered, Store, StoreFails, AddSlot, AddSum, CompareMax, SetMax
    <3> QED BY <3>1, OthersStay DEF SysExitUntraced, Leave
  <2>3. CASE UNCHANGED pc
    BY <2>3
  <2> QED BY <2>1, <2>2, <2>3 DEF Next, MachineNext, SysEnter, Tick, SetComm, threadVars,
        machineVars, vars
<1>2. links # <<>>
  BY <1>1 DEF SysExit, Attached
<1>3. Sys(t) = The(opts.syscall) /\ t \in DOMAIN start
  BY <1>1, <1>2, AttachedPrograms DEF SysExit
<1> QED BY <1>2, <1>3 DEF PInv, RInv

(* Where every command line traces one syscall and selects by no name, an  *)
(* exit is measured against the entry of the same call, from the first     *)
(* program attached until run returns and drops the links one by one,      *)
(* whatever filter of PIDs is set and however full latency_start is.       *)
THEOREM OneSyscallIsPaired == OneSyscall => (Spec => OnlyPaired)
<1> SUFFICES ASSUME OneSyscall PROVE Spec => OnlyPaired
  OBVIOUS
<1>1. ASSUME TInv, PInv, [Next]_vars
      PROVE  [\A t \in Threads :
                phase \notin Teardown \cup Ended /\ pc[t] = "inside" /\ pc'[t] = "slot"
                  => fresh[t]]_vars
  BY <1>1, ExitIsFresh DEF Gone
<1>2. ASSUME TInv, PInv, [Next]_vars PROVE PInv'
  BY <1>2, NextPInv
<1> QED BY <1>1, <1>2, InitPInv, TInvHolds, PTL DEF Spec, OnlyPaired
=============================================================================
