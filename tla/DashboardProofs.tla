--------------------------- MODULE DashboardProofs ---------------------------
(***************************************************************************)
(* Proofs about Dashboard, for every set of tasks, ring size, stream       *)
(* length and command line.                                                *)
(***************************************************************************)
EXTENDS Dashboard, ProbesProofs

Holding == {"lock"} \cup Pushing

(* Links are made one by one, in the order of the programs, and dropped in *)
(* the same order.                                                         *)
Kinds == {Programs[i] : i \in 1..5}

LinksOK ==
  /\ attached \in Seq(Kinds) /\ Len(attached) <= 5
  /\ phase \in {"none", "load", "loaded"} => attached = <<>>
  /\ phase = "attach" => Len(attached) < 5

Rows == [seq : Nat, pid : Nat, comm : Comms \cup {NoName}, event : Events]

HistoryOK ==
  /\ pushed \in Seq(Rows) /\ rejected \in Nat
  /\ seen \in Nat /\ dropsNow \in Nat /\ dropsBefore \in Nat

(* The callback works on a record that was submitted.                      *)
HoldsRecord == phase \in Holding => HeadReady

(* The thread is spawned once.                                             *)
SpawnsOnce == ui = "start" => phase = "none"

TInv == TypeOK /\ CurOK /\ LinksOK /\ HistoryOK /\ HoldsRecord /\ SpawnsOnce

-----------------------------------------------------------------------------

LEMMA InitTInv == Init => TInv
<1> SUFFICES ASSUME Init PROVE TInv
  OBVIOUS
<1> USE DEF Init, ProbeInit
<1>1. ProbeTypeOK
  BY DEF ProbeTypeOK
<1>a. running \in BOOLEAN /\ paused \in BOOLEAN /\ due \in BOOLEAN
  OBVIOUS
<1>b. filterMap \in {ZeroConfig, Config(opts, TcpEvents)}
  OBVIOUS
<1>c. attached = <<>>
  OBVIOUS
<1>3. TypeOK
  BY <1>1, <1>a, <1>b, <1>c DEF TypeOK, Pushing, Teardown, Ended
<1>4. CurOK /\ LinksOK /\ HistoryOK /\ HoldsRecord /\ SpawnsOnce
  <2>1. CurOK
    BY DEF CurOK
  <2>2. LinksOK
    BY DEF LinksOK
  <2>3. HistoryOK /\ HoldsRecord /\ SpawnsOnce
    BY DEF HistoryOK, HoldsRecord, SpawnsOnce, Holding, Pushing
  <2> QED BY <2>1, <2>2, <2>3
<1> QED BY <1>3, <1>4 DEF TInv

(* Steps that leave the kernel alone.                                      *)
LEMMA StillHolds ==
  ASSUME UNCHANGED kernel, HoldsRecord, phase' \notin Holding \/ phase \in Holding
  PROVE  HoldsRecord'
BY DEF HoldsRecord, HeadReady, kernel

LEMMA ProbeTInv ==
  ASSUME TInv, ProbeNext, UNCHANGED <<opts, running, collector, interface, memory>>
  PROVE  TInv'
<1> USE DEF TInv
<1>1. ProbeTypeOK' /\ CurOK'
  BY ProbesType DEF TypeOK
<1>2. UNCHANGED <<filterMap, attached, phase, ui, paused, due, lock, opts, running,
                  pushed, rejected, seen, dropsNow, dropsBefore>>
  BY ProbesFrame DEF setup, collector, interface, memory
<1>3. TypeOK' /\ LinksOK' /\ HistoryOK' /\ SpawnsOnce'
  BY <1>1, <1>2 DEF TypeOK, LinksOK, HistoryOK, SpawnsOnce
<1>4. HoldsRecord'
  BY <1>2, HeadStays DEF HoldsRecord, TypeOK
<1> QED BY <1>1, <1>3, <1>4

(* The steps of the collector thread before, between and after its events. *)
Aside ==
  \/ Load \/ ApplyMap \/ Attach \/ BuildRing \/ SetupFails \/ DropLink \/ Return
  \/ Check \/ PollReady \/ PollTimeout \/ DrainEnds \/ Callback \/ WarnOnDrops \/ RefreshLatency

LEMMA AsideFrame ==
  ASSUME Aside
  PROVE  /\ UNCHANGED <<kernel, memory, opts, running, rejected, interface>>
         /\ phase \notin Pushing \cup {"none", "lock"} \cup Ended
         /\ phase' \in {"loaded", "attach", "build", "check", "poll", "drain", "lock", "copy",
                        "warn", "refresh"} \cup Teardown \cup Ended
         /\ phase \in Teardown => phase' \in Teardown \cup Ended
         /\ phase = "killed" => phase' = "killed"
<1>1. CASE Load \/ ApplyMap \/ Attach \/ BuildRing \/ SetupFails
  BY <1>1 DEF Load, ApplyMap, Attach, BuildRing, SetupFails, Goto, probeVars, Pushing, Teardown,
     Ended
<1>2. CASE DropLink \/ Return
  BY <1>2 DEF DropLink, Return, Goto, probeVars, Pushing, Teardown, Ended
<1>3. CASE \/ Check \/ PollReady \/ PollTimeout \/ DrainEnds \/ Callback \/ WarnOnDrops
           \/ RefreshLatency
  BY <1>3 DEF Check, PollReady, PollTimeout, DrainEnds, PollReturns, Callback, WarnOnDrops,
     RefreshLatency, Goto, probeVars, Pushing, Teardown, Ended
<1> QED BY <1>1, <1>2, <1>3 DEF Aside

(* Its links: one more, one less, or the same ones.                        *)
LEMMA AsideLinks ==
  ASSUME TInv, Aside
  PROVE  /\ LinksOK'
         /\ \A i \in DOMAIN attached' : \E j \in DOMAIN Programs :
              attached'[i] = Programs[j] /\ (phase' \notin Teardown => j = i)
<1> USE DEF TInv
<1>0. /\ attached \in Seq(Kinds) /\ Len(attached) \in 0..5 /\ DOMAIN attached = 1..Len(attached)
      /\ Len(Programs) = 5 /\ DOMAIN Programs = 1..5
  <2>1. Len(Programs) = 5 /\ DOMAIN Programs = 1..5
    BY DEF Programs
  <2>2. attached \in Seq(Kinds) /\ Len(attached) <= 5
    BY DEF LinksOK
  <2>3. Len(attached) \in Nat /\ DOMAIN attached = 1..Len(attached)
    BY <2>2
  <2>4. Len(attached) \in 0..5
    BY <2>2, <2>3
  <2> QED BY <2>1, <2>2, <2>3, <2>4
<1>a. \A i \in DOMAIN attached : \E j \in DOMAIN Programs :
        attached[i] = Programs[j] /\ (phase \notin Teardown => j = i)
  BY DEF TypeOK
<1>1. CASE Attach
  <2>1. /\ attached' = Append(attached, Programs[Len(attached) + 1])
        /\ Len(attached) + 1 \in 1..5 /\ phase = "attach" /\ phase' \in {"attach", "build"}
        /\ phase' = "attach" => Len(attached) + 1 < 5
    BY <1>0, <1>1 DEF Attach, Goto
  <2>2. attached' \in Seq(Kinds) /\ Len(attached') = Len(attached) + 1
    BY <1>0, <2>1 DEF Kinds
  <2>3. LinksOK'
    BY <1>0, <2>1, <2>2 DEF LinksOK
  <2>4. ASSUME NEW i \in DOMAIN attached'
        PROVE  i \in DOMAIN Programs /\ attached'[i] = Programs[i]
    <3>1. CASE i = Len(attached) + 1
      BY <1>0, <2>1, <3>1
    <3>2. CASE i # Len(attached) + 1
      <4>1. i \in DOMAIN attached /\ attached'[i] = attached[i]
        BY <1>0, <2>1, <2>2, <3>2
      <4> QED BY <1>0, <1>a, <2>1, <4>1 DEF Teardown
    <3> QED BY <3>1, <3>2
  <2> QED BY <2>3, <2>4
<1>2. CASE DropLink
  <2>1. /\ attached # <<>> /\ attached' = Tail(attached)
        /\ phase \in Teardown /\ phase' = phase
    BY <1>2 DEF DropLink, Goto
  <2>2. /\ attached' \in Seq(Kinds) /\ Len(attached') = Len(attached) - 1
        /\ \A i \in DOMAIN attached' : i + 1 \in DOMAIN attached /\ attached'[i] = attached[i + 1]
    BY <1>0, <2>1
  <2> QED BY <1>0, <1>a, <2>1, <2>2 DEF LinksOK, Teardown
<1>3. CASE ~Attach /\ ~DropLink
  <2>1. /\ UNCHANGED attached
        /\ phase' \in {"loaded", "attach"} => attached = <<>>
        /\ phase' # "load" /\ phase' # "none"
        /\ phase \in Teardown => phase' \in Teardown \/ attached = <<>>
    BY <1>3 DEF Aside, Load, ApplyMap, BuildRing, SetupFails, Return, Check, PollReady,
       PollTimeout, DrainEnds, PollReturns, Callback, WarnOnDrops, RefreshLatency, Goto,
       probeVars, setup, Teardown, LinksOK
  <2> QED BY <1>0, <1>a, <2>1 DEF LinksOK
<1> QED BY <1>1, <1>2, <1>3

LEMMA AsideTInv ==
  ASSUME TInv, Aside PROVE TInv'
<1> USE DEF TInv
<1>1. UNCHANGED <<kernel, memory, opts, running, rejected, interface>>
  BY AsideFrame
<1>2. ProbeTypeOK' /\ CurOK'
  BY <1>1, KernelFrame DEF TypeOK
<1>3. HistoryOK'
  <2>1. /\ UNCHANGED <<rejected, pushed>> /\ seen' \in {seen, drops}
        /\ dropsNow' \in {dropsNow, drops} /\ dropsBefore' \in {dropsBefore, dropsNow}
    BY <1>1 DEF Aside, Load, ApplyMap, Attach, BuildRing, SetupFails, DropLink, Return, Check,
       PollReady, PollTimeout, DrainEnds, PollReturns, Callback, WarnOnDrops, RefreshLatency,
       Goto, memory
  <2> QED BY <2>1 DEF HistoryOK, TypeOK, ProbeTypeOK
<1>4. HoldsRecord'
  <2>1. CASE Callback
    BY <1>1, <2>1 DEF Callback, HoldsRecord, HeadReady, kernel
  <2>2. CASE ~Callback
    <3>1. phase' # "lock"
      BY <2>2 DEF Aside, Load, ApplyMap, Attach, BuildRing, SetupFails, DropLink, Return, Check,
         PollReady, PollTimeout, DrainEnds, PollReturns, WarnOnDrops, RefreshLatency, Goto,
         Teardown
    <3>2. phase' \notin Holding
      BY <3>1, AsideFrame DEF Holding, Pushing, Teardown, Ended
    <3> QED BY <1>1, <3>2, StillHolds
  <2> QED BY <2>1, <2>2
<1>5. LinksOK'
  BY AsideLinks
<1>6. TypeOK'
  <2>1. filterMap' \in {ZeroConfig, Config(opts, TcpEvents)}
    BY DEF Aside, Load, ApplyMap, Attach, BuildRing, SetupFails, DropLink, Return, Check,
       PollReady, PollTimeout, DrainEnds, PollReturns, Callback, WarnOnDrops, RefreshLatency,
       Goto, probeVars, setup, TypeOK
  <2>2. \A i \in DOMAIN attached' : \E j \in DOMAIN Programs :
          attached'[i] = Programs[j] /\ (phase' \notin Teardown => j = i)
    BY AsideLinks
  <2>3. /\ phase' \in {"none", "load", "loaded", "attach", "build", "check", "poll", "drain",
                       "lock", "copy", "warn", "refresh"} \cup Pushing \cup Teardown \cup Ended
        /\ phase' \notin Pushing
        /\ lock = "collector" => phase' = "killed"
    BY AsideFrame DEF TypeOK, Pushing, Teardown, Ended
  <2> QED BY <1>1, <1>2, <2>1, <2>2, <2>3 DEF TypeOK, memory, interface
<1>7. SpawnsOnce'
  BY <1>1, AsideFrame DEF SpawnsOnce, interface
<1> QED BY <1>2, <1>3, <1>4, <1>5, <1>6, <1>7

LEMMA RowType ==
  ASSUME NEW r \in Record PROVE Row(r) \in Rows
BY ProbesAssumption DEF Row, Rows, Record

LEMMA SharingTInv ==
  ASSUME TInv, LockShared \/ PushTotals \/ PushTallies \/ CopyDropped
  PROVE  TInv'
<1> USE DEF TInv
<1>1. UNCHANGED <<probeVars, pushed, opts, running, seen, rejected, dropsNow, dropsBefore, interface>>
  BY DEF LockShared, PushTotals, PushTallies, CopyDropped, Goto
<1>2. ProbeTypeOK' /\ CurOK'
  BY <1>1, KernelFrame DEF TypeOK, probeVars
<1>3. LinksOK' /\ HistoryOK'
  BY <1>1 DEF LockShared, PushTotals, PushTallies, CopyDropped, Goto, LinksOK, HistoryOK,
     probeVars, setup
<1>4. HoldsRecord'
  BY <1>1, StillHolds DEF LockShared, PushTotals, PushTallies, CopyDropped, Goto, Holding,
     Pushing, probeVars
<1>5. TypeOK'
  BY <1>1, <1>2 DEF LockShared, PushTotals, PushTallies, CopyDropped, Goto, TypeOK, Pushing,
     Teardown, Ended, probeVars, setup, interface
<1>6. SpawnsOnce'
  BY <1>1 DEF LockShared, PushTotals, PushTallies, CopyDropped, SpawnsOnce, interface
<1> QED BY <1>2, <1>3, <1>4, <1>5, <1>6

LEMMA HandledTInv ==
  ASSUME TInv, Reject \/ PushRow PROVE TInv'
<1> USE DEF TInv
<1>1. HeadReady /\ Release /\ phase' = "drain"
      /\ UNCHANGED <<setup, opts, running, seen, dropsNow, dropsBefore, interface>>
  BY DEF Reject, PushRow, Goto, HoldsRecord, Holding, Pushing, Release
<1>2. ProbeTypeOK' /\ CurOK'
  BY <1>1, ReleaseType DEF TypeOK, HeadReady
<1>3. LinksOK'
  BY <1>1 DEF LinksOK, setup
<1>4. HistoryOK'
  <2>1. CASE Reject
    BY <1>1, <2>1 DEF Reject, HistoryOK, memory
  <2>2. CASE PushRow
    <3>1. ring[1] \in Record
      BY <1>1 DEF HeadReady, TypeOK, ProbeTypeOK
    <3>2. pushed' \in Seq(Rows)
      BY <2>2, <3>1, RowType DEF PushRow, HistoryOK
    <3> QED BY <1>1, <2>2, <3>2 DEF PushRow, HistoryOK, Goto
  <2> QED BY <2>1, <2>2
<1>5. HoldsRecord'
  BY <1>1 DEF HoldsRecord, Holding, Pushing
<1>6. lock' = (IF phase = "row" THEN "free" ELSE lock) /\ phase \in {"drain", "row"}
  BY DEF Reject, PushRow, memory
<1>7. TypeOK'
  BY <1>1, <1>2, <1>6 DEF TypeOK, Pushing, Teardown, Ended, setup, interface
<1>8. SpawnsOnce'
  BY <1>1, <1>6 DEF SpawnsOnce, interface
<1> QED BY <1>2, <1>3, <1>4, <1>5, <1>7, <1>8

(* The main thread, and the end of the process.                            *)
LEMMA ExitTInv ==
  ASSUME TInv, Exit PROVE TInv'
<1> USE DEF TInv
<1>0. /\ UNCHANGED <<filterMap, attached, kernel, opts, running, seen, rejected, dropsNow,
                     dropsBefore, paused, due, shown, shared, pushed>>
      /\ phase' \in {"none", "done", "failed", "killed"} /\ (phase' # "killed" => phase' = phase)
      /\ lock' = (IF lock = "ui" THEN "free" ELSE lock) /\ ui' = "exited"
  BY DEF Exit, probeVars, setup
<1>1. ProbeTypeOK' /\ CurOK'
  BY <1>0, KernelFrame DEF TypeOK
<1>2. LinksOK'
  BY <1>0 DEF LinksOK
<1>3. HistoryOK'
  BY <1>0 DEF HistoryOK
<1>4. HoldsRecord'
  BY <1>0 DEF HoldsRecord, Holding, Pushing
<1>5. TypeOK'
  <2>1. \A i \in DOMAIN attached' : \E j \in DOMAIN Programs :
          attached'[i] = Programs[j] /\ (phase' \notin Teardown => j = i)
    BY <1>0 DEF TypeOK, Teardown
  <2>2. lock' \in {"free", "collector"} /\ (lock' = "collector" => phase' = "killed")
    BY <1>0 DEF TypeOK, Pushing, Teardown
  <2>3. phase' \in {"none"} \cup Teardown \cup Ended /\ phase' \notin Pushing
    BY <1>0 DEF Teardown, Ended, Pushing
  <2>4. filterMap' \in {ZeroConfig, Config(opts', TcpEvents)}
    BY <1>0 DEF TypeOK
  <2>5. /\ opts' \in Options /\ running' \in BOOLEAN /\ paused' \in BOOLEAN /\ due' \in BOOLEAN
    BY <1>0 DEF TypeOK
  <2>6. lock' \in {"free", "collector", "ui"} /\ (lock' = "ui" <=> ui' = "draw")
        /\ (lock' = "collector" => phase' \in Pushing \cup {"killed"})
    BY <1>0, <2>2
  <2> QED BY <1>0, <1>1, <2>1, <2>3, <2>4, <2>5, <2>6 DEF TypeOK
<1>6. SpawnsOnce'
  BY <1>0 DEF SpawnsOnce
<1> QED BY <1>1, <1>2, <1>3, <1>4, <1>5, <1>6

LEMMA UiTInv ==
  ASSUME TInv, Spawn \/ SpawnFails \/ Interface \/ TerminalFails
               \/ (\E action \in KeyActions : Key(action)) \/ Second \/ Signal \/ Interrupt
  PROVE  TInv'
<1> USE DEF TInv
<1>1. CASE Exit
  BY <1>1, ExitTInv
<1>2. CASE ~Exit
  <2>1. UNCHANGED <<kernel, opts, seen, rejected, dropsNow, dropsBefore, shared, pushed>>
    BY <1>2 DEF Spawn, SpawnFails, Interface, UiCheck, NoKey, TakeSnapshot, Draw,
       TerminalFails, Key, Second, Signal, Interrupt, Show, probeVars, collector, memory
  <2>2. ProbeTypeOK' /\ CurOK'
    BY <2>1, KernelFrame DEF TypeOK
  <2>3. /\ attached' = attached
        /\ \/ phase' = phase
           \/ phase = "none" /\ phase' = "load"
           \/ phase = "poll" /\ phase' = "abort"
    BY <1>2 DEF Spawn, SpawnFails, Interface, UiCheck, NoKey, TakeSnapshot, Draw,
       TerminalFails, Key, Second, Signal, Interrupt, Show, probeVars, setup, collector, SpawnsOnce
  <2>4. LinksOK'
    BY <2>3 DEF LinksOK
  <2>5. HistoryOK'
    BY <2>1 DEF HistoryOK
  <2>6. HoldsRecord'
    BY <2>1, <2>3, StillHolds DEF Holding, Pushing
  <2>9. \A i \in DOMAIN attached' : \E j \in DOMAIN Programs :
          attached'[i] = Programs[j] /\ (phase' \notin Teardown => j = i)
    BY <2>3 DEF TypeOK, Teardown
  <2>7. TypeOK'
    <3>1. CASE Spawn
      BY <2>2, <2>9, <3>1 DEF Spawn, SpawnsOnce, TypeOK, Pushing, Teardown, Ended, probeVars,
         setup, memory
    <3>2. CASE Interface
      BY <1>2, <2>2, <2>9, <3>2 DEF Interface, UiCheck, NoKey, TakeSnapshot, Draw, Show, TypeOK,
         probeVars, setup, collector
    <3>3. CASE \E action \in KeyActions : Key(action)
      BY <1>2, <2>2, <2>9, <3>3 DEF Key, Show, TypeOK, probeVars, setup, collector
    <3>4. CASE Second
      BY <2>2, <2>9, <3>4 DEF Second, TypeOK, probeVars, setup, collector, memory
    <3>5. CASE Signal
      BY <2>2, <2>9, <3>5 DEF Signal, TypeOK, probeVars, setup, collector, interface, memory
    <3>6. CASE Interrupt
      BY <2>2, <2>9, <3>6 DEF Interrupt, TypeOK, Pushing, Teardown, Ended, probeVars, setup,
         interface, memory
    <3> QED BY <1>2, <3>1, <3>2, <3>3, <3>4, <3>5, <3>6 DEF SpawnFails, TerminalFails
  <2>8. SpawnsOnce'
    BY <1>2 DEF Spawn, SpawnFails, Interface, UiCheck, NoKey, TakeSnapshot, Draw,
       TerminalFails, Key, Second, Signal, Interrupt, Show, collector, interface, SpawnsOnce
  <2> QED BY <2>2, <2>4, <2>5, <2>6, <2>7, <2>8
<1> QED BY <1>1, <1>2

LEMMA NextTInv ==
  ASSUME TInv, [Next]_vars PROVE TInv'
<1>1. CASE ProbeNext /\ UNCHANGED <<opts, running, collector, interface, memory>>
  BY <1>1, ProbeTInv
<1>2. CASE UNCHANGED vars
  <2>1. UNCHANGED kernel
    BY <1>2 DEF vars, probeVars
  <2>2. ProbeTypeOK' /\ CurOK' /\ HoldsRecord'
    BY <1>2, <2>1, KernelFrame, StillHolds DEF TInv, TypeOK, vars, collector
  <2> QED BY <1>2, <2>2 DEF TInv, TypeOK, LinksOK, HistoryOK, SpawnsOnce, vars, probeVars, setup,
            collector, interface, memory
<1> QED BY <1>1, <1>2, AsideTInv, SharingTInv, HandledTInv, UiTInv DEF Next, Collect, Aside

LEMMA TInvHolds == Spec => []TInv
BY InitTInv, NextTInv, PTL DEF Spec

(* Every variable keeps its type, and the mutex is held by the thread that *)
(* is inside its critical section.                                         *)
THEOREM TypeCorrect == Spec => []TypeOK
<1>1. TInv => TypeOK
  BY DEF TInv
<1> QED BY <1>1, TInvHolds, PTL

-----------------------------------------------------------------------------
(* No record is missed.                                                    *)

(* The steps that neither run a program nor finish with a record.          *)
Elsewhere ==
  \/ Aside
  \/ LockShared \/ PushTotals \/ PushTallies \/ CopyDropped
  \/ Spawn \/ SpawnFails \/ Interface \/ TerminalFails
  \/ (\E action \in KeyActions : Key(action)) \/ Second \/ Signal \/ Interrupt
  \/ UNCHANGED vars

LEMMA NextCases ==
  ASSUME [Next]_vars
  PROVE  \/ ProbeNext /\ UNCHANGED <<opts, running, collector, interface, memory>>
         \/ Reject \/ PushRow
         \/ Elsewhere
BY DEF Next, Collect, Elsewhere, Aside

LEMMA ElsewhereFrame ==
  ASSUME Elsewhere PROVE UNCHANGED <<kernel, pushed, rejected>>
<1>1. CASE Aside
  BY <1>1, AsideFrame DEF memory
<1>2. CASE LockShared \/ PushTotals \/ PushTallies \/ CopyDropped
  BY <1>2 DEF LockShared, PushTotals, PushTallies, CopyDropped, Goto, probeVars
<1>3. CASE Spawn \/ SpawnFails \/ Interface \/ TerminalFails
           \/ (\E action \in KeyActions : Key(action)) \/ Second \/ Signal \/ Interrupt
  BY <1>3 DEF Spawn, SpawnFails, Interface, UiCheck, NoKey, TakeSnapshot, Draw, TerminalFails,
     Key, Second, Signal, Interrupt, Show, Exit, probeVars, collector, memory
<1>4. CASE UNCHANGED vars
  BY <1>4 DEF vars, probeVars, collector, memory
<1> QED BY <1>1, <1>2, <1>3, <1>4 DEF Elsewhere

LEMMA TakesOne ==
  ASSUME TInv, Reject \/ PushRow
  PROVE  HeadReady /\ Release /\ Taken \in Nat /\ Taken' = Taken + 1
BY DEF Reject, PushRow, Goto, Release, TInv, HoldsRecord, Holding, Pushing, HistoryOK, Taken,
   memory

(* The ring holds the records reserved and not yet taken, in their order.  *)
MInv == Numbered(ring, reserved, Taken)

LEMMA InitMInv == Init => MInv
BY DEF Init, ProbeInit, MInv, Numbered, Taken

LEMMA NextMInv ==
  ASSUME TInv, MInv, [Next]_vars PROVE MInv'
<1>1. ProbeTypeOK /\ Taken \in Nat
  BY DEF TInv, TypeOK, HistoryOK, Taken
<1>2. CASE ProbeNext /\ UNCHANGED <<opts, running, collector, interface, memory>>
  <2>1. Taken' = Taken
    BY <1>2 DEF Taken, collector, memory
  <2>2. Numbered(ring', reserved', Taken)
    BY <1>1, <1>2, ProbesNumbered DEF MInv
  <2> QED BY <2>1, <2>2 DEF MInv
<1>3. CASE Reject \/ PushRow
  <2>1. HeadReady /\ Release /\ Taken' = Taken + 1
    BY <1>3, TakesOne
  <2>2. Numbered(ring', reserved', Taken + 1)
    BY <1>1, <2>1, ReleaseNumbered DEF MInv, HeadReady
  <2> QED BY <2>1, <2>2 DEF MInv
<1>4. CASE Elsewhere
  BY <1>4, ElsewhereFrame DEF MInv, Taken, kernel
<1> QED BY <1>2, <1>3, <1>4, NextCases

LEMMA MInvHolds == Spec => []MInv
BY InitMInv, NextMInv, TInvHolds, PTL DEF Spec

(* Every record that a program put into the ring is still there, in the    *)
(* totals, or was refused by the decoder, at any time and in any state of  *)
(* the interface.                                                          *)
THEOREM NoneMissed == Spec => []NothingMissed
<1>1. TInv /\ MInv => NothingMissed
  BY DEF MInv, Numbered, NothingMissed
<1> QED BY <1>1, TInvHolds, MInvHolds, PTL

-----------------------------------------------------------------------------
(* The dashboard's event path is a channel.                                *)

LEMMA InitImplements == Init => Chan!Init
<1> SUFFICES ASSUME Init PROVE Chan!Init
  OBVIOUS
<1>1. reserved = 0 /\ Taken = 0 /\ drops = 0 /\ Submitted = {} /\ Waiting = <<>>
  BY DEF Init, ProbeInit, Taken, Submitted, Waiting
<1>4. Room = RingBytes
  BY ProbesAssumption DEF Init, ProbeInit, Room
<1>2. Refusing = {}
  BY DEF Init, ProbeInit, Refusing
<1>3. Refusals = 0
  BY <1>1, <1>2, FS_EmptySet DEF Refusals, Refusing
<1> QED BY <1>1, <1>3, <1>4 DEF Chan!Init

(* The programs accept, complete, refuse and count; Reject and PushRow     *)
(* take the record at the head; every other step stutters.                 *)
THEOREM DashboardIsChannel == Spec => Implements
<1>1. ASSUME TInv, MInv, [Next]_vars PROVE [Chan!Next]_(Chan!vars)
  <2>0. ProbeTypeOK /\ Taken \in Nat
    BY <1>1 DEF TInv, TypeOK, HistoryOK, Taken
  <2>1. CASE ProbeNext /\ UNCHANGED <<opts, running, collector, interface, memory>>
    <3>1. Taken' = Taken
      BY <2>1 DEF Taken, collector, memory
    <3>2. ChannelStep(Taken)
      BY <1>1, <2>0, <2>1, ProbesStep DEF TInv, MInv
    <3> QED BY <3>1, <3>2 DEF ChannelStep, Chan!Next, Chan!vars, Chan!Accept, Chan!Complete,
              Chan!Refuse, Chan!Count
  <2>2. CASE Reject \/ PushRow
    <3>1. HeadReady /\ Release /\ Taken' = Taken + 1
      BY <1>1, <2>2, TakesOne
    <3>2. /\ Taken + 1 \in Submitted /\ Submitted' = Submitted \ {Taken + 1}
          /\ Waiting' = Tail(Waiting) /\ Room' = Room + Head(Waiting)
          /\ UNCHANGED <<reserved, Refusals, drops>>
      BY <1>1, <2>0, <3>1, ReleaseStep DEF MInv
    <3> QED BY <3>1, <3>2 DEF Chan!Take, Chan!Next
  <2>3. CASE Elsewhere
    <3>1. UNCHANGED <<pc, ring, produced, consumed, reserved, drops, Taken>>
      BY <2>3, ElsewhereFrame DEF kernel, positions, Taken
    <3>2. UNCHANGED <<Submitted, Refusals, Waiting, Room>>
      BY <3>1 DEF Submitted, Refusals, Waiting, Room
    <3> QED BY <3>1, <3>2 DEF Chan!vars
  <2> QED BY <1>1, <2>1, <2>2, <2>3, NextCases
<1> QED BY <1>1, InitImplements, TInvHolds, MInvHolds, PTL DEF Spec, Implements, Chan!Spec

-----------------------------------------------------------------------------
(* The drop counter of Shared, and of the frame on the screen.             *)

Fields == {"total", "tcp", "file", "processes", "byEvent", "recent", "dropped"}

Shaped(s) == s = [field \in Fields |-> s[field]]

Counters ==
  /\ Shaped(shared) /\ Shaped(shown)
  /\ shared.dropped \in Nat /\ shown.dropped \in Nat
  /\ seen \in Nat /\ drops \in Nat /\ dropsNow \in Nat /\ dropsBefore \in Nat

(* What was seen lags behind the last poll only on the way from the poll   *)
(* to the next look at the counter, and what is shared lags behind what    *)
(* was seen only until it is copied; it is not copied during a draw.       *)
Gone == Teardown \cup Ended

Lags ==
  /\ shown.dropped <= shared.dropped /\ shared.dropped <= seen /\ seen <= drops
  /\ dropsBefore <= dropsNow /\ dropsNow <= drops
  /\ phase \notin {"copy", "warn"} \cup Gone => seen >= dropsNow
  /\ phase \notin Gone => seen >= dropsBefore
  /\ phase \notin {"copy"} \cup Gone => shared.dropped >= dropsBefore
  /\ ui = "draw" => shown.dropped = shared.dropped

DInv == Counters /\ Lags

LEMMA InitDInv == Init => DInv
<1> SUFFICES ASSUME Init PROVE DInv
  OBVIOUS
<1>1. Shaped(Empty) /\ Empty.dropped = 0
  BY DEF Shaped, Empty, Fields
<1> QED BY <1>1 DEF Init, ProbeInit, DInv, Counters, Lags

(* Steps that leave the numbers alone and do not leave copy or warn.       *)
LEMMA LagsFrame ==
  ASSUME DInv, UNCHANGED <<seen, dropsNow, dropsBefore>>, drops' = drops \/ drops' = drops + 1,
         Shaped(shared'), Shaped(shown'), shared'.dropped = shared.dropped,
         shown' = shown \/ shown' = shared,
         ui' = "draw" => (ui = "draw" /\ shown' = shown) \/ shown' = shared,
         phase' = phase \/ phase' \in Gone \/ phase \notin {"copy", "warn"} \cup Gone
  PROVE  DInv'
BY DEF DInv, Counters, Lags, Gone, Teardown, Ended

LEMMA PushedShape ==
  ASSUME Shaped(shared), PushTotals \/ PushTallies \/ PushRow
  PROVE  Shaped(shared') /\ shared'.dropped = shared.dropped
BY DEF PushTotals, PushTallies, PushRow, Shaped, Fields

LEMMA NextDInv ==
  ASSUME TInv, DInv, [Next]_vars PROVE DInv'
<1>0. Shaped(shared) /\ Shaped(shown)
  BY DEF DInv, Counters
<1>1. CASE ProbeNext /\ UNCHANGED <<opts, running, collector, interface, memory>>
  <2>1. drops' = drops \/ drops' = drops + 1
    BY <1>1, ProbesCount DEF TInv, TypeOK
  <2> QED BY <1>0, <1>1, <2>1, LagsFrame DEF collector, interface, memory
<1>2. CASE PushTotals \/ PushTallies \/ PushRow
  <2>1. /\ UNCHANGED <<seen, dropsNow, dropsBefore, shown, ui, drops>>
        /\ phase \in Pushing
    BY <1>2 DEF PushTotals, PushTallies, PushRow, Goto, Release, interface, probeVars, kernel,
       Pushing
  <2>2. Shaped(shared') /\ shared'.dropped = shared.dropped
    BY <1>0, <1>2, PushedShape
  <2>3. phase \notin {"copy", "warn"} \cup Gone
    BY <2>1 DEF Pushing, Gone, Teardown, Ended
  <2> QED BY <1>0, <2>1, <2>2, <2>3, LagsFrame
<1>3. CASE PollTimeout \/ DrainEnds
  <2>1. /\ dropsNow' = drops /\ dropsBefore' = dropsNow
        /\ UNCHANGED <<seen, drops, shared, shown, ui>>
        /\ phase \in {"poll", "drain"} /\ phase' = "copy"
    BY <1>3 DEF PollTimeout, DrainEnds, PollReturns, probeVars, kernel, interface, memory
  <2> QED BY <2>1 DEF DInv, Counters, Lags, Gone, Teardown, Ended
<1>4. CASE CopyDropped
  <2>1. /\ UNCHANGED <<seen, drops, dropsNow, dropsBefore, shown, ui>>
        /\ phase = "copy" /\ phase' = "warn" /\ lock = "free"
    BY <1>4 DEF CopyDropped, Goto, probeVars, kernel, interface
  <2>2. Shaped(shared') /\ shared'.dropped = IF seen > shared.dropped THEN seen ELSE shared.dropped
    BY <1>0, <1>4 DEF CopyDropped, Shaped, Fields
  <2>3. ui # "draw"
    BY <2>1 DEF TInv, TypeOK
  <2> QED BY <2>1, <2>2, <2>3 DEF DInv, Counters, Lags, Gone, Teardown, Ended
<1>5. CASE WarnOnDrops
  <2>1. /\ UNCHANGED <<drops, dropsNow, dropsBefore, shared, shown, ui>>
        /\ seen' = IF drops > seen THEN drops ELSE seen
        /\ phase = "warn" /\ phase' = "refresh"
    BY <1>5 DEF WarnOnDrops, probeVars, kernel, interface, memory
  <2> QED BY <2>1 DEF DInv, Counters, Lags, Gone, Teardown, Ended
<1>6. CASE \/ Load \/ ApplyMap \/ Attach \/ BuildRing \/ SetupFails \/ DropLink \/ Return
           \/ Check \/ PollReady \/ Reject \/ Callback \/ LockShared \/ RefreshLatency
  <2>1. /\ UNCHANGED <<seen, dropsNow, dropsBefore, drops, shared, shown, ui>>
        /\ phase \notin {"copy", "warn"} /\ (phase \in Gone => phase' \in Gone)
    BY <1>6 DEF Load, ApplyMap, Attach, BuildRing, SetupFails, DropLink, Return, Check, PollReady,
       Reject, Callback, LockShared, RefreshLatency, Goto, Release, probeVars, kernel, interface,
       memory, Gone, Teardown, Ended
  <2> QED BY <1>0, <2>1, LagsFrame
<1>7. CASE Spawn \/ SpawnFails \/ Interface \/ TerminalFails
           \/ (\E action \in KeyActions : Key(action)) \/ Second \/ Signal \/ Interrupt
  <2>1. /\ UNCHANGED <<seen, dropsNow, dropsBefore, drops, shared>>
        /\ shown' = shown \/ shown' = shared
        /\ ui' = "draw" => (ui = "draw" /\ shown' = shown) \/ shown' = shared
    BY <1>7 DEF Spawn, SpawnFails, Interface, UiCheck, NoKey, TakeSnapshot, Draw, TerminalFails,
       Key, Second, Signal, Interrupt, Show, Exit, probeVars, kernel, collector, interface, memory
  <2>2. phase' = phase \/ phase' \in Gone \/ phase = "none"
    BY <1>7 DEF Spawn, SpawnFails, Interface, UiCheck, NoKey, TakeSnapshot, Draw, TerminalFails,
       Key, Second, Signal, Interrupt, Show, Exit, collector, Gone, Teardown, Ended, TInv,
       SpawnsOnce
  <2>3. phase' = phase \/ phase' \in Gone \/ phase \notin {"copy", "warn"} \cup Gone
    BY <2>2 DEF Gone, Teardown, Ended
  <2> QED BY <1>0, <2>1, <2>3, LagsFrame
<1>8. CASE UNCHANGED vars
  BY <1>0, <1>8, LagsFrame DEF vars, probeVars, kernel, collector, interface, memory
<1> QED BY <1>1, <1>2, <1>3, <1>4, <1>5, <1>6, <1>7, <1>8 DEF Next, Collect

(* The drop counter of Shared never overstates, and it covers every drop   *)
(* that was counted before the poll before the last; a frame that is being *)
(* drawn shows the counter of Shared at that moment.                       *)
THEOREM DropsLag == Spec => []DroppedLagsOnePoll
<1>1. DInv => DroppedLagsOnePoll
  BY DEF DInv, Counters, Lags, DroppedLagsOnePoll, Gone
<1> QED BY <1>1, InitDInv, NextDInv, TInvHolds, PTL DEF Spec
=============================================================================
