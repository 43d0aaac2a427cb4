--------------------------- MODULE CollectorProofs ---------------------------
(***************************************************************************)
(* Proofs about Collector, for every set of tasks, ring size, command line *)
(* and workload.                                                           *)
(***************************************************************************)
EXTENDS Collector, ProbesProofs, SumProofs

(* No program is attached before the map holds the configuration.          *)
SetUp ==
  /\ phase \in {"start", "loaded"} => attached = <<>>
  /\ phase \notin {"start", "abort", "failed"} => ValidArgs(opts.filter)
  /\ phase = "attach" =>
       /\ filterMap = Config(opts.filter, Mask)
       /\ Len(attached) < Len(Programs(opts.tool))
  /\ attached # <<>> =>
       /\ ValidArgs(opts.filter)
       /\ filterMap = Config(opts.filter, Mask)

(* The callback runs on a record that was submitted.                       *)
HoldsRecord == phase \in {"callback", "decode"} => HeadReady

TInv == TypeOK /\ CurOK /\ SetUp /\ HoldsRecord

-----------------------------------------------------------------------------

LEMMA ProgramsType ==
  ASSUME NEW tool
  PROVE  /\ Programs(tool) \in Seq(AllPrograms)
         /\ Len(Programs(tool)) \in Nat \ {0}
         /\ DOMAIN Programs(tool) = 1..Len(Programs(tool))
<1>1. CASE tool = "exec"
  BY <1>1 DEF Programs, AllPrograms
<1>2. CASE tool = "open"
  BY <1>2 DEF Programs, AllPrograms
<1>3. CASE tool # "exec" /\ tool # "open"
  BY <1>3 DEF Programs, AllPrograms
<1> QED BY <1>1, <1>2, <1>3

LEMMA InitTInv == Init => TInv
<1> SUFFICES ASSUME Init PROVE TInv
  OBVIOUS
<1> USE DEF Init, ProbeInit
<1>1. SetupTypeOK
  BY ProgramsType DEF SetupTypeOK
<1>2. ProbeTypeOK
  BY DEF ProbeTypeOK
<1>3. RunTypeOK
  BY DEF RunTypeOK
<1>4. CurOK
  BY DEF CurOK
<1>5. SetUp
  BY DEF SetUp
<1>6. HoldsRecord
  BY DEF HoldsRecord
<1> QED BY <1>1, <1>2, <1>3, <1>4, <1>5, <1>6 DEF TInv, TypeOK

LEMMA ProbeTInv ==
  ASSUME TInv, ProbeNext, UNCHANGED collectorVars
  PROVE  TInv'
<1> USE DEF TInv, TypeOK
<1>0. SetUp' /\ SetupTypeOK' /\ RunTypeOK'
  <2>1. UNCHANGED setup
    BY ProbesFrame
  <2>2. UNCHANGED <<filterMap, attached, opts, phase, Mask>>
    BY <2>1 DEF setup, collectorVars, env, Mask
  <2>3. SetUp' /\ SetupTypeOK'
    BY <2>2 DEF SetUp, SetupTypeOK
  <2>4. RunTypeOK'
    BY DEF RunTypeOK, collectorVars, env, counts, report
  <2> QED BY <2>3, <2>4
<1>1. ProbeTypeOK' /\ CurOK'
  BY ProbesType
<1>2. HoldsRecord'
  BY HeadStays DEF HoldsRecord, collectorVars
<1> QED BY <1>0, <1>1, <1>2

LEMMA SetupFrame ==
  ASSUME TInv, UNCHANGED <<setup, opts>>,
         phase' \notin {"start", "loaded", "attach"} \/ phase' = phase,
         phase \notin {"start", "failed"} \/ phase' \in {phase, "abort"},
         phase \notin Teardown \/ phase' = phase
  PROVE  SetupTypeOK' /\ SetUp'
<1>1. UNCHANGED <<filterMap, attached, opts, Mask>>
  BY DEF setup, Mask
<1> QED BY <1>1 DEF TInv, TypeOK, SetupTypeOK, SetUp, Teardown

LEMMA CollectorTInv ==
  ASSUME TInv, Collect \/ SetupFails \/ Signal \/ Interrupt \/ Expire
  PROVE  TInv'
<1> USE DEF TInv, TypeOK, probeVars, kernel, env, counts, report, Looping, Teardown, Ended
<1>0. HoldsRecord'
  BY DEF Collect, SetupFails, Signal, Interrupt, Expire, Load, ApplyMap, Attach, BuildRing,
         Check, PollReady, PollTimeout, DrainNext, DrainEnds, PollReturns, CallbackSkips,
         CallbackGoesOn, Decode, WarnOnDrops, PrintSummary, DropLink, Return, Teardown, Goto,
         HoldsRecord, HeadReady
<1>1. ASSUME Load
     PROVE  SetupTypeOK' /\ SetUp' /\ ProbeTypeOK' /\ CurOK' /\ RunTypeOK'
  <2>1. UNCHANGED <<filterMap, attached, opts, Mask>>
    BY <1>1 DEF Load, Goto, Mask, setup
  <2>2. SetupTypeOK' /\ SetUp'
    BY <1>1, <2>1 DEF Load, Goto, Acceptable, SetupTypeOK, SetUp
  <2>3. RunTypeOK'
    BY <1>1 DEF Load, Goto, RunTypeOK
  <2>4. UNCHANGED kernel
    BY <1>1 DEF Load
  <2> QED BY <2>2, <2>3, <2>4, KernelFrame
<1>2. ASSUME ApplyMap
     PROVE  SetupTypeOK' /\ SetUp' /\ ProbeTypeOK' /\ CurOK' /\ RunTypeOK'
  <2>1. opts' = opts /\ Mask' = Mask /\ attached' = <<>> /\ attached = <<>>
    BY <1>2 DEF ApplyMap, Goto, Mask, SetUp
  <2>2. SetupTypeOK' /\ SetUp'
    BY <1>2, <2>1, ProgramsType DEF ApplyMap, Goto, SetupTypeOK, SetUp
  <2>3. RunTypeOK'
    BY <1>2 DEF ApplyMap, Goto, RunTypeOK
  <2> QED BY <1>2, <2>2, <2>3, KernelFrame DEF ApplyMap
<1>3. ASSUME Attach
     PROVE  SetupTypeOK' /\ SetUp' /\ ProbeTypeOK' /\ CurOK' /\ RunTypeOK'
  <2>1. UNCHANGED <<filterMap, opts, Mask>>
    BY <1>3 DEF Attach, Goto, Mask
  <2> DEFINE progs == Programs(opts.tool)
  <2>2. progs \in Seq(AllPrograms) /\ Len(progs) \in Nat /\ DOMAIN progs = 1..Len(progs)
    BY ProgramsType
  <2> HIDE DEF progs
  <2>3. /\ attached' \in Seq(AllPrograms)
        /\ Len(attached') = Len(attached) + 1
        /\ Len(attached') <= Len(progs)
        /\ phase' = "attach" => Len(attached') < Len(progs)
        /\ phase' \in {"attach", "build"}
    BY <1>3, <2>2 DEF Attach, NextProgram, Goto, SetupTypeOK, progs
  <2>6. \A i \in DOMAIN attached' : i \in DOMAIN progs /\ attached'[i] = progs[i]
    <3>1. /\ \A i \in DOMAIN attached : i \in DOMAIN progs /\ attached[i] = progs[i]
          /\ attached \in Seq(AllPrograms)
          /\ attached' = Append(attached, progs[Len(attached) + 1])
      BY <1>3 DEF Attach, NextProgram, SetupTypeOK, progs
    <3> QED BY <2>2, <2>3, <3>1
  <2>4. SetupTypeOK' /\ SetUp'
    BY <1>3, <2>1, <2>3, <2>6 DEF Attach, SetupTypeOK, SetUp, progs
  <2>5. RunTypeOK'
    BY <1>3, <2>3 DEF Attach, Goto, RunTypeOK
  <2> QED BY <1>3, <2>4, <2>5, KernelFrame DEF Attach
<1>4. ASSUME BuildRing \/ Check \/ PollReady \/ DrainNext \/ CallbackGoesOn
     PROVE  SetupTypeOK' /\ SetUp' /\ ProbeTypeOK' /\ CurOK' /\ RunTypeOK'
  <2>1. /\ UNCHANGED <<setup, opts, kernel>>
        /\ phase' \in {"check", "summary", "poll", "drain", "callback", "decode"}
        /\ phase \notin {"start"} \cup Teardown \cup Ended
    BY <1>4 DEF BuildRing, Check, PollReady, DrainNext, CallbackGoesOn, Goto
  <2>2. RunTypeOK'
    BY <1>4, <2>1 DEF BuildRing, Check, PollReady, DrainNext, CallbackGoesOn, Goto, RunTypeOK
  <2> QED BY <2>1, <2>2, KernelFrame, SetupFrame
<1>5. ASSUME PollTimeout \/ DrainEnds
     PROVE  SetupTypeOK' /\ SetUp' /\ ProbeTypeOK' /\ CurOK' /\ RunTypeOK'
  <2>1. /\ UNCHANGED <<setup, opts, kernel>>
        /\ phase' = "warn" /\ phase \notin {"start"} \cup Teardown \cup Ended
    BY <1>5 DEF PollTimeout, DrainEnds, PollReturns
  <2>2. RunTypeOK'
    BY <1>5 DEF PollTimeout, DrainEnds, PollReturns, RunTypeOK, ProbeTypeOK
  <2> QED BY <2>1, <2>2, KernelFrame, SetupFrame
<1>6. ASSUME CallbackSkips \/ Decode
     PROVE  SetupTypeOK' /\ SetUp' /\ ProbeTypeOK' /\ CurOK' /\ RunTypeOK'
  <2>1. /\ UNCHANGED <<setup, opts>>
        /\ phase' = "drain" /\ phase \notin {"start"} \cup Teardown \cup Ended /\ Release
    BY <1>6 DEF CallbackSkips, Decode, Release
  <2>2. RunTypeOK'
    BY <1>6 DEF CallbackSkips, Decode, RunTypeOK
  <2>3. ring # <<>>
    BY <1>6 DEF CallbackSkips, Decode, HoldsRecord, HeadReady
  <2>4. ProbeTypeOK' /\ CurOK'
    BY <2>1, <2>3, ReleaseType
  <2> QED BY <2>1, <2>2, <2>4, SetupFrame
<1>7. ASSUME WarnOnDrops
     PROVE  SetupTypeOK' /\ SetUp' /\ ProbeTypeOK' /\ CurOK' /\ RunTypeOK'
  <2>1. /\ UNCHANGED <<setup, opts, kernel>>
        /\ phase' = "check" /\ phase \notin {"start"} \cup Teardown \cup Ended
    BY <1>7 DEF WarnOnDrops
  <2>2. RunTypeOK'
    BY <1>7 DEF WarnOnDrops, RunTypeOK, ProbeTypeOK
  <2> QED BY <2>1, <2>2, KernelFrame, SetupFrame
<1>8. ASSUME PrintSummary \/ SetupFails \/ Interrupt
     PROVE  SetupTypeOK' /\ SetUp' /\ ProbeTypeOK' /\ CurOK' /\ RunTypeOK'
  <2>1. /\ UNCHANGED <<setup, opts, kernel>>
        /\ phase' \in Teardown /\ phase \notin Teardown \cup Ended
        /\ phase' # "abort" => phase # "start"
    BY <1>8 DEF PrintSummary, SetupFails, Interrupt, Goto, setup
  <2>3. SetupTypeOK' /\ SetUp'
    BY <2>1, SetupFrame
  <2>4. RunTypeOK'
    <3>1. CASE PrintSummary
      <4>1. [printed |-> printed, dropped |-> seen + rejected] \in [printed : Nat, dropped : Nat]
        BY DEF RunTypeOK
      <4> QED BY <3>1, <4>1 DEF PrintSummary, RunTypeOK
    <3>2. CASE SetupFails \/ Interrupt
      BY <3>2 DEF SetupFails, Interrupt, SignalHandler, Goto, RunTypeOK
    <3> QED BY <1>8, <3>1, <3>2
  <2> QED BY <2>1, <2>3, <2>4, KernelFrame
<1>9. ASSUME Signal \/ Expire
     PROVE  SetupTypeOK' /\ SetUp' /\ ProbeTypeOK' /\ CurOK' /\ RunTypeOK'
  <2>1. UNCHANGED <<setup, opts, kernel, phase>>
    BY <1>9 DEF Signal, Expire
  <2>2. RunTypeOK'
    BY <1>9 DEF Signal, Expire, SignalHandler, RunTypeOK
  <2> QED BY <2>1, <2>2, KernelFrame, SetupFrame
<1>10. ASSUME DropLink
     PROVE  SetupTypeOK' /\ SetUp' /\ ProbeTypeOK' /\ CurOK' /\ RunTypeOK'
  <2>1. /\ UNCHANGED <<filterMap, opts, phase, Mask, kernel>> /\ phase \in Teardown
        /\ attached # <<>> /\ attached' = Tail(attached)
    BY <1>10 DEF DropLink, Goto, Mask
  <2>2. attached \in Seq(AllPrograms) /\ Len(attached) \in Nat \ {0}
    BY <2>1 DEF SetupTypeOK
  <2>3. attached' \in Seq(AllPrograms) /\ Len(attached') = Len(attached) - 1
        /\ \A i \in DOMAIN attached' : i + 1 \in DOMAIN attached /\ attached'[i] = attached[i + 1]
    BY <2>1, <2>2
  <2>4. SetupTypeOK'
    <3>1. Len(attached') <= Len(Programs(opts.tool))
      BY <2>2, <2>3, ProgramsType DEF SetupTypeOK
    <3> QED BY <2>1, <2>3, <3>1 DEF SetupTypeOK
  <2>5. SetUp'
    BY <2>1 DEF SetUp
  <2>6. RunTypeOK'
    BY <1>10 DEF DropLink, Goto, RunTypeOK
  <2> QED BY <2>1, <2>4, <2>5, <2>6, KernelFrame
<1>11. ASSUME Return
     PROVE  SetupTypeOK' /\ SetUp' /\ ProbeTypeOK' /\ CurOK' /\ RunTypeOK'
  <2>1. /\ UNCHANGED <<filterMap, attached, opts, Mask, kernel>> /\ attached = <<>>
        /\ phase \in Teardown
        /\ phase' = (IF phase = "detach" THEN "stopped" ELSE "failed")
    BY <1>11 DEF Return, Goto, Mask, setup
  <2>2. SetupTypeOK' /\ SetUp'
    BY <2>1 DEF SetupTypeOK, SetUp
  <2>3. RunTypeOK'
    BY <1>11 DEF Return, Goto, RunTypeOK
  <2> QED BY <2>1, <2>2, <2>3, KernelFrame
<1> QED BY <1>0, <1>1, <1>2, <1>3, <1>4, <1>5, <1>6, <1>7, <1>8, <1>9, <1>10, <1>11 DEF Collect

LEMMA NextTInv ==
  ASSUME TInv, [Next]_vars PROVE TInv'
<1>1. CASE ProbeNext /\ UNCHANGED collectorVars
  BY <1>1, ProbeTInv
<1>2. CASE Collect \/ SetupFails \/ Signal \/ Interrupt \/ Expire
  BY <1>2, CollectorTInv
<1>3. CASE UNCHANGED vars
  <2>1. UNCHANGED <<kernel, setup, opts, phase>>
    BY <1>3 DEF vars, probeVars, kernel, collectorVars, env
  <2>2. RunTypeOK'
    BY <1>3 DEF vars, collectorVars, env, counts, report, TInv, TypeOK, RunTypeOK
  <2>3. HoldsRecord'
    BY <2>1 DEF TInv, HoldsRecord, HeadReady, kernel
  <2> QED BY <2>1, <2>2, <2>3, KernelFrame, SetupFrame DEF TInv, TypeOK
<1> QED BY <1>1, <1>2, <1>3 DEF Next

LEMMA TInvHolds == Spec => []TInv
BY InitTInv, NextTInv, PTL DEF Spec

(* Every variable keeps its type, and the links held are at most those of  *)
(* the subcommand's programs, in their order.                              *)
THEOREM TypeCorrect == Spec => []TypeOK
<1>1. TInv => TypeOK
  BY DEF TInv
<1> QED BY <1>1, TInvHolds, PTL

-----------------------------------------------------------------------------
(* The filters.                                                            *)

(* A task about to compare the name met the other filters of the command   *)
(* line when it looked at them.                                            *)
LInv ==
  \A t \in Tasks : pc[t] = "comm" =>
    /\ phase \notin {"start", "loaded"}
    /\ ValidArgs(opts.filter) /\ filterMap = Config(opts.filter, Mask)
    /\ PidAllowed(filterMap, PidOf[t]) /\ ParentAllowed(filterMap, parent[t])
    /\ opts.tool = "tcp" => cur[t] \subseteq TcpEvents

LEMMA EnterLooked ==
  ASSUME TInv, NEW t \in Tasks, NEW hook \in Hooks, Enter(t, hook)
  PROVE  /\ phase \notin {"start", "loaded"}
         /\ ValidArgs(opts.filter) /\ filterMap = Config(opts.filter, Mask)
         /\ PidAllowed(filterMap, PidOf[t]) /\ ParentAllowed(filterMap, ppid[t])
         /\ opts.tool = "tcp" => EventOf(hook) \subseteq TcpEvents
<1>1. attached # <<>>
  BY DEF Enter, TInv, TypeOK, SetupTypeOK
<1>2. phase \notin {"start", "loaded"} /\ filterMap = Config(opts.filter, Mask)
      /\ ValidArgs(opts.filter)
  BY <1>1 DEF TInv, SetUp
<1>3. ASSUME opts.tool = "tcp" PROVE EventOf(hook) \subseteq TcpEvents
  <2>1. PICK i \in DOMAIN attached : attached[i] = hook.prog
    BY DEF Enter
  <2>2. hook.prog = "trace_tcp"
    BY <1>3, <2>1 DEF TInv, TypeOK, SetupTypeOK, Programs
  <2> QED BY <2>2 DEF EventOf, TcpEventOf, TcpEvents
<1> QED BY <1>2, <1>3 DEF Enter

LEMMA CollectorLooks ==
  ASSUME LInv, UNCHANGED <<pc, cur, parent, opts>>,
         phase \notin {"start", "loaded"} => UNCHANGED filterMap /\ phase' \notin {"start", "loaded"}
  PROVE  LInv'
BY DEF LInv, Mask

LEMMA NextLInv == ASSUME TInv, LInv, [Next]_vars PROVE LInv'
<1>1. CASE ProbeNext /\ UNCHANGED collectorVars
  <2>0. UNCHANGED <<filterMap, phase, opts, Mask>>
    BY <1>1, ProbesFrame DEF setup, collectorVars, env, Mask
  <2>1. /\ pc \in [Tasks -> {"idle", "comm", "reserve", "fill", "drop"}]
        /\ cur \in [Tasks -> SUBSET Events] /\ parent \in [Tasks -> Nat]
    BY DEF TInv, TypeOK, ProbeTypeOK
  <2> SUFFICES ASSUME NEW u \in Tasks, pc'[u] = "comm"
               PROVE  /\ phase \notin {"start", "loaded"}
                      /\ ValidArgs(opts.filter) /\ filterMap = Config(opts.filter, Mask)
                      /\ PidAllowed(filterMap, PidOf[u]) /\ ParentAllowed(filterMap, parent'[u])
                      /\ opts.tool = "tcp" => cur'[u] \subseteq TcpEvents
    BY <2>0 DEF LInv
  <2>2. CASE pc[u] = "comm" /\ parent'[u] = parent[u] /\ cur'[u] = cur[u]
    BY <2>2 DEF LInv
  <2> PICK t \in Tasks :
        \/ \E hook \in Hooks : Enter(t, hook)
        \/ RunProgram(t)
        \/ \E c \in Comms : SetComm(t, c)
        \/ \E p \in Ppids : Reparent(t, p)
    BY <1>1 DEF ProbeNext
  <2>3. ASSUME NEW hook \in Hooks, Enter(t, hook), u = t
        PROVE  /\ phase \notin {"start", "loaded"}
               /\ ValidArgs(opts.filter) /\ filterMap = Config(opts.filter, Mask)
               /\ PidAllowed(filterMap, PidOf[u]) /\ ParentAllowed(filterMap, parent'[u])
               /\ opts.tool = "tcp" => cur'[u] \subseteq TcpEvents
    <3>1. parent'[u] = ppid[t] /\ cur'[u] = EventOf(hook)
      BY <2>1, <2>3 DEF Enter
    <3> QED BY <2>3, <3>1, EnterLooked
  <2>4. CASE u # t
    <3>1. pc'[u] = pc[u] /\ cur'[u] = cur[u] /\ parent'[u] = parent[u]
      BY <2>1, <2>4 DEF Enter, RunProgram, Admit, TurnAway, Reserve, ReserveFails, CountDrop,
         Submit, SetComm, Reparent
    <3> QED BY <2>2, <3>1
  <2>5. CASE RunProgram(t) /\ u = t
    BY <2>1, <2>5 DEF RunProgram, Admit, TurnAway, Reserve, ReserveFails, CountDrop, Submit
  <2>6. CASE (\E c \in Comms : SetComm(t, c)) \/ (\E p \in Ppids : Reparent(t, p))
    BY <2>2, <2>6 DEF SetComm, Reparent
  <2> QED BY <2>3, <2>4, <2>5, <2>6
<1>2. CASE Collect \/ SetupFails \/ Signal \/ Interrupt \/ Expire \/ UNCHANGED vars
  <2>1. /\ UNCHANGED <<pc, cur, parent, opts>>
        /\ phase \notin {"start", "loaded"} =>
             UNCHANGED filterMap /\ phase' \notin {"start", "loaded"}
    BY <1>2 DEF Collect, SetupFails, Signal, Interrupt, Expire, Load, ApplyMap, Attach, BuildRing,
       Check, PollReady, PollTimeout, DrainNext, DrainEnds, PollReturns, CallbackSkips,
       CallbackGoesOn, Decode, WarnOnDrops, PrintSummary, DropLink, Return, Goto, Release,
       vars, probeVars, setup, kernel, collectorVars, env
  <2> QED BY <2>1, CollectorLooks
<1> QED BY <1>1, <1>2 DEF Next

(* The only step that takes a task past the last filter.                   *)
LEMMA OnlyAdmitAdmits ==
  ASSUME TInv, Next, NEW t \in Tasks, pc[t] = "comm", pc'[t] = "reserve"
  PROVE  Admit(t)
<1> SUFFICES ASSUME ~Admit(t) PROVE FALSE
  OBVIOUS
<1>0. pc \in [Tasks -> {"idle", "comm", "reserve", "fill", "drop"}]
  BY DEF TInv, TypeOK, ProbeTypeOK
<1>1. pc' # pc
  OBVIOUS
<1>2. ProbeNext
  BY <1>1 DEF Next, Collect, SetupFails, Signal, Interrupt, Expire, Load, ApplyMap, Attach,
         BuildRing, Check, PollReady, PollTimeout, DrainNext, DrainEnds, PollReturns,
         CallbackSkips, CallbackGoesOn, Decode, WarnOnDrops, PrintSummary, DropLink, Return,
         Goto, Release, probeVars, kernel
<1>3. PICK u \in Tasks :
        \/ \E hook \in Hooks : Enter(u, hook)
        \/ RunProgram(u)
        \/ \E c \in Comms : SetComm(u, c)
        \/ \E p \in Ppids : Reparent(u, p)
  BY <1>2 DEF ProbeNext
<1>4. CASE u = t
  BY <1>0, <1>1, <1>3, <1>4 DEF Enter, RunProgram, TurnAway, Reserve, ReserveFails, CountDrop,
     Submit, SetComm, Reparent
<1>5. CASE u # t
  BY <1>0, <1>3, <1>5 DEF Enter, RunProgram, Admit, TurnAway, Reserve, ReserveFails, CountDrop,
     Submit, SetComm, Reparent
<1> QED BY <1>4, <1>5

LEMMA AdmitSelected ==
  ASSUME TInv, LInv, NEW t \in Tasks, Admit(t)
  PROVE  /\ Selects(opts.filter, [pid |-> PidOf[t], ppid |-> parent[t], comm |-> comm[t]])
         /\ opts.tool = "tcp" => cur'[t] \subseteq EventMask(opts.event)
<1> DEFINE task == [pid |-> PidOf[t], ppid |-> parent[t], comm |-> comm[t]]
<1>1. /\ ValidArgs(opts.filter) /\ filterMap = Config(opts.filter, Mask)
      /\ PidAllowed(filterMap, PidOf[t]) /\ ParentAllowed(filterMap, parent[t])
      /\ opts.tool = "tcp" => cur[t] \subseteq TcpEvents
  BY DEF Admit, LInv
<1>2. NameAllowed(filterMap, comm[t]) /\ Passes(filterMap, cur[t]) /\ cur' = cur
  BY DEF Admit
<1>3. opts.filter \in FilterArgs
  BY CollectorAssumption DEF TInv, TypeOK, SetupTypeOK, CommandLines
<1>4. Allowed(filterMap, task)
  BY <1>1, <1>2 DEF Allowed
<1>5. Selects(opts.filter, task)
  BY <1>1, <1>3, <1>4, AllowedIsSelects
<1>6. opts.tool = "tcp" => filterMap.event_mask = EventMask(opts.event)
  BY <1>1 DEF Config, Mask
<1> QED BY <1>1, <1>2, <1>5, <1>6 DEF Passes

(* README.md:275-280: a filtered-out event never reserves a slot, never    *)
(* crosses the kernel boundary and never wakes the printer, from the first *)
(* program attached to the last record, though the task may change between *)
(* the comparison of its parent and that of its name.                      *)
THEOREM FiltersHold == Spec => AdmitsOnlySelected
<1> DEFINE A == \A t \in Tasks : pc[t] = "comm" /\ pc'[t] = "reserve" =>
                  /\ Selects(opts.filter, [pid |-> PidOf[t], ppid |-> parent[t], comm |-> comm[t]])
                  /\ opts.tool = "tcp" => cur'[t] \subseteq EventMask(opts.event)
<1>1. ASSUME TInv, LInv, [Next]_vars PROVE [A]_vars
  <2> SUFFICES ASSUME Next PROVE A
    BY <1>1
  <2> SUFFICES ASSUME NEW t \in Tasks, pc[t] = "comm", pc'[t] = "reserve"
               PROVE  /\ Selects(opts.filter,
                                 [pid |-> PidOf[t], ppid |-> parent[t], comm |-> comm[t]])
                      /\ opts.tool = "tcp" => cur'[t] \subseteq EventMask(opts.event)
    OBVIOUS
  <2> QED BY <1>1, OnlyAdmitAdmits, AdmitSelected
<1>2. Init => LInv
  BY DEF Init, ProbeInit, LInv
<1> QED BY <1>1, <1>2, NextLInv, TInvHolds, PTL DEF Spec, AdmitsOnlySelected

-----------------------------------------------------------------------------
(* The programs attached.                                                  *)

OInv ==
  /\ AllOrNothing
  /\ phase = "build" => attached = Programs(opts.tool)

LEMMA NextOInv == ASSUME TInv, OInv, [Next]_vars PROVE OInv'
<1> USE DEF Looping, Teardown, Ended
<1>1. CASE UNCHANGED <<attached, opts, phase>>
  BY <1>1 DEF OInv, AllOrNothing
<1>2. CASE /\ UNCHANGED <<attached, opts>> /\ phase' \notin Ended
           /\ \/ phase' \notin Looping \cup {"build", "summary"}
              \/ phase \in Looping \cup {"build", "summary"}
  BY <1>2 DEF OInv, AllOrNothing
<1>3. CASE Attach
  <2>1. PICK progs : progs = Programs(opts.tool)
    OBVIOUS
  <2>2. progs \in Seq(AllPrograms) /\ Len(progs) \in Nat
    BY <2>1, ProgramsType
  <2>3. /\ attached \in Seq(AllPrograms) /\ Len(attached) < Len(progs)
        /\ \A i \in DOMAIN attached : attached[i] = progs[i]
        /\ attached' = Append(attached, progs[Len(attached) + 1])
        /\ phase' = (IF Len(attached) + 1 = Len(progs) THEN "build" ELSE "attach")
        /\ opts' = opts
    BY <1>3, <2>1 DEF Attach, NextProgram, Goto, env, TInv, TypeOK, SetupTypeOK
  <2>4. /\ attached' \in Seq(AllPrograms) /\ Len(attached') = Len(attached) + 1
        /\ \A i \in 1..Len(attached') : attached'[i] = progs[i]
    BY <2>2, <2>3
  <2>5. phase' = "build" => attached' = progs
    BY <2>2, <2>3, <2>4, SeqEqual
  <2> QED BY <2>1, <2>3, <2>5 DEF OInv, AllOrNothing
<1>4. CASE DropLink
  BY <1>4 DEF DropLink, Goto, OInv, AllOrNothing
<1>5. CASE Return
  BY <1>5 DEF Return, Goto, probeVars, setup, OInv, AllOrNothing
<1>6. CASE \/ Load \/ ApplyMap \/ BuildRing \/ Check \/ PollReady \/ PollTimeout
           \/ DrainNext \/ DrainEnds \/ CallbackSkips \/ CallbackGoesOn \/ Decode
           \/ WarnOnDrops \/ PrintSummary \/ SetupFails \/ Interrupt
  <2>1. /\ UNCHANGED <<attached, opts>> /\ phase' \notin Ended
        /\ \/ phase' \notin Looping \cup {"build", "summary"}
           \/ phase \in Looping \cup {"build", "summary"}
    BY <1>6 DEF Load, ApplyMap, BuildRing, Check, PollReady, PollTimeout, DrainNext, DrainEnds,
       PollReturns, CallbackSkips, CallbackGoesOn, Decode, WarnOnDrops, PrintSummary, SetupFails,
       Interrupt, Goto, Release, probeVars, setup, env
  <2> QED BY <1>2, <2>1
<1>7. CASE (ProbeNext /\ UNCHANGED collectorVars) \/ Signal \/ Expire \/ UNCHANGED vars
  <2>1. UNCHANGED <<attached, opts, phase>>
    BY <1>7, ProbesFrame DEF Signal, Expire, vars, probeVars, setup, collectorVars, env
  <2> QED BY <1>1, <2>1
<1> QED BY <1>3, <1>4, <1>5, <1>6, <1>7 DEF Next, Collect

(* The loop runs with all programs of the subcommand attached (exec.rs:37, *)
(* open.rs:37-44, tcp.rs:37), and none is left when the run has ended, by  *)
(* whatever way.                                                           *)
THEOREM AttachedAllOrNone == Spec => []AllOrNothing
<1>1. Init => OInv
  BY DEF Init, ProbeInit, OInv, AllOrNothing, Looping, Ended
<1>2. OInv => AllOrNothing
  BY DEF OInv
<1> QED BY <1>1, <1>2, NextOInv, TInvHolds, PTL DEF Spec

-----------------------------------------------------------------------------
(* Nothing is lost without a trace.                                        *)

LEMMA PendingFinite == IsFiniteSet(Pending) /\ Cardinality(Pending) \in Nat
<1>1. Pending \subseteq Tasks
  BY DEF Pending
<1>2. IsFiniteSet(Pending)
  BY <1>1, FS_Subset, ProbesAssumption
<1> QED BY <1>2, FS_CardinalityType

LEMMA PendingGrows ==
  ASSUME NEW t, t \notin Pending, Pending' = Pending \cup {t}
  PROVE  Cardinality(Pending)' = Cardinality(Pending) + 1
BY PendingFinite, FS_AddElement

LEMMA PendingShrinks ==
  ASSUME NEW t \in Pending, Pending' = Pending \ {t}
  PROVE  Cardinality(Pending)' = Cardinality(Pending) - 1
BY PendingFinite, FS_RemoveElement

(* Accounting is inductive once the ring is known to hold the records      *)
(* reserved and not yet handled, numbered without a gap.                   *)
AInv == Accounting /\ Numbered(ring, reserved, Handled)

LEMMA InitAInv == Init => AInv
<1> SUFFICES ASSUME Init PROVE AInv
  OBVIOUS
<1>1. Pending = {}
  BY DEF Init, ProbeInit, Pending
<1>2. Cardinality(Pending) = 0
  BY <1>1, FS_EmptySet
<1> QED BY <1>2 DEF Init, ProbeInit, AInv, Accounting, Numbered, Handled

LEMMA NextAInv ==
  ASSUME TInv, AInv, [Next]_vars PROVE AInv'
<1>a. /\ Len(ring) \in Nat
      /\ reserved \in Nat /\ drops \in Nat /\ admitted \in Nat
      /\ printed \in Nat /\ rejected \in Nat /\ skipped \in Nat /\ Handled \in Nat
  BY DEF TInv, TypeOK, ProbeTypeOK, RunTypeOK, Handled
<1>1. /\ pc \in [Tasks -> {"idle", "comm", "reserve", "fill", "drop"}]
      /\ ring \in Seq(Record) /\ ProbeTypeOK
  BY DEF TInv, TypeOK, ProbeTypeOK
<1>2. Cardinality(Pending) \in Nat
  BY PendingFinite
<1>3. ASSUME UNCHANGED <<pc, ring, reserved, drops, admitted, counts>> PROVE AInv'
  <2>1. Pending' = Pending
    BY <1>3 DEF Pending
  <2> QED BY <1>3, <2>1 DEF AInv, Accounting, Numbered, Handled, counts
<1>4. ASSUME ProbeNext, UNCHANGED collectorVars PROVE AInv'
  <2>0. Handled' = Handled
    BY <1>4 DEF collectorVars, counts, Handled
  <2>n. Numbered(ring', reserved', Handled')
    <3>1. Numbered(ring', reserved', Handled)
      BY <1>a, <1>1, <1>4, ProbesNumbered DEF AInv
    <3> QED BY <2>0, <3>1
  <2> SUFFICES Accounting'
    BY <2>n DEF AInv
  <2>a. Accounting
    BY DEF AInv
  <2> PICK t \in Tasks :
        \/ \E hook \in Hooks : Enter(t, hook)
        \/ RunProgram(t)
        \/ \E c \in Comms : SetComm(t, c)
        \/ \E p \in Ppids : Reparent(t, p)
    BY <1>4 DEF ProbeNext
  <2>1. ASSUME Admit(t) PROVE Accounting'
    <3>1. t \notin Pending /\ Pending' = Pending \cup {t}
      BY <1>1, <2>1 DEF Admit, Pending
    <3>2. Cardinality(Pending)' = Cardinality(Pending) + 1
      BY <3>1, PendingGrows
    <3> QED BY <1>a, <1>2, <2>0, <2>a, <2>1, <3>2 DEF Admit, Accounting
  <2>7. ASSUME TurnAway(t) \/ \E hook \in Hooks : Enter(t, hook) PROVE Accounting'
    <3>1. Pending' = Pending /\ UNCHANGED <<admitted, drops, ring>>
      BY <1>1, <2>7 DEF TurnAway, Enter, Pending
    <3> QED BY <2>0, <2>a, <3>1 DEF Accounting
  <2>2. ASSUME Reserve(t) PROVE Accounting'
    <3>1. t \in Pending /\ Pending' = Pending \ {t}
      BY <1>1, <2>2 DEF Reserve, Pending
    <3>2. Cardinality(Pending)' = Cardinality(Pending) - 1
      BY <3>1, PendingShrinks
    <3>3. Len(ring') = Len(ring) + 1 /\ admitted' = admitted /\ drops' = drops
      BY <1>1, <2>2 DEF Reserve
    <3> QED BY <1>a, <1>2, <2>0, <2>a, <3>2, <3>3 DEF Accounting
  <2>3. ASSUME ReserveFails(t) PROVE Accounting'
    <3>1. Pending' = Pending
      BY <1>1, <2>3 DEF ReserveFails, Pending
    <3> QED BY <2>0, <2>a, <2>3, <3>1 DEF ReserveFails, Accounting
  <2>4. ASSUME CountDrop(t) PROVE Accounting'
    <3>1. t \in Pending /\ Pending' = Pending \ {t}
      BY <1>1, <2>4 DEF CountDrop, Pending
    <3>2. Cardinality(Pending)' = Cardinality(Pending) - 1
      BY <3>1, PendingShrinks
    <3> QED BY <1>a, <1>2, <2>0, <2>a, <2>4, <3>2 DEF CountDrop, Accounting
  <2>5. ASSUME NEW named \in BOOLEAN, Submit(t, named) PROVE Accounting'
    <3>1. Pending' = Pending
      BY <1>1, <2>5 DEF Submit, Pending
    <3>2. Len(ring') = Len(ring)
      BY <1>1, <2>5, SubmitRecord
    <3> QED BY <2>0, <2>a, <2>5, <3>1, <3>2 DEF Submit, Accounting
  <2>6. ASSUME \/ \E c \in Comms : SetComm(t, c)
               \/ \E p \in Ppids : Reparent(t, p)
        PROVE  Accounting'
    BY <1>3, <1>4, <2>6 DEF SetComm, Reparent, collectorVars, AInv
  <2> QED BY <2>1, <2>2, <2>3, <2>4, <2>5, <2>6, <2>7 DEF RunProgram
<1>5. ASSUME CallbackSkips \/ Decode PROVE AInv'
  <2>1. ring # <<>> /\ Release
    BY <1>5 DEF CallbackSkips, Decode, TInv, HoldsRecord, HeadReady
  <2>2. ring' = Tail(ring) /\ UNCHANGED <<pc, reserved, drops, admitted>>
    BY <2>1 DEF Release
  <2>3. Handled' = Handled + 1
    BY <1>a, <1>5 DEF CallbackSkips, Decode, Handled
  <2>4. Len(ring') = Len(ring) - 1
    BY <1>1, <2>1, <2>2
  <2>5. Pending' = Pending
    BY <2>2 DEF Pending
  <2>6. Numbered(ring', reserved', Handled')
    <3>1. Numbered(ring', reserved', Handled + 1)
      BY <1>a, <1>1, <2>1, ReleaseNumbered DEF AInv
    <3> QED BY <2>3, <3>1
  <2>7. Cardinality(Pending)' = Cardinality(Pending)
    BY <2>5
  <2>8. Accounting'
    <3>1. PICK p \in Nat, l \in Nat, h \in Nat :
            p = Cardinality(Pending) /\ l = Len(ring) /\ h = Handled
      BY <1>a, <1>2
    <3>2. admitted = p + drops + l + h
      BY <3>1 DEF AInv, Accounting
    <3>3. admitted = p + drops + (l - 1) + (h + 1)
      BY <1>a, <3>2
    <3> QED BY <2>2, <2>3, <2>4, <2>7, <3>1, <3>3 DEF Accounting
  <2> QED BY <2>6, <2>8 DEF AInv
<1>6. CASE \/ Load \/ ApplyMap \/ Attach \/ BuildRing \/ Check \/ PollReady \/ PollTimeout
           \/ DrainNext \/ DrainEnds \/ CallbackGoesOn \/ WarnOnDrops \/ PrintSummary
           \/ DropLink \/ Return \/ SetupFails \/ Signal \/ Interrupt \/ Expire
           \/ UNCHANGED vars
  <2>1. UNCHANGED <<pc, ring, reserved, drops, admitted, counts>>
    BY <1>6 DEF Load, ApplyMap, Attach, BuildRing, Check, PollReady, PollTimeout, DrainNext,
       DrainEnds, PollReturns, CallbackGoesOn, WarnOnDrops, PrintSummary, SetupFails, DropLink, Return,
       Signal, Interrupt, Expire, Goto, vars, probeVars, kernel, collectorVars
  <2> QED BY <1>3, <2>1
<1> QED BY <1>4, <1>5, <1>6 DEF Next, Collect

LEMMA AInvHolds == Spec => []AInv
BY InitAInv, NextAInv, TInvHolds, PTL DEF Spec

(* Every event that passed the filters is printed, rejected, discarded     *)
(* after a signal, counted in drops[0], in the ring, or in a program that  *)
(* has not reached the ring yet: exactly one of these.                     *)
THEOREM NothingLostUncounted == Spec => []Accounting
<1>1. AInv => Accounting
  BY DEF AInv
<1> QED BY <1>1, AInvHolds, PTL

(* Records are handled exactly once and in the order of reservation.       *)
THEOREM HandledInOrder == Spec => []InOrder
<1>1. AInv => InOrder
  BY DEF AInv, Numbered, InOrder
<1> QED BY <1>1, AInvHolds, PTL

-----------------------------------------------------------------------------
(* The end of a run.                                                       *)

(* A callback that loaded RUNNING before the signal prints at most once.   *)
SInv ==
  /\ OneAfterSignal
  /\ ~running /\ phase = "decode" => printed <= printedAtSignal

LEMMA NextSInv ==
  ASSUME TInv, SInv, [Next]_vars PROVE SInv'
<1>1. printed \in Nat /\ printedAtSignal \in Nat
  BY DEF TInv, TypeOK, RunTypeOK
<1>2. CASE UNCHANGED <<running, printed, printedAtSignal>> /\ (phase' # "decode" \/ phase' = phase)
  BY <1>2 DEF SInv, OneAfterSignal
<1>3. ASSUME ProbeNext, UNCHANGED collectorVars PROVE SInv'
  BY <1>2, <1>3 DEF collectorVars, env, counts
<1>4. CASE CallbackGoesOn
  BY <1>4 DEF CallbackGoesOn, Goto, env, counts, SInv, OneAfterSignal
<1>5. CASE Decode
  BY <1>1, <1>5 DEF Decode, env, counts, SInv, OneAfterSignal
<1>6. CASE Signal \/ Interrupt
  BY <1>1, <1>6 DEF Signal, Interrupt, SignalHandler, counts, SInv, OneAfterSignal
<1>7. CASE \/ Load \/ ApplyMap \/ Attach \/ BuildRing \/ Check \/ PollReady \/ PollTimeout
           \/ DrainNext \/ DrainEnds \/ CallbackSkips \/ WarnOnDrops \/ PrintSummary
           \/ SetupFails \/ DropLink \/ Return \/ Expire \/ UNCHANGED vars
  <2>1. UNCHANGED <<running, printed, printedAtSignal>> /\ (phase' # "decode" \/ phase' = phase)
    BY <1>7 DEF Load, ApplyMap, Attach, BuildRing, Check, PollReady, PollTimeout, DrainNext,
       DrainEnds, PollReturns, CallbackSkips, WarnOnDrops, PrintSummary, SetupFails, DropLink, Return,
       Expire, Goto, vars, collectorVars, env, counts
  <2> QED BY <1>2, <2>1
<1> QED BY <1>3, <1>4, <1>5, <1>6, <1>7 DEF Next, Collect

(* However full the ring, at most one more event is printed after SIGINT.  *)
THEOREM QuietAfterSignal == Spec => []OneAfterSignal
<1>1. Init => SInv
  BY DEF Init, SInv, OneAfterSignal
<1>2. SInv => OneAfterSignal
  BY DEF SInv
<1> QED BY <1>1, <1>2, NextSInv, TInvHolds, PTL DEF Spec

(* drops_seen never runs ahead of the counter, and catches up with it      *)
(* after every poll, before the next look at should_stop.                  *)
DInv ==
  /\ seen <= drops /\ dropsAtPoll <= drops
  /\ phase # "warn" => dropsAtPoll <= seen
  /\ summary # {} => phase \in {"detach", "stopped"}
  /\ \A s \in summary : s.printed = printed /\ s.dropped = seen + rejected

LEMMA NextDInv ==
  ASSUME TInv, DInv, [Next]_vars PROVE DInv'
<1>1. drops \in Nat /\ seen \in Nat /\ dropsAtPoll \in Nat /\ rejected \in Nat
  BY DEF TInv, TypeOK, ProbeTypeOK, RunTypeOK
<1>2. ASSUME ProbeNext, UNCHANGED collectorVars PROVE DInv'
  <2>1. drops' = drops \/ drops' = drops + 1
    BY <1>2, ProbesCount DEF TInv, TypeOK
  <2> QED BY <1>1, <1>2, <2>1 DEF DInv, collectorVars, counts, report
<1>3. CASE /\ UNCHANGED <<drops, seen, dropsAtPoll, summary, printed, rejected>>
           /\ \/ phase \notin {"warn", "detach", "stopped"} \/ phase' = phase
              \/ phase = "detach" /\ phase' = "stopped"
  BY <1>3 DEF DInv
<1>4. CASE PollTimeout \/ DrainEnds
  BY <1>1, <1>4 DEF PollTimeout, DrainEnds, PollReturns, probeVars, kernel, counts, DInv
<1>5. CASE Decode \/ CallbackSkips
  BY <1>1, <1>5 DEF Decode, CallbackSkips, Release, report, DInv
<1>6. CASE WarnOnDrops
  BY <1>1, <1>6 DEF WarnOnDrops, probeVars, kernel, counts, DInv
<1>7. CASE PrintSummary
  BY <1>1, <1>7 DEF PrintSummary, probeVars, kernel, counts, DInv
<1>8. CASE \/ Load \/ ApplyMap \/ Attach \/ BuildRing \/ Check \/ PollReady
           \/ DrainNext \/ CallbackGoesOn \/ SetupFails \/ DropLink \/ Return
           \/ Signal \/ Interrupt \/ Expire \/ UNCHANGED vars
  <2>1. /\ UNCHANGED <<drops, seen, dropsAtPoll, summary, printed, rejected>>
        /\ \/ phase \notin {"warn", "detach", "stopped"} \/ phase' = phase
           \/ phase = "detach" /\ phase' = "stopped"
    BY <1>8 DEF Load, ApplyMap, Attach, BuildRing, Check, PollReady, DrainNext, CallbackGoesOn,
       SetupFails, DropLink, Return, Teardown, Signal, Interrupt, Expire, Goto, vars, probeVars,
       kernel, collectorVars, counts, report
  <2> QED BY <1>3, <2>1
<1> QED BY <1>2, <1>4, <1>5, <1>6, <1>7, <1>8 DEF Next, Collect

(* The summary of exec.rs:85-86: at least the drops counted before the     *)
(* last poll returned, plus the rejects; at most what was dropped.         *)
THEOREM SummaryIsHonest == Spec => []SummaryHonest
<1>1. Init => DInv
  BY DEF Init, ProbeInit, DInv
<1>2. TInv /\ AInv /\ DInv => SummaryHonest
  <2> SUFFICES ASSUME TInv, AInv, DInv, NEW s \in summary
               PROVE  /\ s.printed = printed
                      /\ s.dropped >= dropsAtPoll + rejected
                      /\ s.printed + s.dropped + skipped + Len(ring) <= admitted
    BY DEF SummaryHonest
  <2>1. /\ drops \in Nat /\ admitted \in Nat /\ Len(ring) \in Nat
        /\ printed \in Nat /\ rejected \in Nat /\ skipped \in Nat
        /\ seen \in Nat /\ dropsAtPoll \in Nat
    BY DEF TInv, TypeOK, ProbeTypeOK, RunTypeOK
  <2>2. s.printed = printed /\ s.dropped = seen + rejected /\ seen <= drops /\ dropsAtPoll <= seen
    BY DEF DInv
  <2>3. admitted = Cardinality(Pending) + drops + Len(ring) + (printed + rejected + skipped)
    BY DEF AInv, Accounting, Handled
  <2>4. Cardinality(Pending) \in Nat
    BY PendingFinite
  <2> QED BY <2>1, <2>2, <2>3, <2>4
<1> QED BY <1>1, <1>2, NextDInv, TInvHolds, AInvHolds, PTL DEF Spec

-----------------------------------------------------------------------------
(* The size of the ring.                                                   *)

LEMMA Pow2Twelve == \A i \in Nat : Pow2[i + 12] = 4096 * Pow2[i]
<1>1. ASSUME NEW i \in Nat PROVE Pow2[i + 4] = 16 * Pow2[i] /\ Pow2[i] \in Nat
  <2>1. /\ Pow2[i] \in Nat /\ Pow2[i + 1] \in Nat /\ Pow2[i + 2] \in Nat /\ Pow2[i + 3] \in Nat
        /\ Pow2[i + 1] = 2 * Pow2[i] /\ Pow2[(i + 1) + 1] = 2 * Pow2[i + 1]
        /\ Pow2[(i + 2) + 1] = 2 * Pow2[i + 2] /\ Pow2[(i + 3) + 1] = 2 * Pow2[i + 3]
    BY Pow2Step
  <2>2. (i + 1) + 1 = i + 2 /\ (i + 2) + 1 = i + 3 /\ (i + 3) + 1 = i + 4
    OBVIOUS
  <2> QED BY <2>1, <2>2
<1> SUFFICES ASSUME NEW i \in Nat PROVE Pow2[i + 12] = 4096 * Pow2[i]
  OBVIOUS
<1>2. Pow2[(i + 8) + 4] = 16 * Pow2[i + 8] /\ Pow2[(i + 4) + 4] = 16 * Pow2[i + 4]
  BY <1>1
<1>3. (i + 8) + 4 = i + 12 /\ (i + 4) + 4 = i + 8
  OBVIOUS
<1> QED BY <1>1, <1>2, <1>3

(* What parse_buffer_mb takes and load does not fail on is the size that   *)
(* the multiplication leaves.                                              *)
LEMMA NoWrap ==
  ASSUME NEW mb, BufferAccepted(mb), RingMiB(mb) > 0
  PROVE  RingMiB(mb) = mb
<1>1. PICK k \in 0..30 : mb = Pow2[k]
  BY DEF BufferAccepted
<1>2. mb \in Nat /\ mb > 0
  BY <1>1, Pow2Step
<1>3. CASE mb < 4096
  BY <1>2, <1>3 DEF RingMiB
<1>4. CASE 12 <= k
  <2>1. PICK i \in Nat : k = i + 12
    BY <1>4
  <2>2. PICK n \in Nat : n = Pow2[i] /\ mb = 4096 * n
    BY <1>1, <2>1, Pow2Twelve, Pow2Step
  <2>3. mb % 4096 = 0
    BY <2>2
  <2> QED BY <2>3 DEF RingMiB
<1>5. mb < 4096 \/ 12 <= k
  <2>1. k <= 11 => Pow2[k] <= Pow2[11]
    BY Pow2Grows
  <2>2. \A i \in Nat : i = 11 => Pow2[i + 1] = 2 * Pow2[11] /\ i + 1 = 12
    BY Pow2Step
  <2>3. \A i \in Nat : i = 0 => Pow2[i + 12] = 4096 /\ i + 12 = 12
    BY Pow2Twelve, Pow2Step
  <2>4. Pow2[12] = 2 * Pow2[11] /\ Pow2[12] = 4096 /\ Pow2[11] \in Nat
    BY <2>2, <2>3, Pow2Step
  <2>5. Pow2[11] = 2048
    BY <2>4
  <2> QED BY <1>1, <1>2, <2>1, <2>5
<1> QED BY <1>3, <1>4, <1>5

BInv ==
  phase \notin {"start", "abort", "failed"} => BufferAccepted(opts.buffer) /\ RingMiB(opts.buffer) > 0

LEMMA NextBInv == ASSUME BInv, [Next]_vars PROVE BInv'
<1>1. CASE Load
  BY <1>1 DEF Load, Acceptable, Goto, env, BInv
<1>2. CASE phase' \in {"abort", "failed"}
  BY <1>2 DEF BInv
<1>3. CASE opts' = opts /\ phase \notin {"start", "abort", "failed"}
  BY <1>3 DEF BInv
<1>4. CASE UNCHANGED <<opts, phase>>
  BY <1>4 DEF BInv
<1>5. Collect =>
        Load \/ (opts' = opts /\ (phase \notin {"start", "abort", "failed"}
                                   \/ phase' \in {"abort", "failed"}))
  BY DEF Collect, ApplyMap, Attach, BuildRing, Check, PollReady, PollTimeout, DrainNext, DrainEnds,
     PollReturns, CallbackSkips, CallbackGoesOn, Decode, WarnOnDrops, PrintSummary, DropLink,
     Return, Teardown, Goto, env
<1>6. SetupFails \/ Interrupt => phase' = "abort"
  BY DEF SetupFails, Interrupt, Goto
<1>7. \/ ProbeNext /\ UNCHANGED collectorVars
      \/ Signal
      \/ Expire
      \/ UNCHANGED vars
      => UNCHANGED <<opts, phase>>
  BY DEF Signal, Expire, vars, collectorVars, env
<1> QED BY <1>1, <1>2, <1>3, <1>4, <1>5, <1>6, <1>7 DEF Next

(* Whatever --buffer says, a run that gets past the load has a ring of     *)
(* that size, or none.                                                     *)
THEOREM RingIsAsAsked == Spec => []RingAsAsked
<1>1. Init => BInv
  BY DEF Init, BInv
<1>2. BInv => RingAsAsked
  BY NoWrap DEF BInv, RingAsAsked
<1> QED BY <1>1, <1>2, NextBInv, PTL DEF Spec

-----------------------------------------------------------------------------
(* Collector implements Channel: the tasks' programs, the ring, the drop   *)
(* counter and the collector are together one bounded channel.             *)

LEMMA InitImplements == Init => Chan!Init
<1> SUFFICES ASSUME Init PROVE Chan!Init
  OBVIOUS
<1>1. reserved = 0 /\ Handled = 0 /\ drops = 0 /\ Submitted = {} /\ Waiting = <<>>
  BY DEF Init, ProbeInit, Handled, Submitted, Waiting
<1>4. Room = RingBytes
  BY ProbesAssumption DEF Init, ProbeInit, Room
<1>2. Refusing = {}
  BY DEF Init, ProbeInit, Refusing
<1>3. Refusals = 0
  BY <1>1, <1>2, FS_EmptySet DEF Refusals, Refusing
<1> QED BY <1>1, <1>3, <1>4 DEF Chan!Init

(* The steps of the programs accept, complete, refuse and count.           *)
LEMMA ProbesImplement ==
  ASSUME TInv, AInv, ProbeNext, UNCHANGED collectorVars
  PROVE  [Chan!Next]_(Chan!vars)
<1>1. Handled' = Handled /\ Handled \in Nat
  BY DEF collectorVars, counts, Handled, TInv, TypeOK, RunTypeOK
<1>2. ChannelStep(Handled)
  BY <1>1, ProbesStep DEF TInv, TypeOK, AInv
<1> QED BY <1>1, <1>2 DEF ChannelStep, Chan!Next, Chan!vars, Chan!Accept, Chan!Complete,
       Chan!Refuse, Chan!Count

(* A callback that returns takes the record at the head.                   *)
LEMMA CallbackImplements ==
  ASSUME TInv, AInv, CallbackSkips \/ Decode PROVE Chan!Take
<1>1. HeadReady /\ Release
  BY DEF CallbackSkips, Decode, TInv, HoldsRecord
<1>2. Handled' = Handled + 1 /\ Handled \in Nat
  BY DEF CallbackSkips, Decode, Handled, TInv, TypeOK, RunTypeOK
<1>3. /\ Handled + 1 \in Submitted /\ Submitted' = Submitted \ {Handled + 1}
      /\ Waiting' = Tail(Waiting) /\ Room' = Room + Head(Waiting)
      /\ UNCHANGED <<reserved, Refusals, drops>>
  BY <1>1, <1>2, ReleaseStep DEF TInv, TypeOK, AInv
<1> QED BY <1>2, <1>3 DEF Chan!Take

(* Every other step of the collector leaves the channel alone.             *)
LEMMA OthersStutter ==
  ASSUME \/ Load \/ ApplyMap \/ Attach \/ BuildRing \/ Check \/ PollReady \/ PollTimeout
         \/ DrainNext \/ DrainEnds \/ CallbackGoesOn \/ WarnOnDrops \/ PrintSummary
         \/ DropLink \/ Return \/ SetupFails \/ Signal \/ Interrupt \/ Expire
           \/ UNCHANGED vars
  PROVE  UNCHANGED Chan!vars
<1>1. UNCHANGED <<pc, ring, produced, consumed, reserved, drops, counts>>
  BY DEF Load, ApplyMap, Attach, BuildRing, Check, PollReady, PollTimeout, DrainNext,
     DrainEnds, PollReturns, CallbackGoesOn, WarnOnDrops, PrintSummary, SetupFails, DropLink, Return,
     Signal, Interrupt, Expire, Goto, vars, probeVars, kernel, positions, collectorVars
<1>2. UNCHANGED <<Handled, Submitted, Refusals, Waiting, Room>>
  BY <1>1 DEF counts, Handled, Submitted, Refusals, Waiting, Room
<1> QED BY <1>1, <1>2 DEF Chan!vars

(* What is not refused is handed to the callback exactly once, complete    *)
(* and in order, and the drop counter never runs ahead of the refusals.    *)
THEOREM CollectorIsChannel == Spec => Implements
<1>1. ASSUME TInv, AInv, [Next]_vars PROVE [Chan!Next]_(Chan!vars)
  <2>1. CASE ProbeNext /\ UNCHANGED collectorVars
    BY <1>1, <2>1, ProbesImplement
  <2>2. CASE CallbackSkips \/ Decode
    BY <1>1, <2>2, CallbackImplements DEF Chan!Next
  <2>3. CASE \/ Load \/ ApplyMap \/ Attach \/ BuildRing \/ Check \/ PollReady \/ PollTimeout
             \/ DrainNext \/ DrainEnds \/ CallbackGoesOn \/ WarnOnDrops \/ PrintSummary
             \/ DropLink \/ Return \/ SetupFails \/ Signal \/ Interrupt \/ Expire
           \/ UNCHANGED vars
    BY <2>3, OthersStutter
  <2> QED BY <1>1, <2>1, <2>2, <2>3 DEF Next, Collect
<1> QED BY <1>1, InitImplements, TInvHolds, AInvHolds, PTL DEF Spec, Implements, Chan!Spec
=============================================================================
