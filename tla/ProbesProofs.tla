---------------------------- MODULE ProbesProofs -----------------------------
(***************************************************************************)
(* What the tasks and the consumer of the ring do to it, for every set of  *)
(* tasks and every size: facts that the proofs about Collector and about   *)
(* Dashboard share.  A consumer that has handled n records so far is       *)
(* looked at through that number only.                                     *)
(***************************************************************************)
EXTENDS Probes, FiniteSetTheorems, SequenceTheorems, TLAPS

(* The kernel's reading of a filter_config written by config() is the      *)
(* meaning of the options, for every command line and every task.          *)

LEMMA TheOption ==
  ASSUME NEW S, NEW o \in Option(S), o # {}
  PROVE  The(o) \in S /\ o = {The(o)}
BY DEF Option, The

(* The array search of allowed() over the entries that pid_count declares  *)
(* valid finds a PID exactly when it is one of the list given: a list      *)
(* shorter than the array does not admit the PID 0 of its unused entries.  *)
LEMMA PidAllowedIsSelected ==
  ASSUME NEW args \in FilterArgs, ValidArgs(args), NEW mask, NEW pid
  PROVE  PidAllowed(Config(args, mask), pid) <=> PidSelected(args, pid)
<1> DEFINE f == Config(args, mask)
           n == Len(args.pid)
<1>1. n \in Nat /\ n <= MAX_PIDS /\ MAX_PIDS \in Nat /\ DOMAIN args.pid = 1..n
  BY FilterAssumption DEF FilterArgs, ValidArgs
<1>2. f.pid_count = n /\ \A i \in 1..MAX_PIDS : i <= n => f.pids[i] = args.pid[i]
  BY DEF Config
<1>3. n > 0 <=> args.pid # <<>>
  BY <1>1 DEF FilterArgs
<1> HIDE DEF f
<1>4. (\E i \in 1..MAX_PIDS : i <= f.pid_count /\ f.pids[i] = pid)
        <=> (\E i \in DOMAIN args.pid : args.pid[i] = pid)
  BY <1>1, <1>2
<1> QED BY <1>2, <1>3, <1>4 DEF f, PidAllowed, PidSelected

(* allowed() (tracelet.bpf.c:42-86) on the configuration config() builds   *)
(* (filter.rs:76-101) decides what the help of the options promises.       *)
THEOREM AllowedIsSelects ==
  ASSUME NEW args \in FilterArgs, ValidArgs(args), NEW mask, NEW task
  PROVE  Allowed(Config(args, mask), task) <=> Selects(args, task)
<1> DEFINE f == Config(args, mask)
<1>1. PidAllowed(f, task.pid) <=> PidSelected(args, task.pid)
  BY PidAllowedIsSelected
<1>2. ParentAllowed(f, task.ppid) <=> \A p \in args.ppid : task.ppid = p
  <2>1. args.ppid \in Option(Nat)
    BY DEF FilterArgs
  <2>2. CASE args.ppid = {}
    BY <2>2 DEF Config, ParentAllowed
  <2>3. CASE args.ppid # {}
    <3>1. f.ppid_enabled /\ f.ppid = The(args.ppid)
      BY <2>3 DEF Config
    <3>2. args.ppid = {The(args.ppid)}
      BY <2>1, <2>3, TheOption
    <3> HIDE DEF f
    <3> QED BY <3>1, <3>2 DEF ParentAllowed
  <2> QED BY <2>2, <2>3
<1>3. NameAllowed(f, task.comm) <=> \A c \in args.comm : task.comm = c
  <2>1. args.comm \in Option(Typed)
    BY DEF FilterArgs
  <2>2. CASE args.comm = {}
    BY <2>2 DEF Config, NameAllowed
  <2>3. CASE args.comm # {}
    <3>1. f.comm_enabled /\ f.comm = The(args.comm)
      BY <2>3 DEF Config
    <3>2. args.comm = {The(args.comm)}
      BY <2>1, <2>3, TheOption
    <3> HIDE DEF f
    <3> QED BY <3>1, <3>2 DEF NameAllowed
  <2> QED BY <2>2, <2>3
<1> QED BY <1>1, <1>2, <1>3 DEF Allowed, Selects

(* With the mask of --event, trace_tcp (tracelet.bpf.c:203-224) goes on    *)
(* to reserve a record exactly when the options select the task and the    *)
(* state change is an event, the one asked for if --event is given.        *)
THEOREM TraceTcpSelects ==
  ASSUME NEW args \in FilterArgs, ValidArgs(args), NEW event \in Option(TcpEvents),
         NEW task, NEW hook, hook.prog = "trace_tcp"
  PROVE  LET f == Config(args, EventMask(event))
         IN  Allowed(f, task) /\ Passes(f, EventOf(hook))
               <=> /\ Selects(args, task)
                   /\ \E e \in TcpEvents : EventOf(hook) = {e} /\ (event = {} \/ event = {e})
<1> DEFINE f == Config(args, EventMask(event))
<1>1. Allowed(f, task) <=> Selects(args, task)
  BY AllowedIsSelects
<1>2. f.event_mask = EventMask(event)
  BY DEF Config
<1>3. \A e \in TcpEvents : e \in EventMask(event) <=> (event = {} \/ event = {e})
  BY DEF EventMask, Option
<1>4. EventOf(hook) = {} \/ \E e \in TcpEvents : EventOf(hook) = {e}
  BY DEF EventOf, TcpEventOf, TcpEvents
<1> HIDE DEF f
<1>5. Passes(f, EventOf(hook))
        <=> \E e \in TcpEvents : EventOf(hook) = {e} /\ (event = {} \/ event = {e})
  BY <1>2, <1>3, <1>4 DEF Passes
<1> QED BY <1>1, <1>5 DEF f

-----------------------------------------------------------------------------
(* The programs and the ring.                                              *)

(* A program run past the filters has one event to report, and one that    *)
(* has still to compare the name has at most one.                          *)
CurOK ==
  \A t \in Tasks :
    /\ pc[t] = "comm" => cur[t] = {} \/ \E e \in Events : cur[t] = {e}
    /\ pc[t] \notin {"idle", "comm"} => \E e \in Events : cur[t] = {e}

LEMMA SizeIsNat == \A e : SizeOf(e) \in Nat
BY DEF SizeOf

LEMMA EventOfType ==
  ASSUME NEW hook
  PROVE  EventOf(hook) = {} \/ \E e \in Events : EventOf(hook) = {e}
BY DEF EventOf, TcpEventOf, Events, TcpEvents

(* The steps of the programs leave the set-up and the run alone.           *)
LEMMA ProbesFrame ==
  ASSUME ProbeNext PROVE UNCHANGED setup
BY DEF ProbeNext, Enter, RunProgram, Admit, TurnAway, Reserve, ReserveFails, CountDrop, Submit,
       SetComm, Reparent, setup

(* ... and never touch a record at the head that was submitted.            *)
LEMMA HeadStays ==
  ASSUME ProbeTypeOK, ProbeNext, HeadReady PROVE HeadReady' /\ ring'[1] = ring[1]
<1> USE DEF HeadReady
<1>1. ring \in Seq(Record)
  BY DEF ProbeTypeOK
<1> PICK t \in Tasks :
      \/ \E hook \in Hooks : Enter(t, hook)
      \/ RunProgram(t)
      \/ \E c \in Comms : SetComm(t, c)
      \/ \E p \in Ppids : Reparent(t, p)
  BY DEF ProbeNext
<1>2. CASE Reserve(t)
  BY <1>1, <1>2 DEF Reserve
<1>3. ASSUME NEW named, Submit(t, named) PROVE HeadReady' /\ ring'[1] = ring[1]
  <2>1. PICK i \in DOMAIN ring : ring[i].busy /\ \E r : ring' = [ring EXCEPT ![i] = r]
    BY <1>3 DEF Submit
  <2> QED BY <1>1, <2>1
<1>4. CASE ring' = ring
  BY <1>4
<1> QED BY <1>2, <1>3, <1>4
    DEF RunProgram, Enter, Admit, TurnAway, ReserveFails, CountDrop, SetComm, Reparent

LEMMA ProbesType ==
  ASSUME ProbeTypeOK, CurOK, ProbeNext
  PROVE  ProbeTypeOK' /\ CurOK'
<1> PICK t \in Tasks :
      \/ \E hook \in Hooks : Enter(t, hook)
      \/ RunProgram(t)
      \/ \E c \in Comms : SetComm(t, c)
      \/ \E p \in Ppids : Reparent(t, p)
  BY DEF ProbeNext
<1>1. ASSUME NEW hook \in Hooks, Enter(t, hook) PROVE ProbeTypeOK' /\ CurOK'
  <2>1. EventOf(hook) \in SUBSET Events
        /\ (EventOf(hook) = {} \/ \E e \in Events : EventOf(hook) = {e})
    BY EventOfType
  <2>2. ppid[t] \in Nat
    BY ProbesAssumption DEF ProbeTypeOK
  <2>3. ProbeTypeOK'
    BY <1>1, <2>1, <2>2 DEF Enter, ProbeTypeOK, attrs, positions
  <2>4. CurOK'
    BY <1>1, <2>1 DEF Enter, ProbeTypeOK, CurOK
  <2> QED BY <2>3, <2>4
<1>8. ASSUME Admit(t) PROVE ProbeTypeOK' /\ CurOK'
  <2>1. \E e \in Events : cur[t] = {e}
    BY <1>8 DEF Admit, CurOK, Passes
  <2>2. /\ pc' = [pc EXCEPT ![t] = "reserve"] /\ parent' = [parent EXCEPT ![t] = 0]
        /\ admitted' = admitted + 1
        /\ UNCHANGED <<comm, ppid, cur, ring, produced, consumed, reserved, drops>>
    BY <1>8 DEF Admit, attrs, positions
  <2>3. ProbeTypeOK'
    BY <2>2 DEF ProbeTypeOK
  <2>4. CurOK'
    BY <2>1, <2>2 DEF ProbeTypeOK, CurOK
  <2> QED BY <2>3, <2>4
<1>9. ASSUME TurnAway(t) PROVE ProbeTypeOK' /\ CurOK'
  BY <1>9 DEF TurnAway, ProbeTypeOK, CurOK, attrs, positions
<1>2. ASSUME Reserve(t) PROVE ProbeTypeOK' /\ CurOK'
  <2>1. PICK e \in Events : cur[t] = {e}
    BY <1>2 DEF Reserve, CurOK
  <2>2. The(cur[t]) = e /\ Size(t) \in Nat
    BY <2>1, SizeIsNat DEF The, Size
  <2>3. Blank(t) \in Record
    BY <2>2 DEF Blank, Record, ProbeTypeOK
  <2>4. ring' \in Seq(Record) /\ produced' \in Nat
    BY <1>2, <2>2, <2>3 DEF Reserve, ProbeTypeOK
  <2> QED BY <1>2, <2>4 DEF Reserve, ProbeTypeOK, CurOK, attrs
<1>3. ASSUME ReserveFails(t) PROVE ProbeTypeOK' /\ CurOK'
  BY <1>3 DEF ReserveFails, ProbeTypeOK, CurOK, attrs, positions
<1>4. ASSUME CountDrop(t) PROVE ProbeTypeOK' /\ CurOK'
  <2>1. /\ pc' = [pc EXCEPT ![t] = "idle"] /\ cur' = [cur EXCEPT ![t] = {}]
        /\ drops' = drops + 1
        /\ UNCHANGED <<comm, ppid, parent, ring, produced, consumed, reserved, admitted>>
    BY <1>4 DEF CountDrop, attrs, positions
  <2>2. ProbeTypeOK'
    BY <2>1 DEF ProbeTypeOK
  <2>3. CurOK'
    BY <2>1 DEF ProbeTypeOK, CurOK
  <2> QED BY <2>2, <2>3
<1>5. ASSUME NEW named \in BOOLEAN, Submit(t, named) PROVE ProbeTypeOK' /\ CurOK'
  <2>1. PICK i \in DOMAIN ring : \E tail \in TailOf(ring[i]) :
          ring' = [ring EXCEPT ![i] = Filled(ring[i], named, tail)]
    BY <1>5 DEF Submit
  <2>2. PICK tail \in TailOf(ring[i]) : ring' = [ring EXCEPT ![i] = Filled(ring[i], named, tail)]
    BY <2>1
  <2>3. ring[i] \in Record /\ tail \in BOOLEAN
    BY <2>2 DEF ProbeTypeOK, TailOf
  <2>4. comm[ring[i].task] \in Comms /\ ppid[ring[i].task] \in Nat
    BY <2>3, ProbesAssumption DEF ProbeTypeOK, Record
  <2>5. Filled(ring[i], named, tail) \in Record
    <3> DEFINE p == IF ring[i].event = "EXEC" THEN ppid[ring[i].task] ELSE 0
    <3>1. p \in Nat
      BY <2>4
    <3>2. Filled(ring[i], named, tail) =
            [ring[i] EXCEPT !.comm = comm[ring[i].task], !.ppid = p,
                            !.named = named, !.tail = tail, !.busy = FALSE]
      BY DEF Filled
    <3>3. \A q \in Nat : [ring[i] EXCEPT !.comm = comm[ring[i].task], !.ppid = q,
                            !.named = named, !.tail = tail, !.busy = FALSE] \in Record
      BY <1>5, <2>3, <2>4 DEF Record
    <3> HIDE DEF p
    <3> QED BY <3>1, <3>2, <3>3
  <2>6. ring' \in Seq(Record)
    BY <2>2, <2>5 DEF ProbeTypeOK
  <2> QED BY <1>5, <2>6 DEF Submit, ProbeTypeOK, CurOK, attrs, positions
<1>6. ASSUME NEW c \in Comms, SetComm(t, c) PROVE ProbeTypeOK' /\ CurOK'
  BY <1>6 DEF SetComm, ProbeTypeOK, CurOK, positions
<1>7. ASSUME NEW p \in Ppids, Reparent(t, p) PROVE ProbeTypeOK' /\ CurOK'
  BY <1>7 DEF Reparent, ProbeTypeOK, CurOK, positions
<1> QED BY <1>1, <1>2, <1>3, <1>4, <1>5, <1>6, <1>7, <1>8, <1>9 DEF RunProgram

LEMMA KernelFrame ==
  ASSUME ProbeTypeOK, CurOK, UNCHANGED kernel PROVE ProbeTypeOK' /\ CurOK'
BY DEF kernel, attrs, positions, ProbeTypeOK, CurOK

LEMMA ReleaseType ==
  ASSUME ProbeTypeOK, CurOK, ring # <<>>, Release
  PROVE  ProbeTypeOK' /\ CurOK'
<1>1. ring' \in Seq(Record)
  BY DEF Release, ProbeTypeOK
<1>2. consumed' \in Nat
  BY SizeIsNat DEF Release, ProbeTypeOK
<1> QED BY <1>1, <1>2 DEF Release, ProbeTypeOK, CurOK, attrs

LEMMA ProbesCount ==
  ASSUME ProbeTypeOK, ProbeNext PROVE drops' = drops \/ drops' = drops + 1
BY DEF ProbeNext, Enter, RunProgram, Admit, TurnAway, Reserve, ReserveFails, CountDrop, Submit,
       SetComm, Reparent

-----------------------------------------------------------------------------
(* Records are numbered without a gap, from the first one not yet handled. *)

Numbered(records, last, n) ==
  last = Len(records) + n /\ \A i \in DOMAIN records : records[i].seq = n + i

(* A submission completes one record and leaves the others alone.          *)
LEMMA SubmitRecord ==
  ASSUME ProbeTypeOK, NEW t \in Tasks, NEW named \in BOOLEAN, Submit(t, named)
  PROVE  \E i \in DOMAIN ring :
           /\ ring[i].busy /\ ~ring'[i].busy
           /\ ring'[i].seq = ring[i].seq /\ ring'[i].event = ring[i].event
           /\ DOMAIN ring' = DOMAIN ring /\ Len(ring') = Len(ring)
           /\ \A j \in DOMAIN ring : j # i => ring'[j] = ring[j]
<1>1. PICK i \in DOMAIN ring : ring[i].busy /\ \E tail \in TailOf(ring[i]) :
        ring' = [ring EXCEPT ![i] = Filled(ring[i], named, tail)]
  BY DEF Submit
<1>2. PICK tail \in TailOf(ring[i]) : ring' = [ring EXCEPT ![i] = Filled(ring[i], named, tail)]
  BY <1>1
<1>3. ring[i] \in Record
  BY DEF ProbeTypeOK
<1>4. /\ Filled(ring[i], named, tail).seq = ring[i].seq
      /\ Filled(ring[i], named, tail).event = ring[i].event
      /\ Filled(ring[i], named, tail).busy = FALSE
  BY <1>3 DEF Filled, Record
<1>5. ring'[i] = Filled(ring[i], named, tail) /\ DOMAIN ring' = DOMAIN ring
      /\ Len(ring') = Len(ring) /\ \A j \in DOMAIN ring : j # i => ring'[j] = ring[j]
  BY <1>2 DEF ProbeTypeOK
<1> QED BY <1>1, <1>4, <1>5

LEMMA ProbesNumbered ==
  ASSUME ProbeTypeOK, ProbeNext, NEW n \in Nat, Numbered(ring, reserved, n)
  PROVE  Numbered(ring', reserved', n)
<1> PICK t \in Tasks :
      \/ \E hook \in Hooks : Enter(t, hook)
      \/ RunProgram(t)
      \/ \E c \in Comms : SetComm(t, c)
      \/ \E p \in Ppids : Reparent(t, p)
  BY DEF ProbeNext
<1>1. CASE UNCHANGED <<ring, reserved>>
  BY <1>1
<1>2. CASE Reserve(t)
  <2>1. /\ Len(ring') = Len(ring) + 1 /\ reserved' = reserved + 1
        /\ DOMAIN ring' = 1..(Len(ring) + 1) /\ Len(ring) \in Nat
        /\ ring'[Len(ring) + 1] = Blank(t)
        /\ \A i \in DOMAIN ring : ring'[i] = ring[i]
    BY <1>2 DEF Reserve, ProbeTypeOK
  <2>2. ring'[Len(ring) + 1].seq = n + (Len(ring) + 1)
    BY <2>1 DEF Blank, Numbered
  <2>3. DOMAIN ring = 1..Len(ring)
    BY DEF ProbeTypeOK
  <2>4. ASSUME NEW i \in DOMAIN ring' PROVE ring'[i].seq = n + i
    BY <2>1, <2>2, <2>3 DEF Numbered
  <2>5. reserved' = Len(ring') + n
    BY <2>1 DEF Numbered
  <2> QED BY <2>4, <2>5 DEF Numbered
<1>3. ASSUME NEW named \in BOOLEAN, Submit(t, named) PROVE Numbered(ring', reserved', n)
  <2>1. reserved' = reserved
    BY <1>3 DEF Submit
  <2> QED BY <1>3, <2>1, SubmitRecord DEF Numbered
<1> QED BY <1>1, <1>2, <1>3
    DEF RunProgram, Enter, Admit, TurnAway, ReserveFails, CountDrop, SetComm, Reparent

LEMMA ReleaseNumbered ==
  ASSUME ProbeTypeOK, ring # <<>>, Release, NEW n \in Nat, Numbered(ring, reserved, n)
  PROVE  Numbered(ring', reserved', n + 1)
<1>1. /\ Len(ring') = Len(ring) - 1 /\ Len(ring) \in Nat /\ reserved' = reserved
      /\ \A i \in DOMAIN ring' : i \in Nat /\ ring'[i] = ring[i + 1] /\ i + 1 \in DOMAIN ring
  BY DEF Release, ProbeTypeOK
<1>2. ASSUME NEW i \in DOMAIN ring' PROVE ring'[i].seq = (n + 1) + i
  <2>1. ring[i + 1].seq = n + (i + 1)
    BY <1>1 DEF Numbered
  <2> QED BY <1>1, <2>1
<1> QED BY <1>1, <1>2 DEF Numbered

-----------------------------------------------------------------------------
(* What the steps are to a bounded channel that has handed over n events.  *)

Refusing == {t \in Tasks : pc[t] = "drop"}

LEMMA RefusingFinite == IsFiniteSet(Refusing) /\ Cardinality(Refusing) \in Nat
<1>1. IsFiniteSet(Refusing)
  BY FS_Subset, ProbesAssumption DEF Refusing
<1> QED BY <1>1, FS_CardinalityType

(* The numbers of the submitted records, when they are numbered from n.    *)
LEMMA SubmittedNumbers ==
  ASSUME ProbeTypeOK, NEW n \in Nat, Numbered(ring, reserved, n)
  PROVE  Submitted = {n + i : i \in {j \in DOMAIN ring : ~ring[j].busy}}
BY DEF Submitted, Numbered

(* The four things a program can do to the channel, or none of them.       *)
ChannelStep(n) ==
  \/ /\ \E size \in Sizes : /\ size < Room
                             /\ Room' = Room - size
                             /\ Waiting' = Append(Waiting, size)
     /\ reserved' = reserved + 1
     /\ UNCHANGED <<Submitted, Refusals, drops>>
  \/ /\ \E k \in (n + 1)..reserved : k \notin Submitted /\ Submitted' = Submitted \cup {k}
     /\ UNCHANGED <<reserved, Waiting, Room, Refusals, drops>>
  \/ /\ \E size \in Sizes : size >= Room
     /\ Refusals' = Refusals + 1
     /\ UNCHANGED <<reserved, Waiting, Room, Submitted, drops>>
  \/ /\ drops < Refusals
     /\ drops' = drops + 1
     /\ UNCHANGED <<reserved, Waiting, Room, Submitted, Refusals>>
  \/ UNCHANGED <<reserved, Waiting, Room, Submitted, Refusals, drops>>

(* The record of a task past the filters has one of the sizes, and fits    *)
(* the ring exactly when that leaves room.                                 *)
LEMMA FitsIsRoom ==
  ASSUME ProbeTypeOK, CurOK, NEW t \in Tasks, pc[t] = "reserve"
  PROVE  /\ Size(t) \in Sizes /\ Size(t) \in Nat /\ Room \in Int
         /\ Fits(t) <=> Size(t) < Room
<1>1. PICK e \in Events : cur[t] = {e}
  BY DEF CurOK
<1>2. Size(t) = SizeOf(e)
  BY <1>1 DEF Size, The
<1>3. Size(t) \in Sizes /\ Size(t) \in Nat
  BY <1>2, SizeIsNat DEF Sizes
<1>4. produced \in Nat /\ consumed \in Nat /\ RingBytes \in Nat
  BY ProbesAssumption DEF ProbeTypeOK
<1> QED BY <1>3, <1>4 DEF Fits, Room

LEMMA ProbesStep ==
  ASSUME ProbeTypeOK, CurOK, ProbeNext, NEW n \in Nat, Numbered(ring, reserved, n)
  PROVE  ChannelStep(n)
<1>0. /\ pc \in [Tasks -> {"idle", "comm", "reserve", "fill", "drop"}]
      /\ ring \in Seq(Record) /\ reserved \in Nat /\ drops \in Nat
      /\ Len(ring) \in Nat /\ DOMAIN ring = 1..Len(ring)
  BY DEF ProbeTypeOK
<1> PICK t \in Tasks :
      \/ \E hook \in Hooks : Enter(t, hook)
      \/ RunProgram(t)
      \/ \E c \in Comms : SetComm(t, c)
      \/ \E p \in Ppids : Reparent(t, p)
  BY DEF ProbeNext
<1>1. CASE \/ \E hook \in Hooks : Enter(t, hook)
           \/ Admit(t) \/ TurnAway(t)
           \/ \E c \in Comms : SetComm(t, c)
           \/ \E p \in Ppids : Reparent(t, p)
  <2>1. UNCHANGED <<ring, produced, consumed, reserved, drops>>
    BY <1>1 DEF Enter, Admit, TurnAway, SetComm, Reparent, positions
  <2>2. Refusing' = Refusing
    BY <1>0, <1>1 DEF Enter, Admit, TurnAway, SetComm, Reparent, Refusing
  <2>3. UNCHANGED <<Refusals, Submitted, Waiting, Room>>
    BY <2>1, <2>2 DEF Refusals, Submitted, Refusing, Waiting, Room
  <2> QED BY <2>1, <2>3 DEF ChannelStep
<1>2. CASE Reserve(t)
  <2>1. Refusing' = Refusing /\ drops' = drops
    BY <1>0, <1>2 DEF Reserve, Refusing
  <2>2. Refusals' = Refusals
    BY <2>1 DEF Refusals, Refusing
  <2>3. reserved' = reserved + 1 /\ Room' = Room - Size(t)
    BY <1>0, <1>2, FitsIsRoom, ProbesAssumption DEF Reserve, Room, ProbeTypeOK
  <2>4. {j \in DOMAIN ring' : ~ring'[j].busy} = {j \in DOMAIN ring : ~ring[j].busy}
    <3>1. /\ DOMAIN ring' = DOMAIN ring \cup {Len(ring) + 1}
          /\ ring'[Len(ring) + 1] = Blank(t)
          /\ \A j \in DOMAIN ring : ring'[j] = ring[j]
      BY <1>0, <1>2 DEF Reserve
    <3>2. ring'[Len(ring) + 1].busy
      BY <3>1 DEF Blank
    <3> QED BY <3>1, <3>2
  <2>5. \A j \in DOMAIN ring : ring'[j] = ring[j]
    BY <1>0, <1>2 DEF Reserve
  <2>6. Submitted' = Submitted
    BY <2>4, <2>5 DEF Submitted
  <2>7. Waiting' = Append(Waiting, Size(t))
    <3>1. /\ Len(ring') = Len(ring) + 1 /\ DOMAIN ring' = 1..(Len(ring) + 1)
          /\ \A j \in DOMAIN ring : ring'[j].event = ring[j].event
          /\ ring'[Len(ring) + 1].event = The(cur[t])
      BY <1>0, <1>2 DEF Reserve, Blank
    <3>2. PICK m \in Nat : m = Len(ring) /\ DOMAIN ring = 1..m /\ DOMAIN ring' = 1..(m + 1)
      BY <1>0, <3>1
    <3>3. Waiting \in Seq(Nat) /\ Len(Waiting) = m /\ \A j \in 1..m : Waiting[j] = SizeOf(ring[j].event)
      BY <3>2, SizeIsNat DEF Waiting
    <3>4. Waiting' = [j \in 1..(m + 1) |-> IF j = m + 1 THEN Size(t) ELSE Waiting[j]]
      BY <3>1, <3>2, <3>3 DEF Waiting, Size
    <3>5. PICK old, new : old = Waiting /\ new = Waiting'
      OBVIOUS
    <3> HIDE DEF Waiting
    <3>6. /\ old \in Seq(Nat) /\ Len(old) = m /\ DOMAIN old = 1..m
          /\ new = [j \in 1..(m + 1) |-> IF j = m + 1 THEN Size(t) ELSE old[j]]
      BY <3>3, <3>4, <3>5
    <3>7. new = Append(old, Size(t))
      <4>1. Size(t) \in Nat
        BY <1>2, FitsIsRoom DEF Reserve
      <4>2. new \in Seq(Nat) /\ Len(new) = m + 1
        BY <3>2, <3>6, <4>1
      <4>3. /\ Append(old, Size(t)) \in Seq(Nat) /\ Len(Append(old, Size(t))) = m + 1
            /\ \A j \in 1..m : Append(old, Size(t))[j] = old[j]
            /\ Append(old, Size(t))[m + 1] = Size(t)
        BY <3>6, <4>1, AppendProperties
      <4>4. \A j \in 1..(m + 1) : new[j] = Append(old, Size(t))[j]
        BY <3>2, <3>6, <4>3
      <4> QED BY <4>2, <4>3, <4>4, SeqEqual
    <3> QED BY <3>5, <3>7
  <2>8. Size(t) \in Sizes /\ Size(t) < Room
    BY <1>2, FitsIsRoom DEF Reserve
  <2> QED BY <2>1, <2>2, <2>3, <2>6, <2>7, <2>8 DEF ChannelStep
<1>3. CASE ReserveFails(t)
  <2>1. Refusing' = Refusing \cup {t} /\ t \notin Refusing
    BY <1>0, <1>3 DEF ReserveFails, Refusing
  <2>2. Cardinality(Refusing') = Cardinality(Refusing) + 1
    BY <2>1, RefusingFinite, FS_AddElement
  <2>3. UNCHANGED <<reserved, Waiting, Room, Submitted, drops>>
    BY <1>3 DEF ReserveFails, Submitted, Waiting, Room, positions
  <2>4. Refusals' = Refusals + 1
    BY <1>0, <2>2, <2>3, RefusingFinite DEF Refusals, Refusing
  <2>5. Size(t) \in Sizes /\ Size(t) >= Room
    BY <1>3, FitsIsRoom DEF ReserveFails
  <2> QED BY <2>3, <2>4, <2>5 DEF ChannelStep
<1>4. CASE CountDrop(t)
  <2>1. Refusing' = Refusing \ {t} /\ t \in Refusing
    BY <1>0, <1>4 DEF CountDrop, Refusing
  <2>2. Cardinality(Refusing') = Cardinality(Refusing) - 1
    BY <2>1, RefusingFinite, FS_RemoveElement
  <2>3. Cardinality(Refusing) > 0
    BY <2>1, RefusingFinite, FS_EmptySet
  <2>4. UNCHANGED <<reserved, Waiting, Room, Submitted>> /\ drops' = drops + 1
    BY <1>4 DEF CountDrop, Submitted, Waiting, Room, positions
  <2>5. Refusals' = Refusals /\ drops < Refusals
    BY <1>0, <2>2, <2>3, <2>4, RefusingFinite DEF Refusals, Refusing
  <2> QED BY <2>4, <2>5 DEF ChannelStep
<1>5. ASSUME NEW named \in BOOLEAN, Submit(t, named) PROVE ChannelStep(n)
  <2>1. UNCHANGED <<reserved, Room, drops>> /\ Refusing' = Refusing
    BY <1>0, <1>5 DEF Submit, Refusing, Room, positions
  <2>2. Refusals' = Refusals
    BY <2>1 DEF Refusals, Refusing
  <2>3. PICK i \in DOMAIN ring :
           /\ ring[i].busy /\ ~ring'[i].busy
           /\ ring'[i].seq = ring[i].seq /\ ring'[i].event = ring[i].event
           /\ DOMAIN ring' = DOMAIN ring
           /\ \A j \in DOMAIN ring : j # i => ring'[j] = ring[j]
    BY <1>5, SubmitRecord
  <2>4. {j \in DOMAIN ring' : ~ring'[j].busy} = {j \in DOMAIN ring : ~ring[j].busy} \cup {i}
    BY <2>3
  <2>5. Submitted' = Submitted \cup {ring[i].seq}
    BY <2>3, <2>4 DEF Submitted
  <2>6. ring[i].seq = n + i /\ ring[i].seq \in (n + 1)..reserved
    BY <1>0 DEF Numbered
  <2>7. ring[i].seq \notin Submitted
    <3> SUFFICES ASSUME NEW j \in DOMAIN ring, ~ring[j].busy, n + i = n + j PROVE FALSE
      BY <2>6, SubmittedNumbers
    <3> QED BY <1>0, <2>3
  <2>8. Waiting' = Waiting
    BY <2>3 DEF Waiting
  <2> QED BY <2>1, <2>2, <2>5, <2>6, <2>7, <2>8 DEF ChannelStep
<1> QED BY <1>1, <1>2, <1>3, <1>4, <1>5 DEF RunProgram

(* Releasing the submitted record at the head hands it over.               *)
LEMMA ReleaseStep ==
  ASSUME ProbeTypeOK, HeadReady, Release, NEW n \in Nat, Numbered(ring, reserved, n)
  PROVE  /\ n + 1 \in Submitted /\ Submitted' = Submitted \ {n + 1}
         /\ Waiting' = Tail(Waiting) /\ Room' = Room + Head(Waiting)
         /\ UNCHANGED <<reserved, Refusals, drops>>
<1>1. /\ ring \in Seq(Record) /\ Len(ring) \in Nat \ {0} /\ DOMAIN ring = 1..Len(ring)
      /\ ring' \in Seq(Record) /\ DOMAIN ring' = 1..(Len(ring) - 1)
      /\ \A i \in 1..(Len(ring) - 1) : ring'[i] = ring[i + 1]
  BY DEF ProbeTypeOK, HeadReady, Release
<1>2. Submitted = {n + i : i \in {j \in DOMAIN ring : ~ring[j].busy}}
  BY SubmittedNumbers
<1>3. Numbered(ring', reserved', n + 1)
  BY ReleaseNumbered DEF HeadReady
<1>4. Submitted' = {(n + 1) + i : i \in {j \in DOMAIN ring' : ~ring'[j].busy}}
  BY <1>3 DEF Submitted, Numbered
<1>5. n + 1 \in Submitted
  BY <1>1, <1>2 DEF HeadReady
<1>6. ASSUME NEW k \in Submitted' PROVE k \in Submitted \ {n + 1}
  <2>1. PICK i \in DOMAIN ring' : ~ring'[i].busy /\ k = (n + 1) + i
    BY <1>4, <1>6
  <2>2. i + 1 \in DOMAIN ring /\ ~ring[i + 1].busy /\ k = n + (i + 1) /\ i # 0
    BY <1>1, <2>1
  <2> QED BY <1>1, <1>2, <2>1, <2>2
<1>7. ASSUME NEW k \in Submitted, k # n + 1 PROVE k \in Submitted'
  <2>1. PICK i \in DOMAIN ring : ~ring[i].busy /\ k = n + i
    BY <1>2, <1>7
  <2>2. i - 1 \in DOMAIN ring' /\ ring'[i - 1] = ring[i] /\ k = (n + 1) + (i - 1)
    BY <1>1, <1>7, <2>1
  <2> QED BY <1>4, <2>1, <2>2
<1>8. UNCHANGED <<reserved, Refusals, drops>>
  BY DEF Release, Refusals
<1>9. Waiting' = Tail(Waiting) /\ Head(Waiting) = SizeOf(ring[1].event)
  <2>1. PICK m \in Nat \ {0} : m = Len(ring) /\ DOMAIN ring = 1..m /\ DOMAIN ring' = 1..(m - 1)
    BY <1>1
  <2>2. /\ Waiting \in Seq(Nat) /\ Len(Waiting) = m /\ Waiting # <<>>
        /\ \A j \in 1..m : Waiting[j] = SizeOf(ring[j].event)
    BY <2>1, SizeIsNat DEF Waiting
  <2>3. Waiting' = [j \in 1..(m - 1) |-> Waiting[j + 1]]
    BY <1>1, <2>1, <2>2 DEF Waiting
  <2>4. PICK old, new : old = Waiting /\ new = Waiting'
    OBVIOUS
  <2>5. Head(Waiting) = SizeOf(ring[1].event)
    BY <2>1, <2>2
  <2> HIDE DEF Waiting
  <2>6. /\ old \in Seq(Nat) /\ Len(old) = m /\ old # <<>>
        /\ new = [j \in 1..(m - 1) |-> old[j + 1]]
    BY <2>2, <2>3, <2>4
  <2>7. new = Tail(old)
    <3>1. new \in Seq(Nat) /\ Len(new) = m - 1
      BY <2>1, <2>6
    <3>2. /\ Tail(old) \in Seq(Nat) /\ Len(Tail(old)) = m - 1
          /\ \A j \in 1..(m - 1) : Tail(old)[j] = old[j + 1]
      BY <2>1, <2>6, HeadTailProperties
    <3>3. \A j \in 1..(m - 1) : new[j] = Tail(old)[j]
      BY <2>6, <3>2
    <3> QED BY <3>1, <3>2, <3>3, SeqEqual
  <2> QED BY <2>4, <2>5, <2>7
<1>10. Room' = Room + Head(Waiting)
  <2>1. produced \in Nat /\ consumed \in Nat /\ RingBytes \in Nat /\ SizeOf(ring[1].event) \in Nat
    BY SizeIsNat, ProbesAssumption DEF ProbeTypeOK
  <2> QED BY <1>9, <2>1 DEF Release, Room
<1> QED BY <1>5, <1>6, <1>7, <1>8, <1>9, <1>10
=============================================================================
