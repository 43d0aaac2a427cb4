------------------------------- MODULE Probes -------------------------------
(***************************************************************************)
(* The event programs of src/bpf/tracelet.bpf.c (trace_exec, trace_open*,  *)
(* trace_tcp) and the maps they share with the collector.  A task of the   *)
(* machine runs an attached program in steps that interleave with every    *)
(* other task and with the collector:                                      *)
(*                                                                         *)
(*   Enter      allowed() compares the PID, then the parent                *)
(*   Admit      allowed() compares the name, trace_tcp the event mask      *)
(*   Reserve    bpf_ringbuf_reserve: a busy record, or NULL if it is full  *)
(*   Submit     the fields are filled in and the record is handed over     *)
(*   CountDrop  count_drop after a reserve that returned NULL              *)
(*                                                                         *)
(* The comm and the parent of a task may change at any moment: between the *)
(* two looks of the filter, and between the filter and the filling of the  *)
(* record.  The ring is the kernel's: records in the order of their        *)
(* reservation, each busy until it is submitted, between two positions     *)
(* that count bytes.                                                       *)
(*                                                                         *)
(* Here and in the other modules an operator Mut<Name> is <Name> with a    *)
(* plausible bug; no other definition uses it, and PROJECT.json names the  *)
(* property that catches it.                                               *)
(***************************************************************************)
EXTENDS Filter, FiniteSets

CONSTANTS Tasks,      \* tasks that hit tracepoints
          PidOf,      \* the tgid of each task
          Comms,      \* the names a task may take
          Ppids,      \* the parents a task may have
          Hooks,      \* the tracepoint hits of the workload
          RingBytes,  \* size of the ring buffer
          MaxEvents   \* bound: program runs that pass the filters

ASSUME ProbesAssumption ==
  /\ IsFiniteSet(Tasks)
  /\ PidOf \in [Tasks -> Nat]
  /\ Comms \subseteq Names \cup {NoName}
  /\ Ppids \subseteq Nat
  /\ RingBytes \in Nat
  /\ MaxEvents \in Nat

VARIABLES
  filterMap,  \* filter_map[0]
  attached,   \* the links held by the collector: programs, in order
  comm, ppid, \* of each task
  pc, cur,    \* of each task: the step it is at and the event it reports
  parent,     \* of each task at step "comm", history: the parent that allowed() saw
  ring,       \* the records reserved and not yet released by the consumer
  produced,   \* the producer's position: bytes reserved so far
  consumed,   \* the consumer's position: bytes released so far
  reserved,   \* history: number of records reserved so far
  drops,      \* drops[DROP_KEY_RINGBUF]
  admitted    \* history: number of program runs that passed the filters

setup == <<filterMap, attached>>
attrs == <<comm, ppid>>
positions == <<produced, consumed>>
kernel == <<attrs, pc, cur, parent, ring, positions, reserved, drops, admitted>>
probeVars == <<setup, kernel>>

Events == {"EXEC", "OPEN"} \cup TcpEvents

(* The bytes a record takes of the ring: the kernel's header, the one of   *)
(* the record and the event, all multiples of 8.                           *)
SizeOf(event) ==
  8 + 8 + (IF event = "EXEC" THEN 168 ELSE IF event = "OPEN" THEN 160 ELSE 72)

ProbeInit ==
  /\ filterMap = ZeroConfig
  /\ attached = <<>>
  /\ comm \in [Tasks -> Comms]
  /\ ppid \in [Tasks -> Ppids]
  /\ pc = [t \in Tasks |-> "idle"]
  /\ cur = [t \in Tasks |-> {}]
  /\ parent = [t \in Tasks |-> 0]
  /\ ring = <<>>
  /\ produced = 0 /\ consumed = 0
  /\ reserved = 0
  /\ drops = 0
  /\ admitted = 0

-----------------------------------------------------------------------------

(* Programs started that are not turned away yet.                          *)
Started == admitted + Cardinality({t \in Tasks : pc[t] = "comm"})

Enter(t, hook) ==
  /\ \E i \in DOMAIN attached : attached[i] = hook.prog
  /\ pc[t] = "idle"
  /\ Started < MaxEvents
  /\ PidAllowed(filterMap, PidOf[t]) /\ ParentAllowed(filterMap, ppid[t])
  /\ pc' = [pc EXCEPT ![t] = "comm"]
  /\ cur' = [cur EXCEPT ![t] = EventOf(hook)]
  /\ parent' = [parent EXCEPT ![t] = ppid[t]]
  /\ UNCHANGED <<setup, attrs, ring, positions, reserved, drops, admitted>>

Admit(t) ==
  /\ pc[t] = "comm"
  /\ NameAllowed(filterMap, comm[t]) /\ Passes(filterMap, cur[t])
  /\ pc' = [pc EXCEPT ![t] = "reserve"]
  /\ parent' = [parent EXCEPT ![t] = 0]
  /\ admitted' = admitted + 1
  /\ UNCHANGED <<setup, attrs, cur, ring, positions, reserved, drops>>

TurnAway(t) ==
  /\ pc[t] = "comm"
  /\ ~(NameAllowed(filterMap, comm[t]) /\ Passes(filterMap, cur[t]))
  /\ pc' = [pc EXCEPT ![t] = "idle"]
  /\ cur' = [cur EXCEPT ![t] = {}]
  /\ parent' = [parent EXCEPT ![t] = 0]
  /\ UNCHANGED <<setup, attrs, ring, positions, reserved, drops, admitted>>

(* The ring has room for the record of task t: its producer never catches  *)
(* up with the consumer.                                                   *)
Size(t) == SizeOf(The(cur[t]))
Fits(t) == produced + Size(t) - consumed < RingBytes

(* A record of task t before its fields are written.                       *)
Blank(t) ==
  [ seq |-> reserved + 1, end |-> produced + Size(t), task |-> t,
    event |-> The(cur[t]), busy |-> TRUE, comm |-> NoName, ppid |-> 0,
    named |-> TRUE, tail |-> TRUE ]

MutReserve(t) ==  \* count_drop whatever bpf_ringbuf_reserve returned
  /\ pc[t] = "reserve"
  /\ Fits(t)
  /\ ring' = Append(ring, Blank(t))
  /\ produced' = produced + Size(t)
  /\ reserved' = reserved + 1
  /\ drops' = drops + 1
  /\ pc' = [pc EXCEPT ![t] = "fill"]
  /\ UNCHANGED <<setup, attrs, cur, parent, consumed, admitted>>

Reserve(t) ==
  /\ pc[t] = "reserve"
  /\ Fits(t)
  /\ ring' = Append(ring, Blank(t))
  /\ produced' = produced + Size(t)
  /\ reserved' = reserved + 1
  /\ pc' = [pc EXCEPT ![t] = "fill"]
  /\ UNCHANGED <<setup, attrs, cur, parent, consumed, drops, admitted>>

MutReserveFails(t) ==  \* returns without count_drop
  /\ pc[t] = "reserve"
  /\ ~Fits(t)
  /\ pc' = [pc EXCEPT ![t] = "idle"]
  /\ UNCHANGED <<setup, attrs, cur, parent, ring, positions, reserved, drops, admitted>>

ReserveFails(t) ==
  /\ pc[t] = "reserve"
  /\ ~Fits(t)
  /\ pc' = [pc EXCEPT ![t] = "drop"]
  /\ UNCHANGED <<setup, attrs, cur, parent, ring, positions, reserved, drops, admitted>>

CountDrop(t) ==
  /\ pc[t] = "drop"
  /\ drops' = drops + 1
  /\ pc' = [pc EXCEPT ![t] = "idle"]
  /\ cur' = [cur EXCEPT ![t] = {}]
  /\ UNCHANGED <<setup, attrs, parent, ring, positions, reserved, admitted>>

(* What the bytes of filename[128] behind its NUL may hold.  The program   *)
(* does not write them: they are zero in the first lap of the ring, and    *)
(* what an older record left there afterwards.                             *)
TailOf(r) == {tail \in BOOLEAN : r.event \in TcpEvents \/ r.end <= RingBytes => tail}

Filled(r, named, tail) ==
  [r EXCEPT !.comm = comm[r.task],
            !.ppid = IF r.event = "EXEC" THEN ppid[r.task] ELSE 0,
            !.named = named, !.tail = tail, !.busy = FALSE]

(* named: the process name and the path are printable ASCII strings.       *)
Submit(t, named) ==
  /\ pc[t] = "fill"
  /\ \E i \in DOMAIN ring :
       /\ ring[i].task = t /\ ring[i].busy
       /\ \E tail \in TailOf(ring[i]) :
            ring' = [ring EXCEPT ![i] = Filled(ring[i], named, tail)]
  /\ pc' = [pc EXCEPT ![t] = "idle"]
  /\ cur' = [cur EXCEPT ![t] = {}]
  /\ UNCHANGED <<setup, attrs, parent, positions, reserved, drops, admitted>>

SetComm(t, c) ==
  /\ c # comm[t]
  /\ comm' = [comm EXCEPT ![t] = c]
  /\ UNCHANGED <<setup, ppid, pc, cur, parent, ring, positions, reserved, drops, admitted>>

Reparent(t, p) ==
  /\ p # ppid[t]
  /\ ppid' = [ppid EXCEPT ![t] = p]
  /\ UNCHANGED <<setup, comm, pc, cur, parent, ring, positions, reserved, drops, admitted>>

RunProgram(t) ==
  \/ Admit(t) \/ TurnAway(t)
  \/ Reserve(t) \/ ReserveFails(t) \/ CountDrop(t)
  \/ \E named \in BOOLEAN : Submit(t, named)

ProbeNext ==
  \E t \in Tasks :
    \/ \E hook \in Hooks : Enter(t, hook)
    \/ RunProgram(t)
    \/ \E c \in Comms : SetComm(t, c)
    \/ \E p \in Ppids : Reparent(t, p)

-----------------------------------------------------------------------------
(* The consumer's side of the ring (libbpf ring_buffer__poll).             *)

HeadReady == ring # <<>> /\ ~ring[1].busy

Release ==
  /\ ring' = Tail(ring)
  /\ consumed' = consumed + SizeOf(ring[1].event)
  /\ UNCHANGED <<setup, attrs, pc, cur, parent, produced, reserved, drops, admitted>>

(* The records still in the ring that their programs have submitted, and   *)
(* the program runs that were refused one, counted or about to be.         *)
Submitted == {ring[i].seq : i \in {j \in DOMAIN ring : ~ring[j].busy}}
Refusals == drops + Cardinality({t \in Tasks : pc[t] = "drop"})

(* The ring as a channel: the bytes it has left, and those each of its     *)
(* records takes.                                                          *)
Room == RingBytes - (produced - consumed)
Waiting == [i \in DOMAIN ring |-> SizeOf(ring[i].event)]
Sizes == {SizeOf(e) : e \in Events}

(* The decoders accept a record when every byte of its strings is          *)
(* printable or NUL, those behind the first NUL included.                  *)
Decodes(r) == r.named /\ r.tail

-----------------------------------------------------------------------------
(* The values of the variables.                                            *)

Record ==
  [ seq : Nat, end : Nat, task : Tasks, event : Events, busy : BOOLEAN,
    comm : Comms \cup {NoName}, ppid : Nat, named : BOOLEAN, tail : BOOLEAN ]

ProbeTypeOK ==
  /\ comm \in [Tasks -> Comms] /\ ppid \in [Tasks -> Ppids]
  /\ pc \in [Tasks -> {"idle", "comm", "reserve", "fill", "drop"}]
  /\ cur \in [Tasks -> SUBSET Events]
  /\ parent \in [Tasks -> Nat]
  /\ ring \in Seq(Record) /\ produced \in Nat /\ consumed \in Nat
  /\ reserved \in Nat /\ drops \in Nat /\ admitted \in Nat
=============================================================================
