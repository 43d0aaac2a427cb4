------------------------------ MODULE Collector ------------------------------
(***************************************************************************)
(* One run of `tracelet exec`, `open` or `tcp`: exec::run, open::run and   *)
(* tcp::run have the same shape and differ in the programs they attach and *)
(* in the event mask.  The collector loads the programs, writes the        *)
(* filter, attaches, then polls the ring buffer and reads the drop counter *)
(* until should_stop says so, and prints a summary.                        *)
(*                                                                         *)
(* The environment sends SIGINT or SIGTERM at any moment (an epoll_wait    *)
(* that is asleep returns EINTR) and lets the --duration run out.  Any     *)
(* call of the set-up may fail.                                            *)
(***************************************************************************)
EXTENDS Probes, Arithmetic

CONSTANT Options   \* the command lines considered

Tools == {"exec", "open", "tcp"}

CommandLines ==
  [ tool : Tools, filter : FilterArgs, event : Option(TcpEvents),
    count : Option(Nat), duration : BOOLEAN, buffer : Nat ]

ASSUME CollectorAssumption == Options \subseteq CommandLines

VARIABLES
  opts,             \* the command line: chosen in Init, never changed
  phase,            \* what the collector is about to do
  running,          \* RUNNING
  expired,          \* start.elapsed() >= --duration
  printed,          \* events printed
  rejected,         \* decode_rejects
  seen,             \* drops_seen[0]
  summary,          \* the summary line: its counts, once printed
  skipped,          \* history: records discarded because RUNNING was false
  printedAtSignal,  \* history: printed when the first signal came
  dropsAtPoll       \* history: drops when the last poll returned

env == <<opts, running, expired, printedAtSignal>>
counts == <<printed, rejected, skipped>>
report == <<seen, summary, dropsAtPoll>>
collectorVars == <<phase, env, counts, report>>
vars == <<probeVars, collectorVars>>

AllPrograms == {"trace_exec", "trace_open", "trace_openat", "trace_openat2", "trace_tcp"}

Programs(tool) ==
  IF tool = "exec" THEN <<"trace_exec">>
  ELSE IF tool = "open" THEN <<"trace_open", "trace_openat", "trace_openat2">>
  ELSE <<"trace_tcp">>

Mask == IF opts.tool = "tcp" THEN EventMask(opts.event) ELSE TcpEvents

(* --buffer, as typed: parse_buffer_mb takes the powers of two of a u32.    *)
(* TLC cannot hold 2^31, the last of them; its ring would have no bytes.    *)
MutBufferAccepted(mb) == mb > 0  \* any size but none

BufferAccepted(mb) == \E k \in 0..30 : mb = Pow2[k]

(* The size asked of the kernel, in MiB: 16 is compiled in, and the u32    *)
(* multiplication by 1024 * 1024 keeps what is left modulo 2^32 bytes.     *)
RingMiB(mb) == IF mb = 16 THEN 16 ELSE mb % 4096

Acceptable == ValidArgs(opts.filter) /\ BufferAccepted(opts.buffer) /\ RingMiB(opts.buffer) > 0

(* run() is on its way out, with a summary printed or with an error.       *)
Teardown == {"detach", "abort"}
Ended == {"stopped", "failed"}
Looping == {"check", "poll", "drain", "callback", "decode", "warn"}

Init ==
  /\ ProbeInit
  /\ opts \in Options
  /\ phase = "start"
  /\ running = TRUE
  /\ expired = FALSE
  /\ printed = 0 /\ rejected = 0 /\ skipped = 0
  /\ seen = 0
  /\ summary = {}
  /\ printedAtSignal = 0
  /\ dropsAtPoll = 0

-----------------------------------------------------------------------------
(* Set-up.                                                                 *)

Goto(next) ==
  /\ phase' = next
  /\ UNCHANGED <<env, counts, report>>

MutLoad ==  \* attaches without writing the filter first
  /\ phase = "start"
  /\ Acceptable
  /\ Goto("attach")
  /\ UNCHANGED probeVars

(* check_prereqs, filter::config, open, and load, which fails for a ring   *)
(* of no bytes (the multiplication panics instead in a debug build).       *)
Load ==
  /\ phase = "start"
  /\ Acceptable
  /\ Goto("loaded")
  /\ UNCHANGED probeVars

MutApplyMap ==  \* tcp passes FILTER_EVENT_ALL as exec and open do
  /\ phase = "loaded"
  /\ filterMap' = Config(opts.filter, TcpEvents)
  /\ Goto("attach")
  /\ UNCHANGED <<attached, kernel>>

ApplyMap ==
  /\ phase = "loaded"
  /\ filterMap' = Config(opts.filter, Mask)
  /\ Goto("attach")
  /\ UNCHANGED <<attached, kernel>>

NextProgram == Programs(opts.tool)[Len(attached) + 1]

MutAttach ==  \* goes on when a program cannot be attached
  /\ phase = "attach"
  /\ Len(attached) < Len(Programs(opts.tool))
  /\ attached' \in {attached, Append(attached, NextProgram)}
  /\ Goto(IF Len(attached) + 1 = Len(Programs(opts.tool)) THEN "build" ELSE "attach")
  /\ UNCHANGED <<filterMap, kernel>>

(* One program at a time: events flow from the first one on.               *)
Attach ==
  /\ phase = "attach"
  /\ Len(attached) < Len(Programs(opts.tool))
  /\ attached' = Append(attached, NextProgram)
  /\ Goto(IF Len(attached) + 1 = Len(Programs(opts.tool)) THEN "build" ELSE "attach")
  /\ UNCHANGED <<filterMap, kernel>>

BuildRing ==
  /\ phase = "build"
  /\ Goto("check")
  /\ UNCHANGED probeVars

(* An error leaves run without a summary.                                  *)
SetupFails ==
  /\ phase \in {"start", "loaded", "attach", "build"}
  /\ Goto("abort")
  /\ UNCHANGED probeVars

-----------------------------------------------------------------------------
(* The loop.                                                               *)

MutShouldStopDeaf ==  \* RUNNING is not looked at
  \/ \E max \in opts.count : printed >= max
  \/ opts.duration /\ expired

ShouldStop ==
  \/ ~running
  \/ \E max \in opts.count : printed >= max
  \/ opts.duration /\ expired

MutCheck ==  \* --count ends the polling but not the loop
  /\ phase = "check"
  /\ Goto(IF ~running \/ (opts.duration /\ expired) THEN "summary"
          ELSE IF ShouldStop THEN "check" ELSE "poll")
  /\ UNCHANGED probeVars

Check ==
  /\ phase = "check"
  /\ Goto(IF ShouldStop THEN "summary" ELSE "poll")
  /\ UNCHANGED probeVars

(* epoll_wait reports the ring as readable, even if its first record is    *)
(* busy, ...                                                               *)
PollReady ==
  /\ phase = "poll"
  /\ ring # <<>>
  /\ Goto("drain")
  /\ UNCHANGED probeVars

PollReturns ==
  /\ phase' = "warn"
  /\ dropsAtPoll' = drops
  /\ UNCHANGED <<probeVars, env, counts, seen, summary>>

(* ... or 200 ms pass with nothing to wake it.                             *)
PollTimeout ==
  /\ phase = "poll"
  /\ ~HeadReady
  /\ PollReturns

(* The drain of ring_buffer__poll goes on until the ring is empty or its   *)
(* first record is busy.                                                   *)
DrainNext ==
  /\ phase = "drain"
  /\ HeadReady
  /\ Goto("callback")
  /\ UNCHANGED probeVars

DrainEnds ==
  /\ phase = "drain"
  /\ ~HeadReady
  /\ PollReturns

(* The callback loads RUNNING, and either returns at once ...              *)
CallbackSkips ==
  /\ phase = "callback"
  /\ ~running
  /\ Release
  /\ phase' = "drain"
  /\ skipped' = skipped + 1
  /\ UNCHANGED <<env, printed, rejected, report>>

MutCallbackGoesOn ==  \* RUNNING is not looked at
  /\ phase = "callback"
  /\ Goto("decode")
  /\ UNCHANGED probeVars

CallbackGoesOn ==
  /\ phase = "callback"
  /\ running
  /\ Goto("decode")
  /\ UNCHANGED probeVars

MutDecode ==  \* a reject is not counted
  /\ phase = "decode"
  /\ Release
  /\ phase' = "drain"
  /\ printed' = IF Decodes(ring[1]) THEN printed + 1 ELSE printed
  /\ UNCHANGED <<env, rejected, skipped, report>>

(* ... or decodes the record and prints it, or counts a reject.            *)
Decode ==
  /\ phase = "decode"
  /\ Release
  /\ phase' = "drain"
  /\ IF Decodes(ring[1])
     THEN printed' = printed + 1 /\ UNCHANGED rejected
     ELSE rejected' = rejected + 1 /\ UNCHANGED printed
  /\ UNCHANGED <<env, skipped, report>>

MutWarnOnDrops ==  \* off by one in the comparison
  /\ phase = "warn"
  /\ seen' = IF drops > seen + 1 THEN drops ELSE seen
  /\ phase' = "check"
  /\ UNCHANGED <<probeVars, env, counts, summary, dropsAtPoll>>

WarnOnDrops ==
  /\ phase = "warn"
  /\ seen' = IF drops > seen THEN drops ELSE seen
  /\ phase' = "check"
  /\ UNCHANGED <<probeVars, env, counts, summary, dropsAtPoll>>

PrintSummary ==
  /\ phase = "summary"
  /\ summary' = {[printed |-> printed, dropped |-> seen + rejected]}
  /\ phase' = "detach"
  /\ UNCHANGED <<probeVars, env, counts, seen, dropsAtPoll>>

(* On return, by whatever way, the links are dropped one by one, the first *)
(* one attached first; programs still attached go on reserving records.    *)
DropLink ==
  /\ phase \in Teardown /\ attached # <<>>
  /\ attached' = Tail(attached)
  /\ Goto(phase)
  /\ UNCHANGED <<filterMap, kernel>>

Return ==
  /\ phase \in Teardown /\ attached = <<>>
  /\ Goto(IF phase = "detach" THEN "stopped" ELSE "failed")
  /\ UNCHANGED probeVars

-----------------------------------------------------------------------------
(* The environment.                                                        *)

SignalHandler ==
  /\ running' = FALSE
  /\ printedAtSignal' = IF running THEN printed ELSE printedAtSignal

Signal ==
  /\ phase \notin Ended /\ running
  /\ SignalHandler
  /\ UNCHANGED <<probeVars, opts, phase, expired, counts, report>>

(* A signal that finds epoll_wait asleep: poll returns EINTR, and `?`      *)
(* leaves run without a summary.                                           *)
Interrupt ==
  /\ phase = "poll"
  /\ ~HeadReady
  /\ SignalHandler
  /\ phase' = "abort"
  /\ UNCHANGED <<probeVars, opts, expired, counts, report>>

Expire ==
  /\ opts.duration /\ ~expired
  /\ phase \notin {"start", "loaded", "attach"} \cup Ended
  /\ expired' = TRUE
  /\ UNCHANGED <<probeVars, opts, phase, running, printedAtSignal, counts, report>>

Collect ==
  \/ Load \/ ApplyMap \/ Attach \/ BuildRing
  \/ Check \/ PollReady \/ PollTimeout \/ DrainNext \/ DrainEnds
  \/ CallbackSkips \/ CallbackGoesOn \/ Decode \/ WarnOnDrops \/ PrintSummary
  \/ DropLink \/ Return

Next ==
  \/ ProbeNext /\ UNCHANGED collectorVars
  \/ Collect
  \/ SetupFails
  \/ Signal \/ Interrupt \/ Expire

Spec == Init /\ [][Next]_vars

(* The command line is turned down, or the kernel turns the ring down.     *)
Invalid == phase = "start" /\ ~Acceptable /\ SetupFails

(* A BPF program runs to its end; the collector's thread is scheduled; the *)
(* clock of --duration advances.                                           *)
Fairness ==
  /\ \A t \in Tasks : WF_vars(RunProgram(t) /\ UNCHANGED collectorVars)
  /\ WF_vars(Collect \/ Invalid)
  /\ WF_vars(Expire)

FairSpec == Spec /\ Fairness

-----------------------------------------------------------------------------
(* Properties.                                                             *)

SetupTypeOK ==
  /\ opts \in Options
  /\ filterMap \in {ZeroConfig, Config(opts.filter, Mask)}
  /\ attached \in Seq(AllPrograms)
  /\ Len(attached) <= Len(Programs(opts.tool))
  /\ \A i \in DOMAIN attached : \E j \in DOMAIN Programs(opts.tool) :
       attached[i] = Programs(opts.tool)[j] /\ (phase \notin Teardown => j = i)

RunTypeOK ==
  /\ phase \in {"start", "loaded", "attach", "build", "summary"}
                \cup Looping \cup Teardown \cup Ended
  /\ running \in BOOLEAN /\ expired \in BOOLEAN
  /\ printed \in Nat /\ rejected \in Nat /\ skipped \in Nat
  /\ seen \in Nat /\ printedAtSignal \in Nat /\ dropsAtPoll \in Nat
  /\ summary \subseteq [printed : Nat, dropped : Nat]

(* The values of every variable.                                           *)
TypeOK == SetupTypeOK /\ ProbeTypeOK /\ RunTypeOK

Handled == printed + rejected + skipped

(* Between reserving a record or failing to, a program run is pending.     *)
Pending == {t \in Tasks : pc[t] \in {"reserve", "drop"}}

(* Nothing is lost without a trace: every program run that passed the      *)
(* filters is pending, counted as a ring-buffer drop, still in the ring,   *)
(* printed, counted as a reject, or was discarded after a signal, and is   *)
(* only one of these.                                                      *)
Accounting ==
  admitted = Cardinality(Pending) + drops + Len(ring) + Handled

(* The consumer takes the records one by one in the order of reservation,  *)
(* whatever the order in which the tasks submit them.                      *)
InOrder == \A i \in DOMAIN ring : ring[i].seq = Handled + i

(* A program run that goes on to the ring belongs to a task and an event   *)
(* that the command line selects, from the first attached program on       *)
(* (README.md:275-280).  A task may change under the program: each of its  *)
(* attributes is the one that allowed() found when it looked at it, the    *)
(* parent before the name, and the two need not have met the filter at the *)
(* same time.                                                              *)
AdmitsOnlySelected ==
  [][\A t \in Tasks : pc[t] = "comm" /\ pc'[t] = "reserve" =>
       /\ Selects(opts.filter, [pid |-> PidOf[t], ppid |-> parent[t], comm |-> comm[t]])
       /\ opts.tool = "tcp" => cur'[t] \subseteq EventMask(opts.event)]_vars

(* After the first SIGINT or SIGTERM at most the event being handled is    *)
(* still printed, however many records the drain finds.                    *)
OneAfterSignal == ~running => printed <= printedAtSignal + 1

(* The summary owns up to every drop counted before the last poll returned *)
(* and to every reject, and never to more than there were.                 *)
SummaryHonest ==
  \A s \in summary :
    /\ s.printed = printed
    /\ s.dropped >= dropsAtPoll + rejected
    /\ s.printed + s.dropped + skipped + Len(ring) <= admitted

(* The loop runs with all programs of the subcommand attached or not at    *)
(* all, and no program outlives the run: a failure in the middle of the    *)
(* set-up and a signal undo what was attached.                             *)
AllOrNothing ==
  /\ phase \in Looping \cup {"summary"} => attached = Programs(opts.tool)
  /\ phase \in Ended => attached = <<>>

(* The ring is emptied again and again, unless the run ends: a busy record *)
(* at the head holds the others back only for a while.                     *)
Drains == []<>(ring = <<>> \/ phase \in Ended)

(* When the workload is finite, a signal ends the run, and so does the end *)
(* of --duration.                                                          *)
Stops == (~running \/ expired) ~> (phase \in Ended)

(* A run that gets past the load has a ring of the size asked for, though  *)
(* the multiplication wraps (src/main.rs:79 "Ring buffer size in MiB").    *)
RingAsAsked == phase \notin {"start", "abort", "failed"} => RingMiB(opts.buffer) = opts.buffer

(* The tasks, the ring, the drop counter and the collector together are a  *)
(* bounded channel: what is not refused is handed over exactly once,       *)
(* complete and in order, and refused only if its record does not fit.     *)
Chan == INSTANCE Channel WITH
  Capacity <- RingBytes, Sizes <- Sizes, accepted <- reserved, waiting <- Waiting,
  room <- Room, complete <- Submitted, taken <- Handled, refused <- Refusals, counted <- drops

Implements == Chan!Spec

-----------------------------------------------------------------------------
(* What the documents say and the code does not do.                        *)

(* src/main.rs:91 "Stop after N printed events".                           *)
CountExact == \A max \in opts.count : printed <= max

(* README.md:160 "prints one line per exec": of the records the collector  *)
(* decodes, one whose strings are printable is printed.                    *)
OneLinePerRecord ==
  [][rejected' > rejected => ~ring[1].named]_vars
=============================================================================
