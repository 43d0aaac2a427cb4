# A formal model of tracelet

tracelet traces `exec`, `open`, TCP state changes and syscall latencies with
eBPF programs.  These TLA+ modules model what the programs and the collectors
do to the state they share; TLC checks them on small instances, and TLAPS
proves the main results for every value of the constants.  Paths are relative
to the repository.

## 1. The system

| Component | State | Operations | Interacts through |
|---|---|---|---|
| event programs, `src/bpf/tracelet.bpf.c` | ring buffer `events`, `drops`, `filter_map` | `trace_exec`, `trace_open*`, `trace_tcp`; `allowed`, `count_drop` | the maps; every CPU runs them at once |
| filters, `src/filter.rs`, `tracelet-common/src/filter.rs` | `filter_config` | `config`, `apply_map`; `allowed` in the kernel | `filter_map` |
| collectors `src/exec.rs`, `open.rs`, `tcp.rs` | links, `printed`, `decode_rejects`, `drops_seen` | set-up, `should_stop`, `poll` with callback, `warn_on_drops`, summary | ring buffer, `drops`, `RUNNING` |
| run control, `src/main.rs` | `RUNNING` | signal handler, `should_stop` | atomic flag |
| latency programs, `src/bpf/tracelet.bpf.c` | `latency_start`, `latency_hist`, `drops[1]` | `syscall_enter`, `syscall_exit` | the maps |
| latency collector, `src/latency.rs` | links, last histogram, `drops_seen` | attach one by one, `read_histogram`, print, sleep | the maps, `RUNNING` |
| decoders, `src/events.rs`, `tracelet-common/src/event.rs` | none | `decode_*`, `printable`, `boot_time_ns`, `wall_time` | called by the callbacks |
| histogram summary, `src/hist.rs` | none | `summarize`, `percentile`, `upper_bound_ns` | called by latency and dashboard |
| dashboard thread, `src/collector.rs` | `Shared` under a mutex | `spawn`, `collect`, `push`, `refresh_latency` | ring buffer, mutex |
| dashboard interface, `src/dashboard.rs` | `Ui` | key actions, `Snapshot::take`, draw | mutex, `RUNNING` |
| output, CLI, prerequisites, errors | none | formatting, parsing, reads of `/sys` | |

What is hard, and what makes each part correct:

- *Event programs and collectors.*  Programs of several CPUs reserve and submit
  in different orders while one thread drains; the ring can be full; a signal
  can arrive at any point of a drain.  Correct means that every event that
  passed the filter is printed or appears in a counter, that the consumer takes
  records in order and complete, that a run ends when it is told to and leaves no
  program attached, and that its summary does not understate the losses.
- *Filters.*  A filter is written before anything is attached; what the kernel
  compares (a padded array, flags, zero-filled names) must mean what the options
  say, and it looks at attributes of tasks that change under way.
- *Latency.*  Entries are stored per thread, not per syscall, and programs are
  attached one by one; the cells are updated by many threads and read one by one;
  the maximum is updated without an atomic operation.  Correct means that no
  sample is lost or put in the wrong cell, that each is measured against its own
  entry, and that what is printed is cumulative.
- *Dashboard.*  Two threads and a mutex; failure of one of them; aggregates that
  grow; lists that change under a selection.  Correct means that the counts of a frame
  belong to the same events, that pausing loses nothing, that a frame and the end come, and
  that keys move the highlight as documented.
- *Arithmetic.*  A multiplication of `--buffer` in 32 bits, percentiles of few samples and of the
  overflow bucket, two clocks that are added.

`PROJECT.json` lists the components with their status and the hazards at their
lines.

## 2. The modules

| Module | Models | Extends |
|---|---|---|
| `Filter` | `config`, `apply_map`'s value, `allowed`, the event selection of `trace_tcp`; the reference meaning of the options | |
| `Channel` | the abstract specification of the event path: a channel of bounded room for events of several sizes, that refuses and counts | |
| `Probes` | the event programs, the ring buffer and its maps, the tasks of the machine | `Filter` |
| `Arithmetic` | powers of two and sums over sets | |
| `SumProofs` | lemmas about these two, and the inductions they rest on | `Arithmetic` |
| `ProbesProofs` | theorems: the kernel's filter, and that of `trace_tcp`, is the reference meaning; lemmas about `Probes` that both of its users need | `Probes` |
| `Collector` | one run of `exec`, `open` or `tcp` with its programs, signals and limits; its properties | `Probes`, `Arithmetic` |
| `CollectorProofs` | the invariants and the theorems on `Collector`, among them that it implements `Channel` | `Collector`, `ProbesProofs`, `SumProofs` |
| `Histogram` | `src/hist.rs`: the line of a snapshot, with its percentiles | `Arithmetic` |
| `Latency` | the latency programs, the threads and `latency::run`; its properties | `Filter`, `Histogram` |
| `LatencyProofs` | types, entries, snapshots, maximum, pairing: invariants and theorems on `Latency` | `Latency` |
| `LatencySums` | theorems: `log2_slot` is the logarithm, the buckets and sums lose nothing, the printed lines fit the durations | `LatencyProofs`, `SumProofs` |
| `Dashboard` | the two threads of the dashboard, their mutex and what it protects; its properties, among them a reference definition of the aggregates | `Probes` |
| `DashboardProofs` | type correctness, no missed record, the drop counter, and that `Dashboard` implements `Channel` | `Dashboard`, `ProbesProofs` |
| `DashboardShared` | theorems: `Shared` and every frame are the aggregate of the events pushed | `DashboardProofs` |
| `Panes` | the two lists of the dashboard that scroll: order, cut, selection, highlight | |
| `PanesProofs` | the invariants and the theorems on `Panes` | `Panes` |
| `Clock` | the time of day at the start of a line | |
| `MCCollector`, `MCLatency`, `MCDashboard`, `MCPanes` | instances for TLC | the module named |

An operator `MutX` is `X` with a plausible mistake of the code.  No definition
uses it; `PROJECT.json` pairs each property with the mistake it catches, and the
run of the property then fails.

### From the code to the model

*Channel.*  Events are accepted (numbered from 1), completed in any order, taken in order
once complete, or refused when there is no room for one of their size; refusals are counted later.
An event's size is taken from the room when it is accepted and given back when it is taken.
`Collector` implements it with `Capacity <- RingBytes`, `accepted <- reserved` (records reserved),
`waiting <- Waiting` and `room <- Room` (the sizes of the records in the ring and the bytes they leave),
`complete <- Submitted` (the numbers of the records in the ring that were submitted),
`taken <- Handled` (callbacks that returned), `refused <- Refusals` (counted or about to be) and
`counted <- drops`; `Dashboard` with the same mapping but for `taken`, the rows pushed and the records
that the decoder refused.

*Probes.*  A task runs an attached program in the steps that other CPUs and the
collector can come between: `Enter` (`allowed` reads the PID and the parent), `Admit` or `TurnAway`
(`allowed` reads the name, `trace_tcp` looks at the event mask), `Reserve` or `ReserveFails`, then
`Submit` or `CountDrop`.  `pc` holds the step; `parent` remembers, for a property, the parent that the
filter saw.  Between any two steps the task may get another name or parent (`SetComm`, `Reparent`, the
kernel's).  The filling of a record is one step with its submission because nobody reads a
record that is not submitted: the consumer stops at a busy head (`HeadReady`), which is the kernel's and libbpf's doing.
`Reserve` and `CountDrop` are one kernel operation each.  The ring is counted in bytes, between the
positions `produced` and `consumed`: a record takes 8 bytes of the kernel's header, 8 of `record_header` and
168, 160 or 72 of its event (`SizeOf`), so a ring that refuses an exec may still take a TCP event.  A record is
reduced to its order (`seq`), its end, task, event, name and parent, and to two bits:
`named` (name and path are printable ASCII) and `tail` (the bytes behind the
NUL of the path are).  `TailOf` says what those bytes can be: zero in the first lap of the
ring, anything later.

*Collector.*  `phase` is the point `run` has reached: `start` → `loaded` →
`attach` → `build` → `check` → `poll` → `drain` → `callback` → `decode` … →
`warn` → `check`, then `summary` → `detach` → `stopped`, or `abort` → `failed`.  `Attach` takes one
program at a time, and so does `DropLink` when `run` returns: the vector of links is dropped from its first
element on, and the programs still attached go on reserving.  The callback is two steps, because `RUNNING` is loaded before the
event is printed and a signal fits between.  `Interrupt` is a signal that finds
`epoll_wait` asleep: libbpf returns `EINTR` and `?` leaves `run` without a
summary.  `PollReady` does not ask for a submitted head: epoll reports a ring
with unread bytes.  `BufferAccepted` and `RingMiB` are `parse_buffer_mb` and the `u32`
multiplication behind it, with its width.  `skipped`, `admitted`, `reserved`, `printedAtSignal` and
`dropsAtPoll` are history variables that only properties and bounds read.

*Latency and Histogram.*  A thread is `user`, `store` (in the entry program), `inside` the
syscall, or at `slot`, `sum`, `max`, `setmax` of the exit program.  `latency_hist` is
the flat array of the code with its index arithmetic.  The reader
takes one cell per step.  `links` grows by one program per `Attach` and shrinks by one per `DropLink`, the
program of an entry before that of its exit, while threads run.  `Log2Slot` is the cascade of `log2_slot`: six
comparisons and shifts (`Reaches`, `Shifted`, `Found`); that it is a logarithm is a theorem.  `began` is the history of all durations measured; `Line` is what `summarize` makes of the
last snapshot, so that the buckets, the cell-by-cell read and the percentiles are compared
with those durations in one property (`LineFits`).

*Dashboard.*  `phase` is the point of the collector thread (`none` before `spawn`, then
`load` → `loaded` → `attach` → `build` → `check` → `poll` → `drain` → `lock` → `totals` → `tallies` →
`row` → `drain` … → `copy` → `warn` → `refresh` → `check`; at the end `detach` → `done`, `abort` → `failed` or
`killed`), `ui` that of the main thread.  `Shared::push` is three steps with the mutex held,
so that the mutex is what keeps a frame consistent; the copy of the drop counter and
`refresh_latency` are one step each that needs the mutex free.  `TakeSnapshot` takes the
mutex and `Draw`, after the frame, gives it back, as the guard's scope has it.  `Exit` is the return
of `event_loop`: the process ends and the other thread with it, wherever it is; the kernel then drops the
links, one by one as `collect` does on its own return (`DropLink`).  `pushed` is
the history of all rows, `Aggregate` the reference for what `Shared` should hold after them.
`seq` of a row stands for its time and details.

*Panes.*  A snapshot is one step here, because `FramesAreConsistent` shows that it is taken from one
state of `Shared`.  `Move` is `scroll`, `jump` and the saturating arithmetic of ratatui's `ListState`;
`Highlight` is what its widget does with a row number beyond the list, on a clone of the state.
`Sorted` is the result of `sort_by`, whatever the algorithm: PIDs differ, so there is one such list.

*Clock.*  The two clocks of the kernel (one stands still in a suspend), the offset read at the start
of a run, and the sum that is printed.

### Abstractions

- An option is a set with at most one element, a name a model value; names that
  do not fit `comm[16]` are those of `Typed \ Names`.
- Addresses, ports, output text and the JSON form do not occur in a property
  and are left out.  Time stamps are in `Clock` only; the programs read the clock after the
  reservation, so stamps can be out of order with the records, and nothing promises otherwise.
- Lookups in array maps do not fail; the failure branches after them are left out.
- Counters are unbounded: they are `u64`.  The width is kept where a value as typed can reach it
  (`RingMiB`, 2^32 bytes) and for row numbers (`USIZE_MAX`).
- `MaxEvents`, `MaxCalls`, `MaxTime` and `MaxUptime` bound the workload in the guards of
  `Enter`, `Event`, `SysEnter`, `Tick` and `Suspend`.

## 3. The runs

| Run | Question | Bounds |
|---|---|---|
| `collector_run` | accounting, order, quiet after a signal, honest summary, all programs attached or none, ring of the size asked for; records drain, signals and `--duration` end the run; `Channel` is implemented | 2 tasks (one with PID 0), ring of 512 bytes, 4 events, 10 command lines (four invalid, three of other buffer sizes), 6 hooks, fairness; 276 000 states |
| `collector_filter` | only what is selected reaches the ring | names and parents change at any moment, 12 combinations of filters, hooks of all event kinds, ring of 256 bytes, 2 events; 850 000 states |
| `collector_count` | *violated*: `--count N` stops after N events | |
| `collector_tail` | *violated*: one line per exec | |
| `latency_counts` | no sample lost or misplaced, drops and overwrites counted, exact maximum without a race, growing snapshots, right sums, maxima and percentiles | 2 threads, start map of 1, 2 buckets, 5 instants, 2 calls; 670 000 states |
| `latency_paired` | exits are measured against their own entry when one syscall is traced; the cells of two syscalls are kept apart; a signal or `--duration` ends the loop | 2 syscalls, 2 threads, with and without PID filter, an invalid command line, fairness; 360 000 states |
| `latency_unpaired` | *violated*: only paired events are counted | 2 syscalls |
| `dashboard` | `Shared` is the aggregate of the events pushed, frames are consistent, nothing is missed, the drop counter lags one poll; events reach the screen, a signal ends the program; `Channel` is implemented | 2 tasks of 2 processes, a file and a TCP event, ring of 256 bytes, stream of 1 row, 2 events, any number of keys, an invalid command line, fairness; 390 000 states |
| `dashboard_lock` | *violated*: the lock is dropped before rendering | |
| `panes` | `home` and `end` hold in every frame, the list of processes is the top of the counts | 3 processes for 2 rows, stream of 2, pages of 2, row numbers up to 5, 4 events; 330 000 states |
| `panes_end` | *violated*: arrows scroll one row | |
| `clock` | *violated*: the time printed is the time of day | a day of 24 ticks, 3 ticks of uptime |

Why the bounds suffice.  Two tasks are needed for submission out of order and
for racing stores; a third adds no new relation between two records.  A ring of 512 bytes holds
two exec records of 184 bytes (176 for an open) and refuses a third, but has room for a TCP record of 88: a busy head with a finished record
behind it, a refusal that depends on the size, and, with the third and fourth event, the second lap and the
freed place.  PID 0 and 7 with
`MAX_PIDS = 2` leave a padding entry that equals a real PID.  The buffer sizes 24 and 4097
are no powers of two, 0 is none, 4096 and 8192 wrap to 0 bytes.  Two buckets and
five instants (durations 0 to 4) put a duration in each bucket and one beyond the last; a start map
of one is full as soon as both threads are inside.  Two calls are enough for a stale
entry that is overwritten or hit.  For the dashboard a stream of one row overflows with the second
event, a ring of 256 bytes refuses it when a file event is there and not yet taken, and takes it after a TCP event if it is one as well,
and the two events can belong to one process or to two; keys may be pressed without a bound.  For the panes, three processes and two
rows leave one out, four events overflow the stream and turn the order of two processes round, and row
numbers up to 5 leave room beyond the last row for `end`.  Where TLAPS has proved a
property (section 4), the bounds no longer matter.

The deadlock check is off in every configuration: a run ends, and the bounds stop the workload.

Fairness.  A BPF program runs to its end once started (it cannot block), so
`RunProgram` is weakly fair for each task; nothing makes a task hit a
tracepoint, be renamed or send a signal, so those have no fairness.  The collector's thread is
scheduled, `poll` has a timeout of 200 ms and `sleep` ends, hence weak fairness of
`Collect`; a command line that `config` refuses ends the run (`Invalid`); the clock advances, hence of
`Expire` and `Second`.  `Stops` speaks of finite workloads: a drain
goes on as long as records arrive, and with `MaxEvents` they cease.  For the dashboard less is assumed: its
collector thread is scheduled (`Collect`), the thread is started (`Spawn` or `Invalid`), the interface is scheduled
(`Interface`), a second passes (`Second`), and nothing of the BPF programs.  Only the interface's wait for the
mutex (`TakeSnapshot`) is strongly fair: the standard library does not promise it, but the collector thread
leaves the mutex free for most of its 200 ms, so a waiting interface finds it free again and again and the scheduler
lets it run.  Keys need no bound and no fairness: a key draws a frame itself.

## 4. What is proved

All of it for any finite set of tasks or threads, any ring, map, stream and histogram size, any
command lines and any bound on the workload, from the named assumptions on the
constants (`FilterAssumption`, `ProbesAssumption`, `CollectorAssumption`, `HistogramAssumption`,
`LatencyAssumption`, `DashboardAssumption`, `PanesAssumption`: shapes of command lines, finitely many tasks, natural
sizes, 1 to 64 buckets, at least one syscall and row, no process with the all-zero name, and lists of 512 and 10 rows that a
`usize` can number).  TLC evaluates
them on every run.  Each invariant was found to hold by TLC before it was proved.

*Filters.*  For every command line, every filter that `config` builds
and every task, `Allowed` is `Selects` (`AllowedIsSelects`), and `trace_tcp` goes on to reserve a record
exactly for a selected task and a state change that is an event, of `--event` if given (`TraceTcpSelects`).

*Sums and powers.*  `SumProofs` starts from two inductions that are stated with sets, not with predicates, and
follow from the well-foundedness of `<` on the naturals (`Least`): a set with 0 and every successor
has all numbers (`Inductive`), and a family with `{}` that takes in one element at a time has every finite set
(`SetInductive`).  From them come the equations of `Pow2`, its growth, and those of `SumOver`: one
element more, one value changed, disjoint parts (`SumAdd`, `SumChange`, `SumDisjoint`).  TLAPS does not take a recursive
function's or a fold's defining equation for granted: that a function or partial sum with it exists and is
the only one is part of the proof.

*Collector.*  Every safety property of `collector_run` and `collector_filter` is a theorem of `Spec`:

1. `TInv` strengthens `TypeOK`: in `callback` and `decode` the head of the ring
   exists and is submitted (`HeadReady`), a task at `reserve` has one event to
   report, and a non-empty list of links means that the filter of the command line is in the map.  Without the first `Decode` could take the tail of an
   empty ring.  `LInv` adds that the parent remembered for a task at the name comparison has passed the
   filter; with the meaning of the filter's parts it is what `FiltersHold` needs.
2. `AInv` joins `Accounting` with `Numbered(ring, reserved, Handled)`: the records of the ring are
   numbered without a gap from the first one not handled to the last one reserved.  A new record's
   number is right only because of the second half.
3. `SInv` adds to `OneAfterSignal` that a run past the check of `RUNNING` in a callback is the
   only one that may print, so that at most one event is on its way when the signal comes.
4. `DInv` orders the counters (`dropsAtPoll`, `seen` and `drops`) by phase; with `Accounting` it
   bounds the summary from both sides.
5. `BInv`: past the load the size asked for was accepted and its product is not zero bytes.  An accepted size is a power of
   two, so it is below 4096 or a multiple of it (`NoWrap`); the second gives zero, hence `RingIsAsAsked`.
   It is the power of two that matters: 4097 would wrap to a ring of 1 MiB.
6. `OInv` adds to `AllOrNothing` (`AttachedAllOrNone`) that all programs of the command are attached when the
   ring is about to be built.

*Refinement.*  `CollectorIsChannel` and `DashboardIsChannel`: `Numbered` gives that the record at the head has
number `taken + 1`, so that releasing it is `Take` and gives back the room of its size, that a reservation is `Accept` of the
next number, and that a failed one happens with no room for a record of that size.  `ProbesProofs` shows once, for both, that a step of a
program accepts, completes, refuses, counts or does none of these (`ProbesStep`).

*Dashboard.*  `TInv` holds that the mutex belongs to the thread inside its critical section and that the
head of the ring stays submitted while the callback waits for the mutex (`HoldsRecord`); with `Numbered`
it gives `NoneMissed`.  `Lags` orders what is shown, shared, seen and counted by phase (`DropsLag`): the counter of `Shared` is at most
one poll old; how old a frame is depends on the interface, a second or as long as a pause.
`DashboardShared` proves that `Shared` is the aggregate: its invariant `AggInv` says, for the middle of
`Shared::push`, which fields already count the row at the head of the ring and which do not (`Staged`).
The lemmas `TotalsOneMore`, `DistributionOneMore`, `ProcessesOneMore` and `RecentOneMore` say how each
part of the reference changes with one more row; they hold for any list of rows.

*Latency.*  `TInv` adds to `TypeOK` that no program remembers a time that is still to come, hence no
negative duration.  `EntersCounted` follows the domain of `latency_start`.  `SnapshotsNeverShrink` rests on
`GInv`, what was printed ≤ what was read ≤ what the map holds, and on `CellDistinct`: the one cell that a
plain store can lower is nobody's bucket and nobody's sum.  `MaximumExact` rests on `XInv`: unless two stores raced, each
measured duration is at most the maximum or belongs to a thread that has yet to compare, and a thread
about to store saw a smaller maximum.
`OneSyscallIsPaired` assumes `OneSyscall`, command lines with one syscall and no `--comm`, the case the README of the
program is right about.  `RInv` says why: while a program is attached, a thread in `latency_start` passes the
filter, which cannot change any more, so its next call of the traced syscall replaces the old entry; and
with one syscall the entry program is attached before the exit program.  It is also detached before it, so the property
ends where `run` returns and drops the links; nothing is printed after that.
`SlotIsFloorLog2`: a step of the cascade halves the range of exponents still in question (`Cascade`), which needs that
`Pow2` turns sums into products (`Pow2Sum`) and that a shift is a division rounded down (`DivideLe`); six steps leave
one of 64.  `NothingIsLost` states `Conserved`, for any number of threads and durations.  It is inductive with `TInv` (`KInv`): an exit adds
one duration to the history and one thread on its way, `AddSlot` and `AddSum` move it from the threads to
its cell, and no other step touches either side, because `CellOf` gives different syscalls and slots different cells
and a thread stores a maximum in its own `MaxCell` only.  `PrintedLinesFit` combines it with arithmetic: the buckets up to
a slot count the durations in them (`SeenIsUpto`), which are those below its bound (`BelowIsUpto`, from the cascade), and
the rank, rounded up, is reached by a count exactly if the count is that share of all (`RankIsShare`); the line's sum comes from `Conserved` and its
maximum from `XInv`.

*Panes.*  `CountsOK` (finitely many processes, no count beyond the number of events) makes `Before` a strict total order and
`Sorted` a list of every process once: the place of a process is the number of those before it (`SortedExists`, `SortedList`); that its cut is the top of the counts
(`TopIsTheHighest`) follows for each frame.  `FrameInv` is the invariant of the selection: a pane last moved by `home` has row 0, one
last moved by `end` row `USIZE_MAX`, and the frame on the screen highlights accordingly.  Neither half is inductive
alone: frames are drawn later, from rows that the keys left.

Every invariant and every action property that a passing run checks is the subject of a theorem.  Model-checked only: the liveness properties
(`Drains`, `Stops`, `Refreshes`), since fairness is stated with `ENABLED`, which the provers do not handle; and the
six violations, which are counterexamples of an instance.

## 5. What is not modelled

- The generated `src/bpf/vmlinux.h` (kernel types) holds nearly all lines of the C sources and no behaviour of the
  program, so a share of the lines of those files says little; of `tracelet.bpf.c` every program is modelled.
- Of `src/bpf/tracelet.h` the event kinds, the fields of the records, the number of syscalls and of cells; its sizes and offsets
  are layout, which the build checks on both sides.
- Output formatting and JSON escaping (character by character), `format_ns`, the layout and colours of the panes.
- clap's declarations and `parse_duration`, a multiplication of a number as typed (its overflow is listed as a hazard);
  the check of `--buffer` is modelled for the event collectors and not repeated for the other two commands.
- The latency histograms in `Shared`: the dashboard attaches no latency program, so they stay zero.
- The window in which a snapshot is torn (a bucket read before the sum that belongs to it): the model has it, no property
  forbids it, since no document does.  `SnapshotsGrow` is about each cell, `LineFits` about snapshots that are up to date.
- Panics and a poisoned mutex: nothing that runs in the collector thread with the mutex held can panic.
- A drain that never ends because the workload never does: the models' workloads are finite.
- Reads of `/sys`, conversions of errors, build files, scripts, benchmarks.

## 6. Disagreements between the code and what is said of it

Shown by a run:

- `--count N` ("Stop after N printed events") is compared between polls; one poll prints
  everything that is ready (`CountExact`).
- `printable` examines the whole `filename[128]`, whose bytes behind the NUL the programs never
  write; from the second lap of the ring on, an event with a printable path can be
  rejected (`OneLinePerRecord`).
- "The histogram counts only paired enter/exit events" fails in the attachment window when
  several syscalls are traced (`OnlyPaired` in `latency_unpaired`); it holds for one syscall
  without `--comm` (`latency_paired`, proved as `OneSyscallIsPaired`).
- "The TUI drops the lock before rendering" (README.md:488-489): the guard lives until the frame is
  drawn (`DrawsUnlocked`).  No event is lost through it (`NothingMissed`), but the ring
  fills while the terminal is slow.
- "Arrows scroll one row" (README.md:477): after `end`, `up` counts down from the greatest `usize` and
  the highlight stays on the last row (`UpScrollsOneRow`).
- The time of an event is printed as the sum of two uptimes; the test of `wall_time` passes the time of day of the
  boot (`PrintedIsWallClock`).

Met while reading:

- The name that `--comm` selects by is read before the name that is printed (`tracelet.bpf.c:78` and 114): a task
  renamed in between appears under its new name.
- "Instead of a partial run" (README.md:410-411): the dashboard loads in a thread, whose failure
  does not stop the interface (`collector.rs:113`).
- A task passes the filter if its parent matched when it was read and its name matched when it was read, later
  (`tracelet.bpf.c:70` and 78); it need never have had both at once.  `AdmitsOnlySelected` says just that.
- README.md:495-498 lists as a limitation that `home` and `end` "clamp back to the newest/oldest rows only as new
  events arrive".  The code clamps whenever it draws, events or not: `HomeAndEndStay` holds for every frame.  What is left of the
  limitation is the row number that `end` leaves behind (`UpScrollsOneRow`).
- README.md:261 says that samples are "silently" not recorded when the start map is full; the code
  counts them in `drops[1]` and warns, as the model has it.
- README.md:227 gives the histogram map 3 * 32 cells; the code has 3 * 34, as the model has it.
- README.md:255-256 puts the lower bound of the overflow bucket at 2^32 ns; bucket 31 begins at 2^31 ns.
  With README.md:254 a duration of 2.1 s would be reported as 4.29 s; it is below 2^31 ns and is reported as 2.15 s.
- The dashboard's latency pane (README.md:474) stays empty, because no latency program is attached.
