------------------------------- MODULE Filter -------------------------------
(***************************************************************************)
(* The filters of the command line and what the eBPF programs make of      *)
(* them: src/filter.rs builds a filter_config from --pid, --ppid, --comm   *)
(* and --event, and allowed() and trace_tcp() in src/bpf/tracelet.bpf.c    *)
(* interpret it in the kernel before anything touches the ring buffer.     *)
(*                                                                         *)
(* An Option is a set with at most one element.  --pid is the sequence of  *)
(* the PIDs given, empty when the option is absent (clap yields no empty   *)
(* list).  The u32 event mask is the set of the TCP events whose bit is    *)
(* set.  Names are the process names of 1 to COMM_MAX_LEN bytes; NoName is *)
(* the all-zero comm[16].                                                  *)
(***************************************************************************)
EXTENDS Naturals, Sequences

CONSTANTS MAX_PIDS,     \* capacity of filter_config.pids
          Names,        \* process names that fit comm[16] with its NUL
          NoName,       \* the empty name: comm[16] all zero
          Typed         \* what the user may type after --comm

ASSUME FilterAssumption ==
  /\ MAX_PIDS \in Nat
  /\ NoName \notin Names

TcpEvents == {"CONNECT", "ACCEPT", "CLOSE"}

Option(S) == {s \in SUBSET S : \A v, w \in s : v = w}
The(option) == CHOOSE v \in option : TRUE

FilterArgs == [pid : Seq(Nat), ppid : Option(Nat), comm : Option(Typed)]

EventMask(event) == IF event = {} THEN TcpEvents ELSE event

(* What config() accepts: it returns Err for too long a list and for a     *)
(* name that comm_bytes refuses.                                           *)
ValidArgs(args) ==
  /\ Len(args.pid) <= MAX_PIDS
  /\ args.comm \subseteq Names

Config(args, mask) ==
  [ event_mask   |-> mask,
    pid_count    |-> Len(args.pid),
    pids         |-> [i \in 1..MAX_PIDS |-> IF i <= Len(args.pid) THEN args.pid[i] ELSE 0],
    ppid         |-> IF args.ppid = {} THEN 0 ELSE The(args.ppid),
    ppid_enabled |-> args.ppid # {},
    comm         |-> IF args.comm = {} THEN NoName ELSE The(args.comm),
    comm_enabled |-> args.comm # {} ]

(* FilterConfig::default(), and the content of filter_map before apply_map *)
ZeroConfig ==
  [ event_mask   |-> {},
    pid_count    |-> 0,
    pids         |-> [i \in 1..MAX_PIDS |-> 0],
    ppid         |-> 0,
    ppid_enabled |-> FALSE,
    comm         |-> NoName,
    comm_enabled |-> FALSE ]

-----------------------------------------------------------------------------
(* The kernel side.  A task is [pid, ppid, comm], as the helpers           *)
(* bpf_get_current_pid_tgid, real_parent->tgid and bpf_get_current_comm    *)
(* see it when the program runs.                                           *)

MutPidAllowed(f, pid) ==  \* searches the unused entries of pids as well
  f.pid_count > 0 => \E i \in 1..MAX_PIDS : f.pids[i] = pid

PidAllowed(f, pid) ==
  f.pid_count > 0 => \E i \in 1..MAX_PIDS : i <= f.pid_count /\ f.pids[i] = pid

ParentAllowed(f, parent) == f.ppid_enabled => parent = f.ppid

NameAllowed(f, name) == f.comm_enabled => name = f.comm

(* allowed() compares the three one after the other.                       *)
Allowed(f, task) ==
  PidAllowed(f, task.pid) /\ ParentAllowed(f, task.ppid) /\ NameAllowed(f, task.comm)

(* What trace_tcp makes of a state change: the event to submit, if any.    *)
TcpEventOf(old, new) ==
  CASE new = "ESTABLISHED" /\ old = "SYN_SENT" -> {"CONNECT"}
    [] new = "ESTABLISHED" /\ old = "SYN_RECV" -> {"ACCEPT"}
    [] new = "CLOSE"                           -> {"CLOSE"}
    [] OTHER                                   -> {}

(* A hook is the program a tracepoint runs, with the two states of         *)
(* inet_sock_set_state.                                                    *)
Hook(prog, old, new) == [prog |-> prog, old |-> old, new |-> new]

EventOf(hook) ==
  CASE hook.prog = "trace_exec" -> {"EXEC"}
    [] hook.prog = "trace_tcp"  -> TcpEventOf(hook.old, hook.new)
    [] OTHER                    -> {"OPEN"}

(* With allowed() behind it, a program goes on to reserve a record if it   *)
(* has an event to report and, in trace_tcp, its bit is in the mask.       *)
Passes(f, event) ==
  event # {} /\ (event \subseteq TcpEvents => event \subseteq f.event_mask)

-----------------------------------------------------------------------------
(* The reference: what the options promise, in the words of their help.    *)

PidSelected(args, pid) ==
  args.pid # <<>> => \E i \in DOMAIN args.pid : args.pid[i] = pid

Selects(args, task) ==
  /\ PidSelected(args, task.pid)
  /\ \A p \in args.ppid : task.ppid = p
  /\ \A c \in args.comm : task.comm = c
=============================================================================
