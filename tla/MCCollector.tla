----------------------------- MODULE MCCollector -----------------------------
(* Instances of Collector: two tasks, one of them with the tgid 0 that the  *)
(* idle task reports for TCP events of a softirq.  A record takes 184       *)
(* bytes (exec), 176 (open) or 88 (tcp) of the ring.                        *)
EXTENDS Collector, TLC

CONSTANTS t1, t2

MCTasks == {t1, t2}
MCPidOf == (t1 :> 0) @@ (t2 :> 7)

Args(pid, up, name) == [pid |-> pid, ppid |-> up, comm |-> name]
NoArgs == Args(<<>>, {}, {})

RunWith(tool, args, event, count, duration, mb) ==
  [ tool |-> tool, filter |-> args, event |-> event, count |-> count,
    duration |-> duration, buffer |-> mb ]

Run(tool, args, event, count, duration) ==
  RunWith(tool, args, event, count, duration, 16)

ExecHook == Hook("trace_exec", "", "")
OpenHook == Hook("trace_open", "", "")
OpenatHook == Hook("trace_openat", "", "")
Connects == Hook("trace_tcp", "SYN_SENT", "ESTABLISHED")
Accepts == Hook("trace_tcp", "SYN_RECV", "ESTABLISHED")
Closes == Hook("trace_tcp", "ESTABLISHED", "CLOSE")
Listens == Hook("trace_tcp", "CLOSE", "LISTEN")

(* The whole life of a run: invalid options, partial attachment, drops,     *)
(* rejects, signals and limits.                                             *)
SafetyHooks == {ExecHook, OpenHook, OpenatHook, Connects, Closes, Listens}
SafetyOptions ==
  { Run("exec", NoArgs, {}, {}, FALSE),
    RunWith("open", Args(<<7>>, {}, {}), {}, {1}, FALSE, 2048),
    Run("tcp", Args(<<7, 0>>, {}, {}), {"CONNECT"}, {2}, TRUE),
    Run("open", Args(<<7, 0, 3>>, {}, {}), {}, {}, FALSE),
    Run("exec", Args(<<>>, {}, {"long"}), {}, {}, FALSE) }
  \cup {RunWith("exec", NoArgs, {}, {}, FALSE, mb) : mb \in {0, 24, 4096, 4097, 8192}}

(* Filters against tasks whose name and parent change under way.            *)
FilterHooks == {OpenatHook, Connects, Accepts, Closes}
FilterOptions ==
  {Run("open", Args(p, q, c), {}, {}, FALSE) :
     p \in {<<>>, <<7>>}, q \in {{}, {1}}, c \in {{}, {"sh"}}}
    \cup {Run("tcp", Args(p, {}, {}), e, {}, FALSE) :
            p \in {<<0>>, <<7>>}, e \in {{}, {"ACCEPT"}}}

(* One hook is enough for the documented promises that do not hold.         *)
ExecHooks == {ExecHook}
CountOptions == {Run("exec", NoArgs, {}, {1}, FALSE)}
TailOptions == {Run("exec", NoArgs, {}, {}, FALSE)}

OneComm == {"sh"}
TwoComms == {"sh", "vi"}
OnePpid == {1}
TwoPpids == {1, 2}
MCTyped == {"sh", "vi", "long"}
MCNames == {"sh", "vi"}
=============================================================================
