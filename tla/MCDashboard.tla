---------------------------- MODULE MCDashboard -----------------------------
(* Instances of Dashboard: two tasks of different processes, one file and   *)
(* one TCP event.  In a ring of 256 bytes two TCP records fit (88 bytes     *)
(* each), but nothing beside the record of an exec (184 bytes).             *)
EXTENDS Dashboard, TLC

CONSTANTS t1, t2

MCTasks == {t1, t2}
MCPidOf == (t1 :> 7) @@ (t2 :> 8)

Args(pid, name) == [pid |-> pid, ppid |-> {}, comm |-> name]
AllOptions == {Args(<<7, 8>>, {}), Args(<<7, 8, 9>>, {})}
OneOption == {Args(<<>>, {})}

MCHooks == {Hook("trace_exec", "", ""), Hook("trace_tcp", "SYN_SENT", "ESTABLISHED")}
OneHook == {Hook("trace_exec", "", "")}
OneComm == {"sh"}
TwoComms == {"sh", "vi"}
OnePpid == {1}
MCTyped == {"sh", "vi", "long"}
MCNames == {"sh", "vi"}
=============================================================================
