------------------------------ MODULE MCLatency ------------------------------
(* Instances of Latency.                                                    *)
EXTENDS Latency, TLC

CONSTANTS t1, t2

MCThreads == {t1, t2}
MCPidOf == (t1 :> 7) @@ (t2 :> 8)
MCPpidOf == (t1 :> 1) @@ (t2 :> 1)

Args(pid, name) == [pid |-> pid, ppid |-> {}, comm |-> name]
Run(args, syscall, duration) == [filter |-> args, syscall |-> syscall, duration |-> duration]

(* Everything traced, for as long as the threads go on.                     *)
CountOptions == {Run(Args(<<>>, {}), {}, FALSE)}

(* One syscall of several, filters that do not change, invalid options.     *)
PairedOptions ==
  { Run(Args(<<>>, {}), {1}, FALSE), Run(Args(<<7>>, {}), {0}, TRUE),
    Run(Args(<<1, 2, 3>>, {}), {}, TRUE) }

OneComm == {"sh"}
TwoComms == {"sh", "vi"}
MCNames == {"sh", "vi"}
=============================================================================
