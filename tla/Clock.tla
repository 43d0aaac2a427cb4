-------------------------------- MODULE Clock --------------------------------
(***************************************************************************)
(* The time at the start of a line.  A program stamps its event with       *)
(* bpf_ktime_get_ns, which stands still while the machine is suspended;    *)
(* the collector adds the offset it read once with boot_time_ns and prints *)
(* the result as a time of day.  Time is in ticks, DAY of them in a day;   *)
(* nobody sets the clock of the machine while it runs.                     *)
(***************************************************************************)
EXTENDS Naturals

CONSTANTS DAY,       \* ticks in a day
          MaxUptime  \* bound: ticks since the boot

VARIABLES
  booted,  \* the time of day of the boot
  uptime,  \* CLOCK_BOOTTIME: ticks since the boot
  asleep,  \* how many of them the machine was suspended
  offset,  \* boot_offset_ns, once the collector has read it
  event,   \* ktime_ns of an event on its way, and the time of day it happened
  line     \* the time printed for the last event, and the one it happened

vars == <<booted, uptime, asleep, offset, event, line>>

Init ==
  /\ booted \in 0..(DAY - 1)
  /\ uptime \in 1..MaxUptime /\ asleep = 0
  /\ offset = {} /\ event = {} /\ line = {}

TimeOfDay == (booted + uptime) % DAY

ktime_get_ns == uptime - asleep

Tick ==
  /\ uptime < MaxUptime
  /\ uptime' = uptime + 1
  /\ UNCHANGED <<booted, asleep, offset, event, line>>

Suspend ==
  /\ uptime < MaxUptime
  /\ uptime' = uptime + 1 /\ asleep' = asleep + 1
  /\ UNCHANGED <<booted, offset, event, line>>

(* boot_time_ns: CLOCK_BOOTTIME, or 0 when the clock cannot be read.       *)
Start ==
  /\ offset = {}
  /\ \E read \in {uptime, 0} : offset' = {read}
  /\ UNCHANGED <<booted, uptime, asleep, event, line>>

Stamp ==
  /\ offset # {} /\ event = {}
  /\ event' = {[ktime |-> ktime_get_ns, at |-> TimeOfDay]}
  /\ UNCHANGED <<booted, uptime, asleep, offset, line>>

clock_time(ns) == ns % DAY
wall_time(ktime, boot_offset) == clock_time(boot_offset + ktime)

PrintLine ==
  /\ \E ev \in event, boot_offset \in offset :
       line' = {[shown |-> wall_time(ev.ktime, boot_offset), at |-> ev.at]}
  /\ event' = {}
  /\ UNCHANGED <<booted, uptime, asleep, offset>>

Next == Tick \/ Suspend \/ Start \/ Stamp \/ PrintLine

Spec == Init /\ [][Next]_vars

-----------------------------------------------------------------------------
(* What a test says and the code does not do.                              *)

(* The time printed is that of the event on the clock on the wall.  The    *)
(* test formats_wall_time (src/events.rs:266-270) passes the time of day   *)
(* of the boot as the offset, and expects it back for an event at boot;    *)
(* boot_time_ns reads how long ago the boot was.                           *)
PrintedIsWallClock == \A printed \in line : printed.shown = printed.at
=============================================================================
