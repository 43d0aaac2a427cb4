------------------------------ MODULE Channel -------------------------------
(***************************************************************************)
(* What the event path of tracelet promises, without tasks, threads or     *)
(* memory: a channel of bounded room that may refuse an event but never    *)
(* loses one it has accepted, never hands one over twice, too early or out *)
(* of order, gets the room of an event back when it is handed over, and    *)
(* whose count of refusals never runs ahead of them.                       *)
(*                                                                         *)
(* Events are numbered in the order in which they were accepted, and have  *)
(* different sizes: whether the channel is full depends on the event.      *)
(* Modules Collector and Dashboard are shown to implement Spec.            *)
(***************************************************************************)
EXTENDS Naturals, Sequences

CONSTANTS Capacity,   \* the room of an empty channel; it is never used up
          Sizes       \* the sizes an event can have

VARIABLES
  accepted,   \* number of events accepted so far
  waiting,    \* the sizes of those not yet taken, oldest first
  room,       \* what they leave of Capacity
  complete,   \* those of them whose content is complete
  taken,      \* number of events taken so far
  refused,    \* number of events refused so far
  counted     \* number of refusals that the drop counter shows

vars == <<accepted, waiting, room, complete, taken, refused, counted>>

Init ==
  /\ accepted = 0 /\ taken = 0 /\ waiting = <<>> /\ room = Capacity /\ complete = {}
  /\ refused = 0 /\ counted = 0

Accept ==
  /\ \E size \in Sizes :
       /\ size < room
       /\ room' = room - size
       /\ waiting' = Append(waiting, size)
  /\ accepted' = accepted + 1
  /\ UNCHANGED <<complete, taken, refused, counted>>

(* The producers complete their events in any order.                       *)
Complete ==
  /\ \E n \in (taken + 1)..accepted : n \notin complete /\ complete' = complete \cup {n}
  /\ UNCHANGED <<accepted, waiting, room, taken, refused, counted>>

(* The oldest event is taken, once it is complete.                         *)
Take ==
  /\ taken + 1 \in complete
  /\ taken' = taken + 1
  /\ complete' = complete \ {taken + 1}
  /\ waiting' = Tail(waiting)
  /\ room' = room + Head(waiting)
  /\ UNCHANGED <<accepted, refused, counted>>

(* An event is refused only when there is no room for one of its size.     *)
Refuse ==
  /\ \E size \in Sizes : size >= room
  /\ refused' = refused + 1
  /\ UNCHANGED <<accepted, waiting, room, complete, taken, counted>>

Count ==
  /\ counted < refused
  /\ counted' = counted + 1
  /\ UNCHANGED <<accepted, waiting, room, complete, taken, refused>>

Next == Accept \/ Complete \/ Take \/ Refuse \/ Count

Spec == Init /\ [][Next]_vars
=============================================================================
