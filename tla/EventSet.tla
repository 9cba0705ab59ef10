------------------------------ MODULE EventSet ------------------------------
(***************************************************************************)
(* What event_loop promises its callbacks.  A pass either runs the first   *)
(* time event or takes the fd events that select reported, and then takes  *)
(* the always events.  It calls every event it took exactly once, unless   *)
(* another callback removed it first; an event that is added during a pass *)
(* waits for a later one.  TcpRelay builds on this; EventLoop, with the    *)
(* linked lists of event.c, implements it.                                 *)
(***************************************************************************)
EXTENDS Integers

CONSTANTS Fd, Always, Time,   \* the events by their type
          NULL

VARIABLES listed,    \* the events that were added and not removed
          left,      \* for each time event, how long it is still to wait, or
                     \* below 0 how late it is
          phase,     \* "init", "select", "fds", "always" or "stopped"
          todo,      \* events this phase of the pass will still call
          running    \* NULL, the event whose callback runs, or "main"

vars == <<listed, left, phase, todo, running>>

Init ==
    /\ listed = {} /\ left = [e \in Time |-> 0]
    /\ phase = "init" /\ todo = {} /\ running = "main"

Start == phase = "init" /\ phase' = "select" /\ running' = NULL /\ UNCHANGED <<listed, left, todo>>

Add(e) ==
    /\ running # NULL /\ e \notin listed
    /\ listed' = listed \cup {e}
    /\ left' = [f \in Time |-> IF f = e THEN left'[f] ELSE left[f]]
    /\ UNCHANGED <<phase, todo, running>>

Reschedule(e) ==
    /\ running # NULL /\ e \in listed \cap Time
    /\ left' = [left EXCEPT ![e] = left'[e]]
    /\ UNCHANGED <<listed, phase, todo, running>>

Remove(e) ==
    /\ running # NULL
    /\ listed' = listed \ {e} /\ todo' = todo \ {e}
    /\ UNCHANGED <<left, phase, running>>

\* Time goes by while the loop waits.
Tick ==
    /\ phase = "select"
    /\ left' = [e \in Time |-> IF e \in listed THEN left[e] - 1 ELSE left[e]]
    /\ UNCHANGED <<listed, phase, todo, running>>

\* select returns (ready is empty when a signal interrupted it).
Ready(ready) ==
    /\ phase = "select" /\ ready \subseteq listed \cap Fd
    /\ phase' = "fds" /\ todo' = ready
    /\ UNCHANGED <<listed, left, running>>

\* The earliest time event is due, or always events make the loop go on.
Timer(e) ==
    /\ phase = "select" /\ e \in listed \cap Time
    /\ \A f \in listed \cap Time : left[e] <= left[f]
    /\ left[e] <= 0 \/ listed \cap Always # {}
    /\ phase' = "fds" /\ running' = e
    /\ UNCHANGED <<listed, left, todo>>

Call(e) ==
    /\ running = NULL /\ e \in todo
    /\ running' = e /\ todo' = todo \ {e}
    /\ UNCHANGED <<listed, left, phase>>

Return ==
    /\ running \notin {NULL, "main"} /\ running' = NULL
    /\ listed' \in {listed, listed \ {running}}
    /\ UNCHANGED <<left, phase, todo>>

TakeAlways ==
    /\ phase = "fds" /\ running = NULL /\ todo = {}
    /\ phase' = "always" /\ todo' = listed \cap Always
    /\ UNCHANGED <<listed, left, running>>

\* The pass is over; after SIGINT the loop ends and forgets its events.
EndPass ==
    /\ phase = "always" /\ running = NULL /\ todo = {}
    /\ \/ phase' = "select" /\ UNCHANGED listed
       \/ phase' = "stopped" /\ listed' = {}
    /\ UNCHANGED <<left, todo, running>>

Next ==
    \/ Start \/ Tick \/ Return \/ TakeAlways \/ EndPass
    \/ \E e \in Fd \cup Always \cup Time :
         Add(e) \/ Reschedule(e) \/ Remove(e) \/ Timer(e) \/ Call(e)
    \/ \E ready \in SUBSET Fd : Ready(ready)

Spec == Init /\ [][Next]_vars
=============================================================================
