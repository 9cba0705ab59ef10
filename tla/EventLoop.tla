----------------------------- MODULE EventLoop ------------------------------
(***************************************************************************)
(* event.c: the three doubly linked lists of events and the loop that      *)
(* walks them while the callbacks it calls add, move and remove events.    *)
(* remove_event never frees an event, so an event that was removed keeps   *)
(* its pointers, and the loop goes on from there.                          *)
(*                                                                         *)
(* A callback is a sequence of calls of the functions of event.c.  What    *)
(* every callback of the daemon respects: it removes an event only while   *)
(* the event is listed, and its own event only when that is a time event,  *)
(* as the last call (tcp_remove).                                          *)
(***************************************************************************)
EXTENDS Integers, FiniteSets

CONSTANTS Fd, Always, Time,   \* the events, by the list they go to
          Delay,              \* msec for which a time event is set
          MaxLate,            \* bound: msec by which the loop misses a time event
          NULL

Event == Fd \cup Always \cup Time

ASSUME EventLoopAssumption ==
    /\ Fd \cap Always = {} /\ Fd \cap Time = {} /\ Always \cap Time = {}
    /\ NULL \notin Event \cup {"main"} /\ "main" \notin Event
    /\ IsFiniteSet(Event)
    /\ Delay \subseteq Nat \ {0} /\ MaxLate \in Nat

VARIABLES
    l,         \* next and prev of every event, and the heads of the lists
    left,      \* the difference to now of a time event's time, below 0 when it is late
    phase,     \* the part of the loop's body that runs
    cur,       \* the loop's variable e
    busy,      \* e->func is running
    ready,     \* events whose descriptors select left in its sets
    remove,    \* e->remove of the time event that runs
    sigint     \* sigint_received

vars == <<l, left, phase, cur, busy, ready, remove, sigint>>
loop == <<phase, cur, busy, ready, remove, sigint>>

Type == {"fd", "always", "time"}
OfType == [fd |-> Fd, always |-> Always, time |-> Time]
ListOf(e) == CHOOSE name \in Type : e \in OfType[name]

NoLists ==
    [next |-> [e \in Event |-> NULL], prev |-> [e \in Event |-> NULL],
     head |-> [k \in Type |-> NULL]]

\* e and the events behind it.
Behind(k, e) ==
    LET upto[n \in Nat] ==
          IF n = 0 THEN {e}
          ELSE LET near == upto[n - 1] IN near \cup ({k.next[f] : f \in near} \ {NULL})
    IN  IF e = NULL THEN {} ELSE upto[Cardinality(OfType[ListOf(e)]) - 1]

List(k, name) == Behind(k, k.head[name])
Listed == UNION {List(l, name) : name \in Type}

Init ==
    /\ l = NoLists
    /\ left = [e \in Time |-> 0]
    /\ phase = "init" /\ cur = NULL /\ busy = TRUE
    /\ ready = {} /\ remove = FALSE /\ sigint = FALSE
-----------------------------------------------------------------------------
(* The lists. *)

\* Mutant: the predecessor still points to the event.
del_event_one_way(k, e) ==
    [k EXCEPT !.prev = [f \in Event |-> IF f = k.next[e] THEN k.prev[e] ELSE @[f]],
              !.head[ListOf(e)] = IF @ = e THEN k.next[e] ELSE @]

del_event(k, e) ==
    [k EXCEPT !.prev = [f \in Event |-> IF f = k.next[e] THEN k.prev[e] ELSE @[f]],
              !.next = [f \in Event |-> IF f = k.prev[e] THEN k.next[e] ELSE @[f]],
              !.head[ListOf(e)] = IF @ = e THEN k.next[e] ELSE @]

\* new_event, whose pointers are NULL.
new_event(k, e) == [k EXCEPT !.next[e] = NULL, !.prev[e] = NULL]

\* e goes before f, or to the end behind f.
Before(k, e, f) ==
    [k EXCEPT !.next = [g \in Event |-> IF g = e THEN f ELSE IF g = k.prev[f] THEN e ELSE @[g]],
              !.prev = [g \in Event |-> IF g = e THEN k.prev[f] ELSE IF g = f THEN e ELSE @[g]],
              !.head["time"] = IF k.prev[f] = NULL THEN e ELSE @]

After(k, e, f) == [k EXCEPT !.next[e] = NULL, !.prev[e] = f, !.next[f] = e]

\* Mutant: the new event goes to the end of its list.
Front_at_end(k, e) ==
    LET n == new_event(k, e)
    IN  IF n.head[ListOf(e)] = NULL THEN [n EXCEPT !.head[ListOf(e)] = e]
        ELSE After(n, e, CHOOSE f \in List(n, ListOf(e)) : n.next[f] = NULL)

\* Mutant: add_always_event, copied from add_fd_event, still sets fd_event_list.
Front_fd_list(k, e) ==
    LET n     == new_event(k, e)
        first == n.head[ListOf(e)]
    IN  [n EXCEPT !.next[e] = first,
                  !.prev = [f \in Event |-> IF f = first THEN e ELSE @[f]],
                  !.head["fd"] = e]

\* The front of its list, where add_fd_event and add_always_event put it.
Front(k, e) ==
    LET n     == new_event(k, e)
        first == n.head[ListOf(e)]
    IN  [n EXCEPT !.next[e] = first,
                  !.prev = [f \in Event |-> IF f = first THEN e ELSE @[f]],
                  !.head[ListOf(e)] = e]

\* Mutant: a time event goes before the first one that is due earlier.
InTime_reversed(k, e, msec) ==
    LET n     == del_event(k, e)
        times == List(n, "time")
        later == {f \in times : left[f] < msec}
    IN  IF times = {} THEN [n EXCEPT !.head["time"] = e]
        ELSE IF later # {} THEN Before(n, e, CHOOSE f \in later : later \subseteq Behind(n, f))
        ELSE After(n, e, CHOOSE f \in times : n.next[f] = NULL)

\* The walk of resched_time_event: before the first event that is due later.
InTime(k, e, msec) ==
    LET n     == del_event(k, e)
        times == List(n, "time")
        later == {f \in times : left[f] > msec}
    IN  IF times = {} THEN [n EXCEPT !.head["time"] = e]
        ELSE IF later # {} THEN Before(n, e, CHOOSE f \in later : later \subseteq Behind(n, f))
        ELSE After(n, e, CHOOSE f \in times : n.next[f] = NULL)
-----------------------------------------------------------------------------
(* The functions a callback may call. *)

\* cur has removed itself: its callback returns.
GoesOn == busy /\ ~(phase = "time" /\ cur \notin Listed)

add_fd_event(e) ==
    /\ GoesOn /\ e \in Fd \ (Listed \cup {cur})
    /\ l' = Front(l, e)
    /\ UNCHANGED <<left, loop>>

add_always_event(e) ==
    /\ GoesOn /\ e \in Always \ (Listed \cup {cur})
    /\ l' = Front(l, e)
    /\ UNCHANGED <<left, loop>>

add_time_event(e, msec) ==
    /\ GoesOn /\ e \in Time \ (Listed \cup {cur})
    /\ l' = InTime(new_event(l, e), e, msec)
    /\ left' = [left EXCEPT ![e] = msec]
    /\ UNCHANGED loop

resched_time_event(e, msec) ==
    /\ GoesOn /\ e \in Time \cap Listed
    /\ l' = InTime(l, e, msec)
    /\ left' = [left EXCEPT ![e] = msec]
    /\ remove' = (remove /\ e # cur)
    /\ UNCHANGED <<phase, cur, busy, ready, sigint>>

remove_event(e) ==
    /\ GoesOn /\ e \in Listed
    /\ e # cur \/ phase = "time"
    /\ l' = del_event(l, e)
    /\ UNCHANGED <<left, loop>>
-----------------------------------------------------------------------------
(* event_loop. *)

\* main has added the first events and calls event_loop.
event_loop ==
    /\ phase = "init"
    /\ phase' = "select" /\ busy' = FALSE
    /\ UNCHANGED <<l, left, cur, ready, remove, sigint>>

\* Time goes by while the loop waits.
Tick ==
    /\ phase = "select" /\ \A e \in List(l, "time") : left[e] > -MaxLate
    /\ left' = [e \in Time |-> IF e \in List(l, "time") THEN left[e] - 1 ELSE left[e]]
    /\ UNCHANGED <<l, loop>>

FirstTime == l.head["time"]
Overdue == FirstTime # NULL /\ left[FirstTime] <= 0

\* select reports some descriptors.
SelectFds(r) ==
    /\ phase = "select" /\ ~Overdue
    /\ r # {} /\ r \subseteq List(l, "fd")
    /\ phase' = "fds" /\ cur' = l.head["fd"] /\ ready' = r
    /\ UNCHANGED <<l, left, busy, remove, sigint>>

\* The first time event is due, or select, which waits for no time when there
\* are always events, reports nothing.
SelectTime ==
    /\ phase = "select" /\ FirstTime # NULL
    /\ Overdue \/ l.head["always"] # NULL
    /\ phase' = "time" /\ cur' = FirstTime /\ busy' = TRUE /\ remove' = TRUE
    /\ UNCHANGED <<l, left, ready, sigint>>

\* FD_ISSET says no.
SkipFd ==
    /\ phase = "fds" /\ ~busy /\ cur # NULL /\ cur \notin ready
    /\ cur' = l.next[cur]
    /\ UNCHANGED <<l, left, phase, busy, ready, remove, sigint>>

Call ==
    /\ phase \in {"fds", "always"} /\ ~busy /\ cur # NULL
    /\ phase = "fds" => cur \in ready
    /\ busy' = TRUE
    /\ UNCHANGED <<l, left, phase, cur, ready, remove, sigint>>

\* The callback returns; its event is removed when the result is 0.
Return(result) ==
    /\ busy /\ phase \in {"fds", "always"}
    /\ l' = IF result THEN l ELSE del_event(l, cur)
    /\ cur' = l.next[cur]
    /\ busy' = FALSE
    /\ UNCHANGED <<left, phase, ready, remove, sigint>>

\* The callback of a time event returns; no descriptor was looked at.
ReturnTime ==
    /\ busy /\ phase = "time"
    /\ l' = IF remove THEN del_event(l, cur) ELSE l
    /\ phase' = "fds" /\ cur' = NULL /\ busy' = FALSE
    /\ UNCHANGED <<left, ready, remove, sigint>>

FdsDone ==
    /\ phase = "fds" /\ ~busy /\ cur = NULL
    /\ phase' = "always" /\ cur' = l.head["always"] /\ ready' = {}
    /\ UNCHANGED <<l, left, busy, remove, sigint>>

AlwaysDone ==
    /\ phase = "always" /\ ~busy /\ cur = NULL
    /\ phase' = IF sigint THEN "stopped" ELSE "select"
    /\ l' = IF sigint THEN [l EXCEPT !.head = NoLists.head] ELSE l
    /\ UNCHANGED <<left, cur, busy, ready, remove, sigint>>

\* The first SIGINT; it interrupts a select that is waiting.
sigint_handler ==
    /\ ~sigint /\ sigint' = TRUE
    /\ phase \notin {"init", "stopped"}
    /\ \/ phase = "select" /\ ~Overdue /\ phase' = "fds" /\ cur' = NULL
       \/ UNCHANGED <<phase, cur>>
    /\ UNCHANGED <<l, left, busy, ready, remove>>

Stopped == phase = "stopped" /\ UNCHANGED vars

Callback ==
    \/ \E e \in Event : add_fd_event(e) \/ add_always_event(e) \/ remove_event(e)
    \/ \E e \in Time, msec \in Delay : add_time_event(e, msec) \/ resched_time_event(e, msec)

Next ==
    \/ Callback
    \/ event_loop \/ Tick
    \/ \E r \in SUBSET Fd : SelectFds(r)
    \/ SelectTime \/ SkipFd \/ Call \/ ReturnTime \/ FdsDone \/ AlwaysDone
    \/ \E result \in BOOLEAN : Return(result)
    \/ sigint_handler \/ Stopped

Spec == Init /\ [][Next]_vars
-----------------------------------------------------------------------------
(* Properties. *)

TypeOK ==
    /\ l.next \in [Event -> Event \cup {NULL}] /\ l.prev \in [Event -> Event \cup {NULL}]
    /\ \A name \in Type : l.head[name] \in OfType[name] \cup {NULL}
    /\ left \in [Time -> Int]
    /\ phase \in {"init", "select", "time", "fds", "always", "stopped"}
    /\ cur \in Event \cup {NULL}
    /\ busy \in BOOLEAN /\ remove \in BOOLEAN /\ sigint \in BOOLEAN
    /\ ready \subseteq Fd

\* Whatever callbacks do during a walk, the three lists stay doubly linked and
\* apart: prev is the inverse of next, the head has no predecessor, and a list
\* holds only events of its own type.
ListsLinked ==
    \A name \in Type :
      LET events == List(l, name)
      IN  /\ \A e \in events : ListOf(e) = name
          /\ \A e \in events : l.next[e] # NULL => l.prev[l.next[e]] = e
          /\ l.head[name] # NULL => l.prev[l.head[name]] = NULL

\* The time events are in the order in which they are due, so that looking at
\* the first one is enough.
TimeSorted ==
    \A e \in List(l, "time") : l.next[e] # NULL => left[e] <= left[l.next[e]]

\* What is left of the pass: the events of the walked list from the loop's
\* variable on, without the one that runs.
Part == IF phase = "time" THEN "fds" ELSE phase
Ahead == IF cur = NULL THEN {} ELSE Behind(l, IF busy THEN l.next[cur] ELSE cur)
Todo == IF phase = "fds" THEN Ahead \cap ready ELSE IF phase = "always" THEN Ahead ELSE {}
Running == IF ~busy THEN NULL ELSE IF phase = "init" THEN "main" ELSE cur

Set == INSTANCE EventSet WITH
    listed <- Listed, phase <- Part, todo <- Todo, running <- Running

\* Every pass calls each event it took exactly once and no event that was
\* removed, although the loop walks lists that its callbacks change.
PassesAreExact == Set!Spec
=============================================================================
