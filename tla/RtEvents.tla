------------------------------ MODULE RtEvents ------------------------------
(***************************************************************************)
(* The event scheduler of the PULP runtime, as the example programs use    *)
(* it.  The runtime is not part of the repository, so this module is       *)
(* external: a counter of free events (rt_event_alloc adds to it,          *)
(* rt_event_get takes from it) and a FIFO of the events that are ready.    *)
(* rt_event_execute pops the oldest ready event, gives it back to the      *)
(* counter, and only then runs its callback: periph/spim/async/test.c:37   *)
(* relies on that order when it pushes a transfer from the callback of     *)
(* another with two events in all.                                         *)
(***************************************************************************)
EXTENDS Naturals, Sequences

\* An event: the callback it runs and the argument the callback gets.
Event(Callback, Arg) == [callback : Callback, arg : Arg]

\* rt_event_alloc(sched, n) gives n more free events.
rt_event_alloc(free, n) == free + n

\* rt_event_get takes n free events; with none left it returns NULL.
rt_event_get(free, n)  == free - n
HasEvents(free, n)     == free >= n

\* A driver whose transfer is over pushes the transfer's event.
rt_event_push(queue, callback, arg) ==
  Append(queue, [callback |-> callback, arg |-> arg])

\* rt_event_execute: the oldest event goes back to the free ones, then runs.
Dispatches(queue, callback) == queue # << >> /\ Head(queue).callback = callback
rt_event_pop(queue)         == Tail(queue)
rt_event_free(free)         == free + 1
=============================================================================
