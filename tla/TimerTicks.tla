------------------------------ MODULE TimerTicks ------------------------------
(***************************************************************************)
(* time/timer_oneshot and time/timer_periodic: count the calls of a timer, *)
(* which is either re-armed by each call or periodic, and close the timer  *)
(* after NB_TICKS of them.  The timer has one event, which it pushes to    *)
(* the scheduler each time it expires; an expiry that finds it there still *)
(* adds nothing.  Neither program allocates that event.                    *)
(***************************************************************************)
EXTENDS RtEvents, Integers

CONSTANTS NB_TICKS,     \* 20 in the code
          BOOT_EVENTS,  \* events the scheduler has after booting
          MAX_TICKS     \* bound: ticks counted before a periodic timer pauses

TickAssumption ==
  NB_TICKS \in Nat \ {0} /\ BOOT_EVENTS \in Nat /\ MAX_TICKS \in Nat /\ MAX_TICKS > NB_TICKS

VARIABLES program,   \* "oneshot" or "periodic"
          pc,        \* where main is
          pool,      \* free events
          timer,     \* "none", "stopped", "armed" or "destroyed"
          queued,    \* the timer's event is in the scheduler
          nb_ticks   \* calls of timer_handle

vars == << program, pc, pool, timer, queued, nb_ticks >>

TypeOK ==
  /\ program \in {"oneshot", "periodic"}
  /\ pc \in {"begin", "start", "loop", "yield", "stop", "destroy", "exit_0", "exit_-1",
             "null_event"}
  /\ pool \in 0 .. BOOT_EVENTS
  /\ timer \in {"none", "stopped", "armed", "destroyed"}
  /\ queued \in BOOLEAN
  /\ nb_ticks \in 0 .. IF program = "oneshot" THEN NB_TICKS ELSE MAX_TICKS

Start ==
  /\ pc = "begin" /\ pool = BOOT_EVENTS
  /\ timer = "none" /\ queued = FALSE /\ nb_ticks = 0

Init == program \in {"oneshot", "periodic"} /\ Start

-----------------------------------------------------------------------------
\* rt_event_get, whose result is not looked at, and rt_timer_create.
Create ==
  /\ pc = "begin"
  /\ IF HasEvents(pool, 1)
       THEN /\ pool' = rt_event_get(pool, 1)
            /\ \/ pc' = "start" /\ timer' = "stopped"
               \/ pc' = "exit_-1" /\ UNCHANGED timer
       ELSE pc' = "null_event" /\ UNCHANGED << pool, timer >>
  /\ UNCHANGED << program, queued, nb_ticks >>

StartTimer ==
  /\ pc = "start"
  /\ timer' = "armed"
  /\ pc' = "loop"
  /\ UNCHANGED << program, pool, queued, nb_ticks >>

Loop ==
  /\ pc = "loop"
  /\ pc' = IF nb_ticks < NB_TICKS THEN "yield" ELSE "stop"
  /\ UNCHANGED << program, pool, timer, queued, nb_ticks >>

\* Mutant: the timer is re-armed by the last call too.
timer_handle_Always ==
  /\ pc = "yield" /\ queued
  /\ queued' = FALSE
  /\ nb_ticks' = nb_ticks + 1
  /\ timer' = IF program = "oneshot" THEN "armed" ELSE timer
  /\ UNCHANGED << program, pc, pool >>

\* The callback, run by the scheduler.  The timer keeps its event.
timer_handle ==
  /\ pc = "yield" /\ queued
  /\ queued' = FALSE
  /\ nb_ticks' = nb_ticks + 1
  /\ timer' = IF program = "oneshot" /\ nb_ticks' < NB_TICKS THEN "armed" ELSE timer
  /\ UNCHANGED << program, pc, pool >>

\* rt_event_yield returns when there is nothing left to run.
YieldReturns ==
  /\ pc = "yield" /\ ~queued
  /\ pc' = "loop"
  /\ UNCHANGED << program, pool, timer, queued, nb_ticks >>

Stop ==
  /\ pc = "stop"
  /\ timer' = "stopped"
  /\ pc' = "destroy"
  /\ UNCHANGED << program, pool, queued, nb_ticks >>

Destroy ==
  /\ pc = "destroy"
  /\ timer' = "destroyed"
  /\ pc' = "exit_0"
  /\ UNCHANGED << program, pool, queued, nb_ticks >>

Main == Create \/ StartTimer \/ Loop \/ timer_handle \/ YieldReturns \/ Stop \/ Destroy

\* The timer expires.
Expire ==
  /\ timer = "armed"
  /\ nb_ticks < MAX_TICKS
  /\ queued' = TRUE
  /\ timer' = IF program = "oneshot" THEN "stopped" ELSE timer
  /\ UNCHANGED << program, pc, pool, nb_ticks >>

Stopped == pc \in {"exit_0", "exit_-1", "null_event"} /\ UNCHANGED vars

Next == Main \/ Expire \/ Stopped

Spec == Init /\ [][Next]_vars /\ WF_vars(Main) /\ WF_vars(Expire)

-----------------------------------------------------------------------------
\* A one-shot timer is re-armed by the call it is running, never while it is
\* armed or while its event is queued: no call is lost, none is doubled, and
\* none is left over when main closes it.
OneShotExact ==
  program = "oneshot" =>
    /\ ~(timer = "armed" /\ queued)
    /\ pc \in {"stop", "destroy", "exit_0"} => nb_ticks = NB_TICKS /\ ~queued /\ timer # "armed"
=============================================================================
