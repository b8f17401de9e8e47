----------------------------- MODULE DelayedEvent -----------------------------
(***************************************************************************)
(* time/enqueue_delayed/test.c: push an event to be executed WAIT_TIME us  *)
(* from now, run the scheduler until it has been, and check from the clock *)
(* that it was not early.                                                  *)
(***************************************************************************)
EXTENDS RtEvents, Integers

CONSTANTS WAIT_TIME,  \* 1200 in the code
          SLACK       \* bound: how late anything can be here

DelayAssumption == WAIT_TIME \in Nat \ {0} /\ SLACK \in Nat

VARIABLES pc,            \* where main is
          now,           \* the clock, in us
          pool,          \* free events
          due,           \* when the delayed event is due, or None
          ready,         \* it is in the scheduler
          enqueue_time,  \* local of main
          exec_time      \* the global

vars == << pc, now, pool, due, ready, enqueue_time, exec_time >>

None == -1

Limit == IF due = None THEN SLACK ELSE due + SLACK

TypeOK ==
  /\ pc \in {"begin", "read", "push", "loop", "return", "exit_0", "exit_1", "exit_-1",
             "null_event"}
  /\ now \in 0 .. 2 * SLACK + WAIT_TIME
  /\ pool \in 0 .. 1
  /\ due \in {None} \cup WAIT_TIME .. SLACK + WAIT_TIME
  /\ ready \in BOOLEAN
  /\ enqueue_time \in 0 .. SLACK
  /\ exec_time \in 0 .. 2 * SLACK + WAIT_TIME

Init ==
  /\ pc = "begin" /\ now = 0 /\ pool = 0
  /\ due = None /\ ready = FALSE
  /\ enqueue_time = 0 /\ exec_time = 0

-----------------------------------------------------------------------------
Alloc ==
  /\ pc = "begin"
  /\ \/ pool' = rt_event_alloc(pool, 1) /\ pc' = "read"
     \/ pc' = "exit_-1" /\ UNCHANGED pool
  /\ UNCHANGED << now, due, ready, enqueue_time, exec_time >>

ReadTime ==
  /\ pc = "read"
  /\ enqueue_time' = now
  /\ pc' = "push"
  /\ UNCHANGED << now, pool, due, ready, exec_time >>

\* Mutant: the time is read when the event has been pushed, a while ago.
Push_ReadAfter ==
  /\ pc = "push"
  /\ HasEvents(pool, 1) /\ pool' = rt_event_get(pool, 1)
  /\ enqueue_time' = now
  /\ due' = enqueue_time + WAIT_TIME
  /\ pc' = "loop"
  /\ UNCHANGED << now, ready, exec_time >>

Push ==
  /\ pc = "push"
  /\ IF HasEvents(pool, 1)
       THEN /\ pool' = rt_event_get(pool, 1)
            /\ due' = now + WAIT_TIME
            /\ pc' = "loop"
       ELSE pc' = "null_event" /\ UNCHANGED << pool, due >>
  /\ UNCHANGED << now, ready, enqueue_time, exec_time >>

\* The scheduler, called from the loop while exec_time is 0, runs the callback.
timer_callback ==
  /\ pc = "loop" /\ exec_time = 0 /\ ready
  /\ ready' = FALSE
  /\ pool' = rt_event_free(pool)
  /\ exec_time' = now
  /\ UNCHANGED << pc, now, due, enqueue_time >>

\* The scheduler comes back with nothing to run.
NothingReady == pc = "loop" /\ exec_time = 0 /\ ~ready /\ UNCHANGED vars

LoopEnds ==
  /\ pc = "loop" /\ exec_time # 0
  /\ pc' = "return"
  /\ UNCHANGED << now, pool, due, ready, enqueue_time, exec_time >>

ReturnMain ==
  /\ pc = "return"
  /\ pc' = IF exec_time - enqueue_time < WAIT_TIME THEN "exit_1" ELSE "exit_0"
  /\ UNCHANGED << now, pool, due, ready, enqueue_time, exec_time >>

Main == Alloc \/ ReadTime \/ Push \/ timer_callback \/ LoopEnds \/ ReturnMain

-----------------------------------------------------------------------------
\* The clock.  (Limit bounds the model.)
Tick ==
  /\ now < Limit
  /\ now' = now + 1
  /\ UNCHANGED << pc, pool, due, ready, enqueue_time, exec_time >>

\* The timer finds the event, still taken, due, and gives it to the scheduler.
Due ==
  /\ due # None /\ now >= due /\ ~ready /\ pool = 0
  /\ ready' = TRUE
  /\ UNCHANGED << pc, now, pool, due, enqueue_time, exec_time >>

Stopped ==
  pc \in {"exit_0", "exit_1", "exit_-1", "null_event"} /\ now = Limit /\ UNCHANGED vars

Next == Main \/ NothingReady \/ Tick \/ Due \/ Stopped

Spec == Init /\ [][Next]_vars /\ WF_vars(Main) /\ WF_vars(Tick) /\ WF_vars(Due)
=============================================================================
