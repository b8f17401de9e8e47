------------------------------ MODULE GpioEdges ------------------------------
(***************************************************************************)
(* gpio/input_interrupt/test.c: an interrupt handler counts the edges of a *)
(* pin, and main yields to the scheduler until it has counted NB_EDGE.     *)
(* The handler runs inside the interrupt and pushes nothing: what main     *)
(* wakes up from is the interrupt itself, so that an edge between main's   *)
(* look at the counter and its sleep wakes nobody up.                      *)
(***************************************************************************)
EXTENDS Integers

CONSTANTS NB_EDGE,   \* 100 in the code
          MAX_EDGES  \* bound: edges the pin makes

EdgeAssumption == NB_EDGE \in Nat \ {0} /\ MAX_EDGES \in Nat /\ MAX_EDGES > NB_EDGE

VARIABLES pc,      \* where main is
          enabled, \* the pin's event is set
          pin,     \* edges the pin has made
          missed,  \* of these, the ones before the event was set
          raised,  \* the interrupt is raised and its handler has not run
          edges    \* the global

vars == << pc, enabled, pin, missed, raised, edges >>

TypeOK ==
  /\ pc \in {"begin", "event", "loop", "yield", "asleep", "printf", "exit_0", "exit_-1"}
  /\ enabled \in BOOLEAN
  /\ pin \in 0 .. MAX_EDGES
  /\ missed \in 0 .. MAX_EDGES
  /\ raised \in BOOLEAN
  /\ edges \in 0 .. MAX_EDGES

Init == /\ pc = "begin" /\ enabled = FALSE /\ pin = 0 /\ missed = 0
        /\ raised = FALSE /\ edges = 0

-----------------------------------------------------------------------------
Alloc ==
  /\ pc = "begin"
  /\ pc' \in {"event", "exit_-1"}
  /\ UNCHANGED << enabled, pin, missed, raised, edges >>

\* The pin is set up as an input, sensitive to both edges, with its event.
SetEvent ==
  /\ pc = "event"
  /\ enabled' = TRUE
  /\ pc' = "loop"
  /\ UNCHANGED << pin, missed, raised, edges >>

\* Mutant: main waits for one edge more, which may not come.
Loop_OneMore ==
  /\ pc = "loop"
  /\ pc' = IF edges <= NB_EDGE THEN "yield" ELSE "printf"
  /\ UNCHANGED << enabled, pin, missed, raised, edges >>

Loop ==
  /\ pc = "loop"
  /\ pc' = IF edges < NB_EDGE THEN "yield" ELSE "printf"
  /\ UNCHANGED << enabled, pin, missed, raised, edges >>

\* rt_event_yield: with nothing in the scheduler it sleeps.
Yield ==
  /\ pc = "yield"
  /\ pc' = "asleep"
  /\ UNCHANGED << enabled, pin, missed, raised, edges >>

Printf ==
  /\ pc = "printf"
  /\ pc' = "exit_0"
  /\ UNCHANGED << enabled, pin, missed, raised, edges >>

Main == Alloc \/ SetEvent \/ Loop \/ Yield \/ Printf

-----------------------------------------------------------------------------
\* The pin changes.  Changes that come faster than the handler are one interrupt.
PinEdge ==
  /\ pin < MAX_EDGES
  /\ pin' = pin + 1
  /\ raised' = (raised \/ enabled)
  /\ missed' = IF enabled /\ ~raised THEN missed ELSE missed + 1
  /\ UNCHANGED << pc, enabled, edges >>

\* The interrupt: the handler runs between any two steps of main.
gpio_handler ==
  /\ raised
  /\ raised' = FALSE
  /\ edges' = edges + 1
  /\ pc' = IF pc = "asleep" THEN "loop" ELSE pc
  /\ UNCHANGED << enabled, pin, missed >>

-----------------------------------------------------------------------------
Stopped == /\ pc \in {"asleep", "exit_0", "exit_-1"} /\ pin = MAX_EDGES /\ ~raised
           /\ UNCHANGED vars

Next == Main \/ PinEdge \/ gpio_handler \/ Stopped

Spec == /\ Init /\ [][Next]_vars
        /\ WF_vars(Main) /\ WF_vars(PinEdge) /\ WF_vars(gpio_handler)

-----------------------------------------------------------------------------
\* Main can fall asleep with all its edges counted, when the last ones come
\* between its look at the counter and its sleep; the first edge that comes
\* then lets it end, and so does the last edge it needs.
EdgeWakesUp ==
  (pc = "asleep" /\ raised /\ edges >= NB_EDGE - 1) ~> (pc = "exit_0")
=============================================================================
