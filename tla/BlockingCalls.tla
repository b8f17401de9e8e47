---------------------------- MODULE BlockingCalls ----------------------------
(***************************************************************************)
(* periph/uart/send, periph/i2c, periph/spim/send, periph/spim/receive and *)
(* periph/i2s/pdm_capture: open an interface, have it move one buffer (i2c *)
(* twice), and return.  A call without an event comes back when the whole  *)
(* buffer has been moved; pdm_capture does the same with a capture that is *)
(* enqueued before the interface is started, and an event.                 *)
(***************************************************************************)
EXTENDS RtEvents

VARIABLES program, \* which one of the five
          pc,      \* where main is
          pool,    \* free events
          event,   \* the capture's: "none", "out" or "signaled"
          opened,  \* the interface is open
          ticking, \* the I2S interface is started
          filled,  \* elements main has written to the buffer
          left,    \* elements of the transfer under way that are to be moved
          moved    \* transfers that are over

vars == << program, pc, pool, event, opened, ticking, filled, left, moved >>

\* Elements of the buffer.
Size == [uart_send |-> 256, i2c |-> 3, spim_send |-> 16, spim_receive |-> 16, pdm |-> 128]

Programs  == DOMAIN Size
Spim      == {"spim_send", "spim_receive"}
Sending   == {"uart_send", "i2c", "spim_send"}
Transfers == IF program = "i2c" THEN 2 ELSE 1

TypeOK ==
  /\ pc \in {"begin", "open", "alloc", "fill", "get", "call", "start", "blocked", "stop", "close",
             "exit_0", "exit_-1"}
  /\ pool \in 0 .. 1 /\ event \in {"none", "out", "signaled"}
  /\ opened \in BOOLEAN /\ ticking \in BOOLEAN
  /\ {filled, left} \subseteq 0 .. Size[program]
  /\ moved \in 0 .. Transfers

Init == /\ pc = "begin" /\ pool = 0 /\ event = "none"
        /\ opened = FALSE /\ ticking = FALSE /\ filled = 0 /\ left = 0 /\ moved = 0

-----------------------------------------------------------------------------
\* Only pdm_capture has an event, and its main looks at the result.
Alloc ==
  /\ pc = "begin"
  /\ \/ program = "pdm" /\ pool' = rt_event_alloc(pool, 1) /\ pc' = "open"
     \/ program = "pdm" /\ pc' = "exit_-1" /\ UNCHANGED pool
     \/ program # "pdm" /\ pc' = "open" /\ UNCHANGED pool
  /\ UNCHANGED << event, opened, ticking, filled, left, moved >>

Open ==
  /\ pc = "open"
  /\ \/ pc' = "exit_-1" /\ UNCHANGED opened
     \/ opened' = TRUE /\ pc' = CASE program \in Spim -> "alloc"
                                  [] program = "pdm" -> "get"
                                  [] OTHER -> "fill"
  /\ UNCHANGED << pool, event, ticking, filled, left, moved >>

\* The spim programs have their buffer allocated; when that fails they return
\* with the interface open.
AllocBuffer ==
  /\ pc = "alloc"
  /\ pc' \in {IF program \in Sending THEN "fill" ELSE "call", "exit_-1"}
  /\ UNCHANGED << pool, event, opened, ticking, filled, left, moved >>

Fill ==
  /\ pc = "fill"
  /\ filled' = Size[program]
  /\ pc' = "call"
  /\ UNCHANGED << pool, event, opened, ticking, left, moved >>

GetEvent ==
  /\ pc = "get" /\ HasEvents(pool, 1)
  /\ pool' = rt_event_get(pool, 1) /\ event' = "out"
  /\ pc' = "call"
  /\ UNCHANGED << opened, ticking, filled, left, moved >>

\* The blocking call, or rt_i2s_capture.
Call ==
  /\ pc = "call"
  /\ left' = Size[program]
  /\ pc' = IF program = "pdm" THEN "start" ELSE "blocked"
  /\ UNCHANGED << pool, event, opened, ticking, filled, moved >>

Start ==
  /\ pc = "start"
  /\ ticking' = TRUE
  /\ pc' = "blocked"
  /\ UNCHANGED << pool, event, opened, filled, left, moved >>

\* The call comes back, and the loop that separates the two of i2c; or
\* rt_event_wait does.
Return ==
  /\ pc = "blocked" /\ left = 0
  /\ program = "pdm" => event = "signaled"
  /\ event' = "none"
  /\ pool' = IF program = "pdm" THEN rt_event_free(pool) ELSE pool
  /\ moved' = moved + 1
  /\ pc' = CASE program = "pdm" -> "stop"
             [] program = "uart_send" -> "close"
             [] OTHER -> IF moved' < Transfers THEN "call" ELSE "exit_0"
  /\ UNCHANGED << opened, ticking, filled, left >>

Stop ==
  /\ pc = "stop"
  /\ ticking' = FALSE
  /\ pc' = "close"
  /\ UNCHANGED << pool, event, opened, filled, left, moved >>

\* i2c and spim return without closing.
Close ==
  /\ pc = "close"
  /\ opened' = FALSE
  /\ pc' = "exit_0"
  /\ UNCHANGED << pool, event, ticking, filled, left, moved >>

Main == \/ Alloc \/ Open \/ AllocBuffer \/ Fill \/ GetEvent \/ Call \/ Start
        \/ Return \/ Stop \/ Close

-----------------------------------------------------------------------------
\* The interface moves an element; the samples of the I2S only come when it is
\* started.
Element ==
  /\ left > 0 /\ (program = "pdm" => ticking)
  /\ left' = left - 1
  /\ event' = IF program = "pdm" /\ left' = 0 THEN "signaled" ELSE event
  /\ UNCHANGED << pc, pool, opened, ticking, filled, moved >>

Stopped == pc \in {"exit_0", "exit_-1"} /\ UNCHANGED vars

-----------------------------------------------------------------------------
\* An interface moves the elements of a buffer while it is open and main stands
\* still: what is sent has been filled in before, and what was received is
\* whole when main looks at it.  A main that succeeds has moved every buffer
\* and kept no event.
WholeTransfers ==
  /\ left > 0 => opened /\ pc \in {"start", "blocked"}
  /\ left > 0 /\ program \in Sending => filled = Size[program]
  /\ pc = "exit_0" => /\ left = 0 /\ moved = Transfers
                      /\ ~ticking /\ event = "none"
                      /\ program = "pdm" => pool = 1
=============================================================================
