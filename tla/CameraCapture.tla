---------------------------- MODULE CameraCapture ----------------------------
(***************************************************************************)
(* periph/camera/test.c: capture NB_CAPTURES frames in one buffer, one     *)
(* after the other; the camera is started once the capture is enqueued and *)
(* stopped when its event has come.  A started camera makes frames without *)
(* end; the driver stores the first whole one for the capture.             *)
(***************************************************************************)
EXTENDS RtEvents

CONSTANTS NB_CAPTURES,  \* 10 in the code
          NB_EVENTS,    \* 8 in the code
          LINES         \* HEIGHT, 244 in the code

CaptureAssumption ==
  NB_CAPTURES \in Nat /\ NB_EVENTS \in Nat \ {0} /\ LINES \in Nat \ {0}

VARIABLES pc,       \* where main is
          i,        \* the loop variable
          pool,     \* free events
          event,    \* event1: "none", "out" or "signaled"
          running,  \* the camera is started
          line,     \* the line of the frame the camera is at
          capture,  \* the driver's: "none", "queued" or "storing"
          stored    \* lines of the frame in the buffer

vars == << pc, i, pool, event, running, line, capture, stored >>

TypeOK ==
  /\ pc \in {"begin", "buffer", "open", "get", "capture", "start", "wait", "stop", "close",
             "exit_0", "exit_-1", "null_event"}
  /\ i \in 0 .. NB_CAPTURES
  /\ pool \in 0 .. NB_EVENTS
  /\ event \in {"none", "out", "signaled"}
  /\ running \in BOOLEAN
  /\ line \in 0 .. LINES - 1
  /\ capture \in {"none", "queued", "storing"}
  /\ stored \in 0 .. LINES

Init ==
  /\ pc = "begin" /\ i = 0 /\ pool = 0 /\ event = "none"
  /\ running = FALSE /\ line = 0 /\ capture = "none" /\ stored = 0

-----------------------------------------------------------------------------
camera == << running, line, capture, stored >>

Alloc ==
  /\ pc = "begin"
  /\ \/ pool' = rt_event_alloc(pool, NB_EVENTS) /\ pc' = "buffer"
     \/ pc' = "exit_-1" /\ UNCHANGED pool
  /\ UNCHANGED << i, event, camera >>

\* rt_alloc, and then rt_camera_open and CMD_INIT.
AllocBuffer == pc = "buffer" /\ pc' \in {"open", "exit_-1"} /\ UNCHANGED << i, pool, event, camera >>
OpenCamera  == pc = "open" /\ pc' \in {"get", "exit_-1"} /\ UNCHANGED << i, pool, event, camera >>

\* The head of the loop, and rt_event_get_blocking.
GetEvent ==
  /\ pc = "get"
  /\ IF i = NB_CAPTURES THEN pc' = "close" /\ UNCHANGED << pool, event >>
     ELSE IF HasEvents(pool, 1)
       THEN pool' = rt_event_get(pool, 1) /\ event' = "out" /\ pc' = "capture"
       ELSE pc' = "null_event" /\ UNCHANGED << pool, event >>
  /\ UNCHANGED << i, camera >>

Capture ==
  /\ pc = "capture"
  /\ capture' = "queued"
  /\ pc' = "start"
  /\ UNCHANGED << i, pool, event, running, line, stored >>

\* CMD_START: the camera begins a frame.
Start ==
  /\ pc = "start"
  /\ running' = TRUE /\ line' = 0
  /\ pc' = "wait"
  /\ UNCHANGED << i, pool, event, capture, stored >>

\* Mutant: the wait does not give the event back.
Wait_KeepsEvent ==
  /\ pc = "wait" /\ event = "signaled"
  /\ event' = "none"
  /\ pc' = "stop"
  /\ UNCHANGED << i, pool, camera >>

\* Mutant: the event is not waited for.
Wait_NoWait ==
  /\ pc = "wait"
  /\ event' = "none" /\ pool' = rt_event_free(pool)
  /\ pc' = "stop"
  /\ UNCHANGED << i, camera >>

\* rt_event_wait gives the event back.
Wait ==
  /\ pc = "wait" /\ event = "signaled"
  /\ event' = "none" /\ pool' = rt_event_free(pool)
  /\ pc' = "stop"
  /\ UNCHANGED << i, camera >>

\* CMD_STOP, and the end of the turn.
Stop ==
  /\ pc = "stop"
  /\ running' = FALSE
  /\ i' = i + 1
  /\ pc' = "get"
  /\ UNCHANGED << pool, event, line, capture, stored >>

Close == pc = "close" /\ pc' = "exit_0" /\ UNCHANGED << i, pool, event, camera >>

Main == \/ Alloc \/ AllocBuffer \/ OpenCamera \/ GetEvent \/ Capture \/ Start
        \/ Wait \/ Stop \/ Close

-----------------------------------------------------------------------------
\* The camera makes a line, which is stored if a capture has begun with its
\* frame; the last one ends the capture.
Line ==
  /\ running
  /\ line' = (line + 1) % LINES
  /\ IF capture = "storing" \/ (capture = "queued" /\ line = 0)
       THEN /\ stored' = IF line = 0 THEN 1 ELSE stored + 1
            /\ capture' = IF stored' = LINES THEN "none" ELSE "storing"
            /\ event' = IF stored' = LINES THEN "signaled" ELSE event
       ELSE UNCHANGED << stored, capture, event >>
  /\ UNCHANGED << pc, i, pool, running >>

Stopped == pc \in {"exit_0", "exit_-1", "null_event"} /\ UNCHANGED vars

Next == Main \/ Line \/ Stopped

Spec == Init /\ [][Next]_vars /\ WF_vars(Main) /\ WF_vars(Line)

-----------------------------------------------------------------------------
\* Between a capture's event and the next capture the buffer holds a whole
\* frame and nothing is written to it, although the camera runs on until it
\* is stopped; and no event is left behind at the end.
WholeFrames ==
  /\ pc \in {"stop", "close", "exit_0"} => capture = "none" /\ (i > 0 => stored = LINES)
  /\ pc = "stop" => stored = LINES
  /\ pc = "exit_0" => pool = NB_EVENTS /\ ~running
=============================================================================
