----------------------------- MODULE UartLoopback -----------------------------
(***************************************************************************)
(* periph/uart/loopback/test.c: the interface's output is wired to its     *)
(* input.  Main enqueues an asynchronous read of a buffer, writes a buffer *)
(* with a blocking call, waits for the read and compares the two.  The     *)
(* interface has no memory of its own: an element that arrives when no     *)
(* read is enqueued is lost.                                               *)
(***************************************************************************)
EXTENDS RtEvents, Integers, FiniteSets

CONSTANTS BUFFER_SIZE,  \* 256 in the code
          WIRE          \* elements that can be on the wire, sent and not received

UartAssumption == BUFFER_SIZE \in Nat \ {0} /\ WIRE \in Nat \ {0}

VARIABLES pc,         \* where main is
          pool,       \* free events
          event,      \* the read's event: "none", "out" or "signaled"
          tx_buffer, rx_buffer,
          reading,    \* a read is enqueued
          received,   \* elements it has received
          writing,    \* a write is under way
          sent,       \* elements it has sent
          wire,       \* elements on the wire
          error       \* local of main

vars == << pc, pool, event, tx_buffer, rx_buffer, reading, received, writing, sent, wire, error >>

Index   == 0 .. BUFFER_SIZE - 1
\* What an element of rx_buffer holds that has not been received.
Nothing == -1

Count(n) == n \in 0 .. BUFFER_SIZE

TypeOK ==
  /\ pc \in {"begin", "open", "fill", "get", "read", "write", "written", "wait", "compare",
             "exit", "exit_-1", "null_event"}
  /\ pool \in 0 .. 4
  /\ event \in {"none", "out", "signaled"}
  /\ tx_buffer \in [Index -> Index] /\ rx_buffer \in [Index -> Index \cup {Nothing}]
  /\ reading \in BOOLEAN /\ Count(received)
  /\ writing \in BOOLEAN /\ Count(sent)
  /\ wire \in Seq(Index) /\ Len(wire) <= WIRE
  /\ Count(error)

Init ==
  /\ pc = "begin" /\ pool = 0 /\ event = "none"
  /\ tx_buffer = [k \in Index |-> 0] /\ rx_buffer = [k \in Index |-> Nothing]
  /\ reading = FALSE /\ received = 0
  /\ writing = FALSE /\ sent = 0
  /\ wire = << >> /\ error = 0

-----------------------------------------------------------------------------
buffers   == << tx_buffer, rx_buffer >>
interface == << reading, received, writing, sent, wire >>

\* The result of rt_event_alloc is not looked at.
Alloc ==
  /\ pc = "begin"
  /\ pool' \in {pool, rt_event_alloc(pool, 4)}
  /\ pc' = "open"
  /\ UNCHANGED << event, buffers, interface, error >>

Open ==
  /\ pc = "open"
  /\ pc' \in {"fill", "exit_-1"}
  /\ UNCHANGED << pool, event, buffers, interface, error >>

\* Mutant: the elements are numbered from 1.
Fill_FromOne ==
  /\ pc = "fill"
  /\ tx_buffer' = [k \in Index |-> k + 1]
  /\ pc' = "get"
  /\ UNCHANGED << pool, event, rx_buffer, interface, error >>

Fill ==
  /\ pc = "fill"
  /\ tx_buffer' = [k \in Index |-> k % 256]
  /\ pc' = "get"
  /\ UNCHANGED << pool, event, rx_buffer, interface, error >>

GetEvent ==
  /\ pc = "get"
  /\ IF HasEvents(pool, 1)
       THEN pool' = rt_event_get(pool, 1) /\ event' = "out" /\ pc' = "read"
       ELSE pc' = "null_event" /\ UNCHANGED << pool, event >>
  /\ UNCHANGED << buffers, interface, error >>

\* Mutant: the write is started before the read is enqueued.
Read_AfterWrite ==
  /\ pc = "read"
  /\ reading' = (sent > 0) /\ writing' = TRUE
  /\ pc' = IF sent > 0 THEN "written" ELSE "read"
  /\ UNCHANGED << pool, event, buffers, received, sent, wire, error >>

\* The asynchronous read.
Read ==
  /\ pc = "read"
  /\ reading' = TRUE
  /\ pc' = "write"
  /\ UNCHANGED << pool, event, buffers, received, writing, sent, wire, error >>

\* The write, blocking: main goes on when everything has been sent.
Write ==
  /\ pc = "write"
  /\ writing' = TRUE
  /\ pc' = "written"
  /\ UNCHANGED << pool, event, buffers, reading, received, sent, wire, error >>

Written ==
  /\ pc = "written" /\ ~writing
  /\ pc' = "wait"
  /\ UNCHANGED << pool, event, buffers, interface, error >>

Wait ==
  /\ pc = "wait" /\ event = "signaled"
  /\ event' = "none" /\ pool' = rt_event_free(pool)
  /\ pc' = "compare"
  /\ UNCHANGED << buffers, interface, error >>

\* The loop that compares the buffers and counts the differences.
Compare ==
  /\ pc = "compare"
  /\ error' = Cardinality({k \in Index : rx_buffer[k] # tx_buffer[k]})
  /\ pc' = "exit"
  /\ UNCHANGED << pool, event, buffers, interface >>

Main == \/ Alloc \/ Open \/ Fill \/ GetEvent \/ Read \/ Write \/ Written \/ Wait \/ Compare

-----------------------------------------------------------------------------
(* The interface and its wire.                                             *)

Send ==
  /\ writing /\ sent < BUFFER_SIZE /\ Len(wire) < WIRE
  /\ wire' = Append(wire, tx_buffer[sent])
  /\ sent' = sent + 1
  /\ writing' = (sent' < BUFFER_SIZE)
  /\ UNCHANGED << pc, pool, event, buffers, reading, received, error >>

Receive ==
  /\ wire # << >>
  /\ wire' = Tail(wire)
  /\ IF reading
       THEN /\ rx_buffer' = [rx_buffer EXCEPT ![received] = Head(wire)]
            /\ received' = received + 1
            /\ reading' = (received' < BUFFER_SIZE)
            /\ event' = IF reading' THEN event ELSE "signaled"
       ELSE UNCHANGED << rx_buffer, received, reading, event >>
  /\ UNCHANGED << pc, pool, tx_buffer, writing, sent, error >>

Stopped == pc \in {"exit", "exit_-1", "null_event"} /\ UNCHANGED vars

Next == Main \/ Send \/ Receive \/ Stopped

Spec == Init /\ [][Next]_vars /\ WF_vars(Main) /\ WF_vars(Send) /\ WF_vars(Receive)

-----------------------------------------------------------------------------
\* The read is enqueued before anything is sent, so that no element is lost.
NothingLost == sent = received + Len(wire)
=============================================================================
