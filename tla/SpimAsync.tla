------------------------------- MODULE SpimAsync -------------------------------
(***************************************************************************)
(* periph/spim/async/test.c: NB_TRANSFER buffers are sent over SPI with    *)
(* two transfers in flight, the next one started from the callback of the  *)
(* one that ends.  Two buffers and two events serve all the transfers, and *)
(* the device is closed as soon as the callbacks have counted them all.    *)
(***************************************************************************)
EXTENDS RtEvents, FiniteSets, Functions

CONSTANT NB_TRANSFER  \* 16 in the code

ASSUME SpimAssumption == NB_TRANSFER \in Nat /\ NB_TRANSFER >= 2

VARIABLES
  pc,           \* where main is
  nb_enqueued,  \* transfers given to the driver, or about to be
  nb_done,      \* transfers whose callback has run
  pool,         \* free events
  ready,        \* events whose callback is to run
  spi,          \* buffers queued on the interface, the one being sent first
  sent          \* buffers the interface has sent

vars == << pc, nb_enqueued, nb_done, pool, ready, spi, sent >>

Buffer == {"tx_buffer0", "tx_buffer1"}

PC == {"alloc_events", "open", "alloc_buffers", "send0", "send1", "loop", "closed",
       "exited", "null_event"}

TypeOK ==
  /\ pc \in PC
  /\ nb_enqueued \in 0 .. NB_TRANSFER
  /\ nb_done \in 0 .. NB_TRANSFER
  /\ pool \in 0 .. 2
  /\ ready \in Seq(Event({"end_of_transfer"}, Buffer))
  /\ spi \in Seq(Buffer)
  /\ sent \in 0 .. NB_TRANSFER

Init ==
  /\ pc = "alloc_events"
  /\ nb_enqueued = 0 /\ nb_done = 0
  /\ pool = 0 /\ ready = << >>
  /\ spi = << >> /\ sent = 0

-----------------------------------------------------------------------------
\* Mutant: one event is allocated.
AllocEvents_One ==
  /\ pc = "alloc_events"
  /\ pc' = "open"
  /\ pool' = rt_event_alloc(pool, 1)
  /\ UNCHANGED << nb_enqueued, nb_done, ready, spi, sent >>

\* The result of rt_event_alloc is not looked at.
AllocEvents ==
  /\ pc = "alloc_events"
  /\ pc' = "open"
  /\ pool' \in {pool, rt_event_alloc(pool, 2)}
  /\ UNCHANGED << nb_enqueued, nb_done, ready, spi, sent >>

OpenDevice ==
  /\ pc = "open"
  /\ pc' \in {"alloc_buffers", "exited"}
  /\ UNCHANGED << nb_enqueued, nb_done, pool, ready, spi, sent >>

\* Mutant: nb_enqueued starts at zero.
AllocBuffers_NoCount ==
  /\ pc = "alloc_buffers"
  /\ \/ pc' = "send0"
     \/ pc' = "exited"
  /\ UNCHANGED << nb_enqueued, nb_done, pool, ready, spi, sent >>

AllocBuffers ==
  /\ pc = "alloc_buffers"
  /\ \/ pc' = "send0" /\ nb_enqueued' = 2 /\ nb_done' = 0
     \/ pc' = "exited" /\ UNCHANGED << nb_enqueued, nb_done >>
  /\ UNCHANGED << pool, ready, spi, sent >>

\* rt_spim_send of a buffer with `events' events free.  With none, the send has
\* a NULL event, its callback never runs and the model stops.
rt_spim_send(buffer, events, next) ==
  IF HasEvents(events, 1)
    THEN pc' = next /\ spi' = Append(spi, buffer) /\ pool' = rt_event_get(events, 1)
    ELSE pc' = "null_event" /\ UNCHANGED << spi, pool >>

\* Mutant: both sends use the first buffer.
FirstSends_OneBuffer ==
  /\ \/ pc = "send0" /\ rt_spim_send("tx_buffer0", pool, "send1")
     \/ pc = "send1" /\ rt_spim_send("tx_buffer0", pool, "loop")
  /\ UNCHANGED << nb_enqueued, nb_done, ready, sent >>

\* Mutant: only the first buffer is sent.
FirstSends_OnlyOne ==
  /\ pc = "send0"
  /\ rt_spim_send("tx_buffer0", pool, "loop")
  /\ UNCHANGED << nb_enqueued, nb_done, ready, sent >>

FirstSends ==
  /\ \/ pc = "send0" /\ rt_spim_send("tx_buffer0", pool, "send1")
     \/ pc = "send1" /\ rt_spim_send("tx_buffer1", pool, "loop")
  /\ UNCHANGED << nb_enqueued, nb_done, ready, sent >>

-----------------------------------------------------------------------------
(* The loop of main, which runs the callback as long as nb_done differs    *)
(* from NB_TRANSFER.                                                       *)

Runs ==
  /\ pc = "loop"
  /\ nb_done # NB_TRANSFER
  /\ Dispatches(ready, "end_of_transfer")
  /\ ready' = rt_event_pop(ready)
  /\ nb_done' = nb_done + 1
  /\ UNCHANGED sent

\* Mutant: one transfer too many.
end_of_transfer_OneMore ==
  /\ Runs
  /\ IF nb_enqueued <= NB_TRANSFER
       THEN /\ nb_enqueued' = nb_enqueued + 1
            /\ rt_spim_send(Head(ready).arg, rt_event_free(pool), "loop")
       ELSE pool' = rt_event_free(pool) /\ UNCHANGED << pc, nb_enqueued, spi >>

end_of_transfer ==
  /\ Runs
  /\ IF nb_enqueued < NB_TRANSFER
       THEN /\ nb_enqueued' = nb_enqueued + 1
            /\ rt_spim_send(Head(ready).arg, rt_event_free(pool), "loop")
       ELSE pool' = rt_event_free(pool) /\ UNCHANGED << pc, nb_enqueued, spi >>

Close ==
  /\ pc = "loop"
  /\ nb_done = NB_TRANSFER
  /\ pc' = "closed"
  /\ UNCHANGED << nb_enqueued, nb_done, pool, ready, spi, sent >>

\* The interface has sent a buffer; its event is ready.
SendDone ==
  /\ spi # << >>
  /\ spi' = Tail(spi)
  /\ ready' = rt_event_push(ready, "end_of_transfer", Head(spi))
  /\ sent' = sent + 1
  /\ UNCHANGED << pc, nb_enqueued, nb_done, pool >>

-----------------------------------------------------------------------------
Main == AllocEvents \/ OpenDevice \/ AllocBuffers \/ FirstSends \/ end_of_transfer \/ Close

Stopped == pc \in {"closed", "exited", "null_event"} /\ spi = << >> /\ UNCHANGED vars

Next == Main \/ SendDone \/ Stopped

Spec == Init /\ [][Next]_vars /\ WF_vars(Main) /\ WF_vars(SendDone)

-----------------------------------------------------------------------------
Waiting == [i \in DOMAIN ready |-> ready[i].arg]

\* When main closes the device, every transfer has been sent and its callback
\* has run: nothing is left on the interface or in the scheduler.
ClosedQuiet ==
  pc = "closed" => /\ sent = NB_TRANSFER /\ nb_enqueued = NB_TRANSFER
                   /\ spi = << >> /\ ready = << >>

\* In the loop the two counters differ by the transfers in flight, at most two,
\* each with a buffer of its own: the DMA never reads one buffer for two.
TwoInFlight ==
  pc = "loop" =>
    /\ nb_enqueued - nb_done = Len(spi) + Len(ready)
    /\ nb_enqueued - nb_done <= 2
    /\ IsInjective(spi) /\ IsInjective(Waiting) /\ Range(spi) \cap Range(Waiting) = {}

\* A send is without an event only if rt_event_alloc gave none at all: with its
\* two, the event of a callback is free again for the send the callback makes.
EventsSuffice == pc = "null_event" => pool + Len(spi) + Len(ready) = 0

\* Once in its loop main always closes the device.
AlwaysCloses == (pc = "loop") ~> (pc = "closed")
=============================================================================
