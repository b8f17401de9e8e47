--------------------------- MODULE SpimAsync_proofs ---------------------------
(***************************************************************************)
(* What TLC checks of SpimAsync with 32 transfers, proved for any number   *)
(* of them from two up.                                                    *)
(*                                                                         *)
(* ClosedQuiet and TwoInFlight are about two counters of the program, and  *)
(* hold because of where the transfers they count are.  InFlight says      *)
(* where, for every place of main: an event is free, or its transfer is on *)
(* the interface, or its callback is ready.  Distinct says the same of the *)
(* two buffers.                                                            *)
(***************************************************************************)
EXTENDS SpimAsync, TLAPS

Flight == Len(spi) + Len(ready)

\* Where the transfers and the events are at each place of main.
InFlight ==
  /\ pc \notin {"send1", "loop"} => spi = << >> /\ ready = << >>
  /\ pc \in {"alloc_events", "open", "alloc_buffers"} => nb_enqueued = 0
  /\ pc \notin {"send1", "loop", "closed"} => sent = 0 /\ nb_done = 0
  /\ pc = "alloc_events" => pool = 0
  /\ pc \in {"open", "alloc_buffers", "send0"} => pool \in {0, 2}
  /\ pc \in {"send0", "send1"} => nb_enqueued = 2
  /\ pc = "send1" => pool = 1 /\ Flight = 1 /\ nb_done = 0
  /\ pc = "loop" => nb_enqueued = nb_done + Flight /\ pool + Flight = 2
  /\ pc \in {"send1", "loop"} => sent = nb_done + Len(ready)
  /\ pc = "closed" => sent = NB_TRANSFER /\ nb_enqueued = NB_TRANSFER
  /\ pc = "null_event" => pool = 0

\* A buffer is on the interface once, or in one ready event, or with neither.
Distinct ==
  /\ IsInjective(spi) /\ IsInjective(Waiting) /\ Range(spi) \cap Range(Waiting) = {}
  /\ pc = "send1" => "tx_buffer1" \notin Range(spi) \cup Range(Waiting)

IInv == TypeOK /\ InFlight /\ Distinct

-----------------------------------------------------------------------------
(* Queues of buffers.                                                      *)

LEMMA AppendRange ==
  ASSUME NEW s \in Seq(Buffer), NEW b \in Buffer, IsInjective(s), b \notin Range(s)
  PROVE  /\ Append(s, b) \in Seq(Buffer)
         /\ Range(Append(s, b)) = Range(s) \cup {b}
         /\ IsInjective(Append(s, b))
<1>1. /\ DOMAIN s = 1 .. Len(s) /\ DOMAIN Append(s, b) = 1 .. Len(s) + 1 /\ Len(s) \in Nat
      /\ \A i \in 1 .. Len(s) : Append(s, b)[i] = s[i]
      /\ Append(s, b)[Len(s) + 1] = b
  OBVIOUS
<1> QED BY <1>1 DEF Range, IsInjective

LEMMA TailRange ==
  ASSUME NEW s \in Seq(Buffer), s # << >>, IsInjective(s)
  PROVE  /\ Tail(s) \in Seq(Buffer) /\ Head(s) \in Buffer
         /\ Len(Tail(s)) = Len(s) - 1
         /\ Head(s) \in Range(s)
         /\ Range(Tail(s)) = Range(s) \ {Head(s)}
         /\ IsInjective(Tail(s))
<1> DEFINE t == Tail(s)
<1>1. /\ t \in Seq(Buffer) /\ Len(t) = Len(s) - 1
      /\ DOMAIN s = 1 .. Len(s) /\ DOMAIN t = 1 .. Len(s) - 1 /\ Len(s) \in Nat
      /\ \A i \in 1 .. Len(s) - 1 : t[i] = s[i + 1] /\ i + 1 \in 1 .. Len(s)
      /\ Len(s) > 0 /\ Head(s) = s[1] /\ Head(s) \in Buffer
  OBVIOUS
<1> HIDE DEF t
<1>2. \A i \in 2 .. Len(s) : i - 1 \in 1 .. Len(s) - 1 /\ t[i - 1] = s[i]
  <2> TAKE i \in 2 .. Len(s)
  <2>1. i - 1 \in 1 .. Len(s) - 1 /\ (i - 1) + 1 = i
    BY <1>1
  <2> QED BY <1>1, <2>1
<1>3. Range(t) = Range(s) \ {Head(s)}
  <2>1. ASSUME NEW i \in DOMAIN t PROVE t[i] \in Range(s) \ {Head(s)}
    <3>1. i + 1 \in DOMAIN s /\ 1 \in DOMAIN s /\ i + 1 # 1 /\ t[i] = s[i + 1]
      BY <1>1, <2>1
    <3> QED BY <1>1, <3>1 DEF Range, IsInjective
  <2>2. ASSUME NEW i \in DOMAIN s, s[i] # Head(s) PROVE s[i] \in Range(t)
    <3>1. i \in 2 .. Len(s)
      BY <1>1, <2>2
    <3> QED BY <1>1, <1>2, <3>1 DEF Range
  <2> QED BY <2>1, <2>2 DEF Range
<1>4. ASSUME NEW i \in DOMAIN t, NEW j \in DOMAIN t, t[i] = t[j] PROVE i = j
  <2>1. i + 1 \in DOMAIN s /\ j + 1 \in DOMAIN s /\ s[i + 1] = s[j + 1]
    BY <1>1, <1>4
  <2>2. i + 1 = j + 1
    BY <2>1 DEF IsInjective
  <2> QED BY <1>1, <1>4, <2>2
<1>5. Head(s) \in Range(s) /\ IsInjective(t)
  BY <1>1, <1>4 DEF Range, IsInjective
<1> QED BY <1>1, <1>3, <1>5 DEF t

-----------------------------------------------------------------------------
(* The queue of ready events, and the buffers in it.                       *)

SpimEvent == Event({"end_of_transfer"}, Buffer)
Args(queue) == [i \in DOMAIN queue |-> queue[i].arg]

\* Pushing the event of a transfer pushes its buffer.
LEMMA PushTransfer ==
  ASSUME NEW q \in Seq(SpimEvent), NEW b \in Buffer
  PROVE  LET r == rt_event_push(q, "end_of_transfer", b)
         IN  /\ r \in Seq(SpimEvent)
             /\ Len(r) = Len(q) + 1
             /\ Args(q) \in Seq(Buffer)
             /\ Args(r) = Append(Args(q), b)
<1> DEFINE e == [callback |-> "end_of_transfer", arg |-> b]
           r == Append(q, e)
<1>1. e \in SpimEvent /\ e.arg = b
  BY DEF SpimEvent, Event
<1>2. /\ r \in Seq(SpimEvent) /\ Len(r) = Len(q) + 1
      /\ Len(q) \in Nat /\ DOMAIN q = 1 .. Len(q) /\ DOMAIN r = 1 .. Len(q) + 1
      /\ \A i \in 1 .. Len(q) : r[i] = q[i] /\ q[i] \in SpimEvent
      /\ r[Len(q) + 1] = e
  BY <1>1
<1>3. \A i \in 1 .. Len(q) : q[i].arg \in Buffer
  BY <1>2 DEF SpimEvent, Event
<1>4. Args(q) \in Seq(Buffer) /\ Len(Args(q)) = Len(q)
  BY <1>2, <1>3 DEF Args
<1>5. Args(r) = Append(Args(q), b)
  BY <1>1, <1>2, <1>3, <1>4 DEF Args
<1> QED BY <1>2, <1>4, <1>5 DEF rt_event_push

\* Running the oldest event pops its buffer.
LEMMA PopTransfer ==
  ASSUME NEW q \in Seq(SpimEvent), q # << >>
  PROVE  LET r == rt_event_pop(q)
         IN  /\ r \in Seq(SpimEvent)
             /\ Len(r) = Len(q) - 1
             /\ Args(q) \in Seq(Buffer) /\ Args(q) # << >>
             /\ Head(q).arg = Head(Args(q))
             /\ Args(r) = Tail(Args(q))
<1> DEFINE r == Tail(q)
<1>1. /\ r \in Seq(SpimEvent) /\ Len(r) = Len(q) - 1
      /\ Len(q) \in Nat /\ Len(q) > 0
      /\ DOMAIN q = 1 .. Len(q) /\ DOMAIN r = 1 .. Len(q) - 1
      /\ \A i \in 1 .. Len(q) - 1 : r[i] = q[i + 1]
      /\ Head(q) = q[1]
      /\ \A i \in 1 .. Len(q) : q[i] \in SpimEvent
  OBVIOUS
<1>2. \A i \in 1 .. Len(q) : q[i].arg \in Buffer
  BY <1>1 DEF SpimEvent, Event
<1>3. Args(q) \in Seq(Buffer) /\ Len(Args(q)) = Len(q) /\ Args(q) # << >>
      /\ Head(q).arg = Head(Args(q))
  BY <1>1, <1>2 DEF Args
<1>4. Args(r) = Tail(Args(q))
  BY <1>1, <1>2, <1>3 DEF Args
<1> QED BY <1>1, <1>3, <1>4 DEF rt_event_pop

\* With an event free, a send takes it and queues its buffer.
LEMMA SendTakesEvent ==
  ASSUME NEW b \in Buffer, NEW events \in Nat, NEW next, events >= 1,
         spi \in Seq(Buffer), IsInjective(spi), b \notin Range(spi),
         rt_spim_send(b, events, next)
  PROVE  /\ pc' = next /\ pool' = events - 1
         /\ spi' \in Seq(Buffer) /\ Len(spi') = Len(spi) + 1
         /\ Range(spi') = Range(spi) \cup {b} /\ IsInjective(spi')
<1>1. pc' = next /\ pool' = events - 1 /\ spi' = Append(spi, b)
  BY DEF rt_spim_send, HasEvents, rt_event_get
<1> QED BY <1>1, AppendRange

-----------------------------------------------------------------------------
(* IInv is inductive.                                                      *)

LEMMA InitIInv == Init => IInv
<1> SUFFICES ASSUME Init PROVE IInv OBVIOUS
<1>1. TypeOK BY SpimAssumption DEF Init, TypeOK, PC
<1>2. InFlight BY DEF Init, InFlight, Flight
<1>3. Distinct BY DEF Init, Distinct, Waiting, Range, IsInjective
<1> QED BY <1>1, <1>2, <1>3 DEF IInv

\* Steps of main that start and end no transfer.
LEMMA QuietStep ==
  ASSUME IInv, AllocEvents \/ OpenDevice \/ AllocBuffers \/ Close
  PROVE  IInv'
<1> USE SpimAssumption DEF rt_event_alloc
<1>1. spi' = spi /\ ready' = ready /\ sent' = sent /\ pc # "send1" /\ pc' # "send1"
  BY DEF AllocEvents, OpenDevice, AllocBuffers, Close
<1>2. TypeOK'
  BY DEF IInv, TypeOK, PC, InFlight, AllocEvents, OpenDevice, AllocBuffers, Close
<1>3. Distinct'
  BY <1>1 DEF IInv, Distinct, Waiting
<1>4. CASE Close
  <2>1. /\ Flight = 0 /\ Len(spi) \in Nat /\ Len(ready) \in Nat
        /\ nb_enqueued = NB_TRANSFER /\ sent = NB_TRANSFER
    BY <1>4 DEF Close, IInv, TypeOK, InFlight, Flight
  <2>2. spi = << >> /\ ready = << >>
    BY <2>1 DEF IInv, TypeOK, Flight
  <2>3. InFlight'
    BY <1>4, <2>1, <2>2 DEF Close, InFlight
  <2> QED BY <1>2, <1>3, <2>3 DEF IInv
<1>5. CASE AllocEvents \/ OpenDevice \/ AllocBuffers
  <2>1. InFlight'
    BY <1>5 DEF IInv, TypeOK, PC, InFlight, Flight, AllocEvents, OpenDevice, AllocBuffers
  <2> QED BY <1>2, <1>3, <2>1 DEF IInv
<1> QED BY <1>4, <1>5

\* The two sends before the loop: the first finds two events or none.
LEMMA FirstSendsStep ==
  ASSUME IInv, FirstSends
  PROVE  IInv'
<1> USE SpimAssumption
<1>1. /\ ready' = ready /\ sent' = sent /\ nb_enqueued' = nb_enqueued /\ nb_done' = nb_done
      /\ Waiting' = Waiting
      /\ spi \in Seq(Buffer) /\ Len(spi) \in Nat /\ Len(ready) \in Nat /\ pool \in Nat
      /\ pc \in {"send0", "send1"}
  BY DEF FirstSends, IInv, TypeOK, Waiting
<1>2. CASE pc = "send0" /\ pool = 0
  <2>1. pc' = "null_event" /\ spi' = spi /\ pool' = pool
    BY <1>2 DEF FirstSends, rt_spim_send, HasEvents
  <2>2. TypeOK'
    BY <1>1, <2>1 DEF IInv, TypeOK, PC
  <2>3. InFlight' /\ Distinct'
    BY <1>1, <1>2, <2>1 DEF IInv, InFlight, Distinct
  <2> QED BY <2>2, <2>3 DEF IInv
<1>3. CASE pc = "send0" /\ pool # 0
  <2>1. pool = 2 /\ spi = << >> /\ ready = << >> /\ sent = 0 /\ nb_done = 0 /\ nb_enqueued = 2
    BY <1>3 DEF IInv, InFlight
  <2>2. Range(spi) = {} /\ Range(Waiting) = {}
    BY <2>1 DEF Waiting, Range
  <2>3. rt_spim_send("tx_buffer0", pool, "send1")
    BY <1>3 DEF FirstSends
  <2>4. /\ pc' = "send1" /\ pool' = 1 /\ spi' \in Seq(Buffer) /\ Len(spi') = 1
        /\ Range(spi') = {"tx_buffer0"} /\ IsInjective(spi')
    BY <1>1, <2>1, <2>2, <2>3, SendTakesEvent DEF IInv, Distinct, Buffer
  <2>5. TypeOK'
    BY <1>1, <2>4 DEF IInv, TypeOK, PC
  <2>6. InFlight'
    BY <1>1, <2>1, <2>4 DEF InFlight, Flight
  <2>7. Distinct'
    BY <1>1, <2>2, <2>4 DEF IInv, Distinct
  <2> QED BY <2>5, <2>6, <2>7 DEF IInv
<1>4. CASE pc = "send1"
  <2>1. /\ pool = 1 /\ Flight = 1 /\ nb_done = 0 /\ nb_enqueued = 2
        /\ sent = Len(ready)
    BY <1>1, <1>4 DEF IInv, InFlight
  <2>2. rt_spim_send("tx_buffer1", pool, "loop")
    BY <1>4 DEF FirstSends
  <2>3. /\ pc' = "loop" /\ pool' = 0 /\ spi' \in Seq(Buffer) /\ Len(spi') = Len(spi) + 1
        /\ Range(spi') = Range(spi) \cup {"tx_buffer1"} /\ IsInjective(spi')
    BY <1>1, <1>4, <2>1, <2>2, SendTakesEvent DEF IInv, Distinct, Buffer
  <2>4. TypeOK'
    BY <1>1, <2>3 DEF IInv, TypeOK, PC
  <2>5. InFlight'
    BY <1>1, <2>1, <2>3 DEF InFlight, Flight
  <2>6. Distinct'
    BY <1>1, <1>4, <2>3 DEF IInv, Distinct
  <2> QED BY <2>4, <2>5, <2>6 DEF IInv
<1> QED BY <1>1, <1>2, <1>3, <1>4

\* The callback: the event that brought it is free, and its buffer is in no queue.
LEMMA CallbackStep ==
  ASSUME IInv, end_of_transfer
  PROVE  IInv'
<1> DEFINE b == Head(ready).arg
<1> USE SpimAssumption
<1>1. /\ pc = "loop" /\ nb_done # NB_TRANSFER /\ ready # << >>
      /\ ready' = rt_event_pop(ready) /\ nb_done' = nb_done + 1 /\ sent' = sent
  BY DEF end_of_transfer, Runs, Dispatches
<1>2. /\ ready \in Seq(SpimEvent) /\ spi \in Seq(Buffer)
      /\ Len(spi) \in Nat /\ Len(ready) \in Nat /\ Len(ready) > 0
      /\ pool \in Nat /\ nb_done \in Nat /\ nb_enqueued \in Nat
      /\ nb_done < NB_TRANSFER /\ nb_enqueued <= NB_TRANSFER
      /\ nb_enqueued = nb_done + Flight /\ pool + Flight = 2
      /\ sent = nb_done + Len(ready)
  BY <1>1 DEF IInv, TypeOK, InFlight, SpimEvent
<1>3. /\ ready' \in Seq(SpimEvent) /\ Len(ready') = Len(ready) - 1
      /\ Waiting \in Seq(Buffer) /\ Waiting # << >> /\ b = Head(Waiting)
      /\ Waiting' = Tail(Waiting)
  BY <1>1, <1>2, PopTransfer DEF Waiting, Args
<1>4. /\ b \in Buffer /\ b \in Range(Waiting)
      /\ Range(Waiting') = Range(Waiting) \ {b} /\ IsInjective(Waiting')
  BY <1>3, TailRange DEF IInv, Distinct
<1>5. b \notin Range(spi) /\ IsInjective(spi)
  BY <1>4 DEF IInv, Distinct
<1>6. CASE nb_enqueued < NB_TRANSFER
  <2>1. nb_enqueued' = nb_enqueued + 1 /\ rt_spim_send(b, rt_event_free(pool), "loop")
    BY <1>6 DEF end_of_transfer
  <2>2. rt_event_free(pool) = pool + 1 /\ rt_event_free(pool) \in Nat
    BY <1>2 DEF rt_event_free
  <2>3. /\ pc' = "loop" /\ pool' = pool /\ spi' \in Seq(Buffer) /\ Len(spi') = Len(spi) + 1
        /\ Range(spi') = Range(spi) \cup {b} /\ IsInjective(spi')
    <3> DEFINE events == rt_event_free(pool)
    <3>1. /\ events \in Nat /\ events >= 1 /\ events - 1 = pool
          /\ rt_spim_send(b, events, "loop")
      BY <1>2, <2>1, <2>2
    <3> HIDE DEF b, events
    <3> QED BY <1>2, <1>4, <1>5, <3>1, SendTakesEvent
  <2>4. TypeOK'
    <3>1. nb_done' \in 0 .. NB_TRANSFER /\ nb_enqueued' \in 0 .. NB_TRANSFER
      BY <1>1, <1>2, <1>6, <2>1
    <3>2. /\ pc' \in PC /\ pool' \in 0 .. 2 /\ sent' \in 0 .. NB_TRANSFER
          /\ ready' \in Seq(SpimEvent) /\ spi' \in Seq(Buffer)
      BY <1>1, <1>3, <2>3 DEF IInv, TypeOK, PC
    <3> QED BY <3>1, <3>2 DEF TypeOK, SpimEvent
  <2>5. InFlight'
    <3>1. Len(spi') = Len(spi) + 1 /\ Len(ready') = Len(ready) - 1
      BY <1>3, <2>3
    <3>2. Flight' = Flight /\ Flight \in Nat
      BY <1>2, <3>1 DEF Flight
    <3>3. /\ nb_enqueued' = nb_done' + Flight' /\ pool' + Flight' = 2
          /\ sent' = nb_done' + Len(ready')
      BY <1>1, <1>2, <2>1, <2>3, <3>1, <3>2
    <3> QED BY <2>3, <3>3 DEF InFlight
  <2>6. Distinct'
    BY <1>4, <1>5, <2>3 DEF IInv, Distinct
  <2> QED BY <2>4, <2>5, <2>6 DEF IInv
<1>7. CASE ~(nb_enqueued < NB_TRANSFER)
  <2>1. pool' = pool + 1 /\ pc' = pc /\ nb_enqueued' = nb_enqueued /\ spi' = spi
    BY <1>7 DEF end_of_transfer, rt_event_free
  <2>2. TypeOK'
    BY <1>1, <1>2, <1>3, <2>1 DEF IInv, TypeOK, SpimEvent, Flight
  <2>3. InFlight'
    BY <1>1, <1>2, <1>3, <2>1 DEF InFlight, Flight
  <2>4. Distinct'
    BY <1>1, <1>4, <1>5, <2>1 DEF IInv, Distinct
  <2> QED BY <2>2, <2>3, <2>4 DEF IInv
<1> QED BY <1>6, <1>7

\* The interface: a buffer moves from its queue to a ready event.
LEMMA SendDoneStep ==
  ASSUME IInv, SendDone
  PROVE  IInv'
<1> DEFINE b == Head(spi)
<1> USE SpimAssumption
<1>1. /\ spi # << >> /\ spi' = Tail(spi) /\ sent' = sent + 1
      /\ ready' = rt_event_push(ready, "end_of_transfer", b)
      /\ pc' = pc /\ nb_enqueued' = nb_enqueued /\ nb_done' = nb_done /\ pool' = pool
      /\ pc \in {"send1", "loop"}
  BY DEF SendDone, IInv, InFlight
<1>2. /\ ready \in Seq(SpimEvent) /\ spi \in Seq(Buffer)
      /\ Len(spi) \in Nat /\ Len(ready) \in Nat /\ Len(spi) > 0
      /\ IsInjective(spi) /\ IsInjective(Waiting) /\ Range(spi) \cap Range(Waiting) = {}
  BY <1>1 DEF IInv, TypeOK, Distinct, SpimEvent
<1>3. /\ spi' \in Seq(Buffer) /\ b \in Buffer /\ Len(spi') = Len(spi) - 1
      /\ b \in Range(spi) /\ Range(spi') = Range(spi) \ {b} /\ IsInjective(spi')
  BY <1>1, <1>2, TailRange
<1>4. /\ ready' \in Seq(SpimEvent) /\ Len(ready') = Len(ready) + 1
      /\ Waiting \in Seq(Buffer) /\ Waiting' = Append(Waiting, b)
  <2> HIDE DEF b
  <2> QED BY <1>1, <1>2, <1>3, PushTransfer DEF Waiting, Args
<1>5. Range(Waiting') = Range(Waiting) \cup {b} /\ IsInjective(Waiting')
  <2>1. b \notin Range(Waiting) BY <1>2, <1>3
  <2> HIDE DEF b
  <2> QED BY <1>2, <1>3, <1>4, <2>1, AppendRange
<1>6. TypeOK'
  BY <1>1, <1>2, <1>3, <1>4 DEF IInv, TypeOK, InFlight, Flight, SpimEvent
<1>7. InFlight'
  <2>1. Flight' = Flight /\ sent' = sent + 1 /\ Len(ready') = Len(ready) + 1
    <3>1. /\ Len(spi) \in Nat /\ Len(ready) \in Nat
          /\ Len(spi') = Len(spi) - 1 /\ Len(ready') = Len(ready) + 1
      BY <1>2, <1>3, <1>4
    <3>2. Len(spi') + Len(ready') = Len(spi) + Len(ready)
      BY <3>1
    <3> QED BY <1>1, <3>1, <3>2 DEF Flight
  <2>2. sent = nb_done + Len(ready) /\ nb_done \in Nat
    BY <1>1 DEF IInv, TypeOK, InFlight
  <2>3. sent' = nb_done' + Len(ready')
    BY <1>1, <1>2, <2>1, <2>2
  <2> QED BY <1>1, <2>1, <2>3 DEF IInv, InFlight
<1>8. Distinct'
  BY <1>1, <1>2, <1>3, <1>5 DEF IInv, Distinct
<1> QED BY <1>6, <1>7, <1>8 DEF IInv

-----------------------------------------------------------------------------
(* The theorems.                                                           *)

\* Every reachable state satisfies the inductive invariant.
THEOREM Inductive == Spec => []IInv
<1>1. ASSUME IInv, [Next]_vars PROVE IInv'
  <2>1. CASE AllocEvents \/ OpenDevice \/ AllocBuffers \/ Close BY <1>1, <2>1, QuietStep
  <2>2. CASE FirstSends BY <1>1, <2>2, FirstSendsStep
  <2>3. CASE end_of_transfer BY <1>1, <2>3, CallbackStep
  <2>4. CASE SendDone BY <1>1, <2>4, SendDoneStep
  <2>5. CASE UNCHANGED vars
    BY <1>1, <2>5 DEF vars, IInv, TypeOK, InFlight, Flight, Distinct, Waiting
  <2> QED BY <1>1, <2>1, <2>2, <2>3, <2>4, <2>5 DEF Next, Main, Stopped
<1> QED BY <1>1, InitIInv, PTL DEF Spec

\* The counters and the pool keep to the numbers of transfers and events.
THEOREM TypeCorrect == Spec => []TypeOK
<1>1. IInv => TypeOK BY DEF IInv
<1> QED BY <1>1, Inductive, PTL

\* Two transfers at most are in flight, and no buffer is in two of them: a
\* callback may reuse the buffer it is given at once (end_of_transfer, line 23).
THEOREM AtMostTwo == Spec => []TwoInFlight
<1>1. IInv => TwoInFlight
  BY DEF IInv, TypeOK, InFlight, Flight, Distinct, TwoInFlight
<1> QED BY <1>1, Inductive, PTL

\* Two events serve all the transfers, as the comment at line 37 says: a send
\* finds none only when rt_event_alloc gave none.
THEOREM TwoEventsAreEnough == Spec => []EventsSuffice
<1>1. IInv => EventsSuffice
  BY DEF IInv, TypeOK, InFlight, EventsSuffice
<1> QED BY <1>1, Inductive, PTL

\* The device is closed (line 94) when the last transfer is over, never before.
THEOREM ClosedWhenOver == Spec => []ClosedQuiet
<1>1. IInv => ClosedQuiet
  BY DEF IInv, InFlight, ClosedQuiet
<1> QED BY <1>1, Inductive, PTL
=============================================================================
