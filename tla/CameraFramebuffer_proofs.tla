----------------------- MODULE CameraFramebuffer_proofs -----------------------
(***************************************************************************)
(* What TLC checks of CameraFramebuffer with three buffers, proved for     *)
(* every number of buffers and events from three up and every MaxDropped.  *)
(*                                                                         *)
(* The invariants are not inductive alone: that the free list is not empty *)
(* when a handler needs a buffer follows from how many buffers the other   *)
(* queues hold, which in turn follows from fb_pending telling the truth    *)
(* about the flush.  IInv says all of it at once.                          *)
(*                                                                         *)
(* The last part proves that the program implements the safety part of     *)
(* FrameSlots: it starts in FrameSlots' initial state, and each of its     *)
(* steps moves the slots as an action of FrameSlots does, or not at all.   *)
(* A slot's state is the one queue that holds the buffer, so each step is  *)
(* followed through the sets of buffers in the five places; the invariant  *)
(* says that they are disjoint, before and after it.                       *)
(***************************************************************************)
EXTENDS CameraRefinement, FiniteSetTheorems, TLAPS

Outstanding == Len(captures) + Len(ready) + Len(flushes)

OnlyFrames(queue) == \A i \in DOMAIN queue : queue[i].callback = "end_of_frame"
OneUpdate(queue)  == \E k \in DOMAIN queue : \A i \in DOMAIN queue :
                        (queue[i].callback = "end_of_fb_update") <=> (i = k)

\* How many buffers and events each stage of main leaves in the queues.
Counts ==
  /\ pc \in {"connect", "alloc", "open_fb", "alloc_events", "open_camera", "exited"} =>
       captures = << >> /\ ready = << >> /\ flushes = << >> /\ fb_pending = 0
  /\ pc = "connect" => first_buffer = << >>
  /\ pc = "alloc" => Len(first_buffer) < NB_BUFFERS
  /\ pc \notin {"connect", "alloc", "exited"} => Len(first_buffer) + Outstanding = NB_BUFFERS
  /\ pc \in {"connect", "alloc", "open_fb", "alloc_events"} => pool = 0
  /\ pc \in {"open_camera", "capture1", "capture2", "loop"} => pool + Outstanding = NB_EVENTS
  /\ pc = "capture1" => Outstanding = 0 /\ fb_pending = 0
  /\ pc = "capture2" => Outstanding = 1 /\ fb_pending = 0
  /\ pc = "loop" => Outstanding = 2 + fb_pending

\* Where the flush is while fb_pending says there is one.
FlushState ==
  \/ fb_pending = 0 /\ flushes = << >> /\ OnlyFrames(ready)
  \/ fb_pending = 1 /\ Len(flushes) = 1 /\ OnlyFrames(ready)
  \/ fb_pending = 1 /\ flushes = << >> /\ OneUpdate(ready)

IInv == TypeOK /\ NeverStarved /\ OneHolder /\ Counts /\ FlushState

-----------------------------------------------------------------------------
(* Sequences used as queues and lists of distinct elements: what adding    *)
(* and removing an element does to the range.                              *)

\* Appending an element adds it to the range; if it is new, none repeats.
LEMMA AppendRange ==
  ASSUME NEW S, NEW s \in Seq(S), NEW x \in S
  PROVE  /\ Append(s, x) \in Seq(S)
         /\ Len(Append(s, x)) = Len(s) + 1
         /\ Range(Append(s, x)) = Range(s) \cup {x}
         /\ IsInjective(s) /\ x \notin Range(s) => IsInjective(Append(s, x))
<1> DEFINE t == Append(s, x)
<1>1. /\ t \in Seq(S) /\ Len(t) = Len(s) + 1 /\ DOMAIN t = 1 .. Len(s) + 1
      /\ DOMAIN s = 1 .. Len(s) /\ Len(s) \in Nat
      /\ \A i \in 1 .. Len(s) : t[i] = s[i]
      /\ t[Len(s) + 1] = x
  OBVIOUS
<1>2. Range(t) = Range(s) \cup {x}
  BY <1>1 DEF Range
<1>3. ASSUME IsInjective(s), x \notin Range(s) PROVE IsInjective(t)
  BY <1>1, <1>3 DEF Range, IsInjective
<1> QED BY <1>1, <1>2, <1>3

\* Putting an element in front does the same.
LEMMA PushRange ==
  ASSUME NEW S, NEW s \in Seq(S), NEW x \in S
  PROVE  /\ << x >> \o s \in Seq(S)
         /\ Len(<< x >> \o s) = Len(s) + 1
         /\ << x >> \o s # << >>
         /\ Head(<< x >> \o s) = x
         /\ Tail(<< x >> \o s) = s
         /\ Range(<< x >> \o s) = Range(s) \cup {x}
         /\ IsInjective(s) /\ x \notin Range(s) => IsInjective(<< x >> \o s)
<1> DEFINE t == << x >> \o s
<1>1. /\ t \in Seq(S) /\ Len(t) = Len(s) + 1 /\ DOMAIN t = 1 .. Len(s) + 1
      /\ DOMAIN s = 1 .. Len(s) /\ Len(s) \in Nat
      /\ \A i \in 1 .. Len(s) : t[i + 1] = s[i]
      /\ t[1] = x
  OBVIOUS
<1>2. t # << >> /\ Head(t) = x
  BY <1>1
<1>3. Tail(t) = s
  BY <1>1
<1>4. Range(t) = Range(s) \cup {x}
  <2>1. ASSUME NEW y \in Range(t) PROVE y \in Range(s) \cup {x}
    <3>1. PICK i \in 1 .. Len(s) + 1 : y = t[i] BY <1>1, <2>1 DEF Range
    <3>2. CASE i = 1 BY <3>1, <3>2, <1>1
    <3>3. CASE i # 1
      <4>1. i - 1 \in 1 .. Len(s) /\ t[(i - 1) + 1] = s[i - 1] BY <3>1, <3>3, <1>1
      <4> QED BY <4>1, <3>1, <1>1 DEF Range
    <3> QED BY <3>2, <3>3
  <2>2. x \in Range(t)
    BY <1>1 DEF Range
  <2>3. ASSUME NEW y \in Range(s) PROVE y \in Range(t)
    <3>1. PICK i \in 1 .. Len(s) : y = s[i] BY <1>1 DEF Range
    <3>2. i + 1 \in 1 .. Len(s) + 1 /\ t[i + 1] = y BY <3>1, <1>1
    <3> QED BY <3>2, <1>1 DEF Range
  <2> QED BY <2>1, <2>2, <2>3
<1>5. ASSUME IsInjective(s), x \notin Range(s) PROVE IsInjective(t)
  <2>1. \A i \in 2 .. Len(s) + 1 : i - 1 \in DOMAIN s /\ t[i] = s[i - 1]
    <3> TAKE i \in 2 .. Len(s) + 1
    <3>1. i - 1 \in 1 .. Len(s) /\ (i - 1) + 1 = i BY <1>1
    <3> QED BY <3>1, <1>1
  <2>2. ASSUME NEW i \in DOMAIN t, NEW j \in DOMAIN t, t[i] = t[j] PROVE i = j
    BY <1>1, <1>5, <2>1, <2>2 DEF Range, IsInjective
  <2> QED BY <2>2 DEF IsInjective
<1> QED BY <1>1, <1>2, <1>3, <1>4, <1>5

\* Removing the head of a sequence without repetitions removes it from the range.
LEMMA TailRange ==
  ASSUME NEW S, NEW s \in Seq(S), s # << >>, IsInjective(s)
  PROVE  /\ Tail(s) \in Seq(S)
         /\ Head(s) \in S
         /\ Len(Tail(s)) = Len(s) - 1
         /\ Head(s) \in Range(s)
         /\ Range(Tail(s)) = Range(s) \ {Head(s)}
         /\ IsInjective(Tail(s))
<1> DEFINE t == Tail(s)
<1>1. /\ t \in Seq(S) /\ Len(t) = Len(s) - 1 /\ DOMAIN t = 1 .. Len(s) - 1
      /\ DOMAIN s = 1 .. Len(s) /\ Len(s) \in Nat /\ Len(s) > 0
      /\ \A i \in 1 .. Len(s) - 1 : t[i] = s[i + 1]
      /\ Head(s) = s[1] /\ Head(s) \in S
  OBVIOUS
<1>2. Head(s) \in Range(s)
  BY <1>1 DEF Range
<1>3. Range(t) = Range(s) \ {Head(s)}
  <2>1. ASSUME NEW y \in Range(t) PROVE y \in Range(s) \ {Head(s)}
    BY <1>1, <2>1 DEF Range, IsInjective
  <2>2. ASSUME NEW y \in Range(s) \ {Head(s)} PROVE y \in Range(t)
    <3>1. PICK i \in 1 .. Len(s) : y = s[i] /\ i # 1 BY <1>1, <2>2 DEF Range
    <3>2. i - 1 \in 1 .. Len(s) - 1 /\ (i - 1) + 1 = i BY <3>1, <1>1
    <3> QED BY <3>1, <3>2, <1>1 DEF Range
  <2> QED BY <2>1, <2>2
<1>4. IsInjective(t)
  BY <1>1 DEF IsInjective
<1> QED BY <1>1, <1>2, <1>3, <1>4

-----------------------------------------------------------------------------
(* The queue of ready events.                                              *)

Args(queue) == [i \in DOMAIN queue |-> queue[i].arg]

\* Pushing an event pushes its buffer; a frame keeps the kind of the queue, and
\* a completed flush makes a queue of frames a queue with one update.
LEMMA PushReady ==
  ASSUME NEW q \in Seq(Event(Callback, Buffer)), NEW c \in Callback, NEW b \in Buffer
  PROVE  LET r == rt_event_push(q, c, b)
         IN  /\ r \in Seq(Event(Callback, Buffer))
             /\ Len(r) = Len(q) + 1
             /\ Args(q) \in Seq(Buffer)
             /\ Args(r) = Append(Args(q), b)
             /\ c = "end_of_frame" /\ OnlyFrames(q) => OnlyFrames(r)
             /\ c = "end_of_frame" /\ OneUpdate(q) => OneUpdate(r)
             /\ c = "end_of_fb_update" /\ OnlyFrames(q) => OneUpdate(r)
<1> DEFINE e == [callback |-> c, arg |-> b]
           r == Append(q, e)
<1>1. e \in Event(Callback, Buffer) /\ e.callback = c /\ e.arg = b
  BY DEF Event
<1>2. /\ r \in Seq(Event(Callback, Buffer)) /\ Len(r) = Len(q) + 1
      /\ Len(q) \in Nat /\ DOMAIN q = 1 .. Len(q) /\ DOMAIN r = 1 .. Len(q) + 1
      /\ \A i \in 1 .. Len(q) : r[i] = q[i] /\ q[i] \in Event(Callback, Buffer)
      /\ r[Len(q) + 1] = e
  BY <1>1
<1>2a. \A i \in 1 .. Len(q) : q[i].arg \in Buffer
  BY <1>2 DEF Event
<1>3. Args(q) \in Seq(Buffer) /\ Len(Args(q)) = Len(q)
  BY <1>2, <1>2a DEF Args
<1>4. Args(r) = Append(Args(q), b)
  BY <1>1, <1>2, <1>3, <1>2a DEF Args
<1>5. ASSUME c = "end_of_frame", OnlyFrames(q) PROVE OnlyFrames(r)
  BY <1>1, <1>2, <1>5 DEF OnlyFrames
<1>6. ASSUME c = "end_of_frame", OneUpdate(q) PROVE OneUpdate(r)
  <2>1. PICK k \in DOMAIN q : \A i \in DOMAIN q :
                (q[i].callback = "end_of_fb_update") <=> (i = k)
    BY <1>6 DEF OneUpdate
  <2>2. k \in DOMAIN r /\ \A i \in DOMAIN r :
                (r[i].callback = "end_of_fb_update") <=> (i = k)
    BY <1>1, <1>2, <1>6, <2>1
  <2> QED BY <2>2 DEF OneUpdate
<1>7. ASSUME c = "end_of_fb_update", OnlyFrames(q) PROVE OneUpdate(r)
  BY <1>1, <1>2, <1>7 DEF OnlyFrames, OneUpdate
<1> QED BY <1>2, <1>3, <1>4, <1>5, <1>6, <1>7 DEF rt_event_push

\* Popping an event pops its buffer; what is left has an update if and only if
\* there was one and it was not the head.
LEMMA PopReady ==
  ASSUME NEW q \in Seq(Event(Callback, Buffer)), q # << >>
  PROVE  LET r == rt_event_pop(q)
         IN  /\ r \in Seq(Event(Callback, Buffer))
             /\ Len(r) = Len(q) - 1
             /\ Args(q) \in Seq(Buffer) /\ Args(q) # << >>
             /\ Head(q).arg = Head(Args(q)) /\ Head(q).arg \in Buffer
             /\ Args(r) = Tail(Args(q))
             /\ OnlyFrames(q) => OnlyFrames(r) /\ Head(q).callback = "end_of_frame"
             /\ OneUpdate(q) /\ Head(q).callback = "end_of_fb_update" => OnlyFrames(r)
             /\ OneUpdate(q) /\ Head(q).callback = "end_of_frame" => OneUpdate(r)
<1> DEFINE r == Tail(q)
<1>1. /\ r \in Seq(Event(Callback, Buffer)) /\ Len(r) = Len(q) - 1
      /\ Len(q) \in Nat /\ Len(q) > 0
      /\ DOMAIN q = 1 .. Len(q) /\ DOMAIN r = 1 .. Len(q) - 1
      /\ \A i \in 1 .. Len(q) - 1 : r[i] = q[i + 1]
      /\ Head(q) = q[1]
      /\ \A i \in 1 .. Len(q) : q[i] \in Event(Callback, Buffer)
  OBVIOUS
<1>2. \A i \in 1 .. Len(q) : q[i].arg \in Buffer /\ q[i].callback \in Callback
  BY <1>1 DEF Event
<1>3. Args(q) \in Seq(Buffer) /\ Len(Args(q)) = Len(q) /\ Args(q) # << >>
      /\ Head(q).arg = Head(Args(q)) /\ Head(q).arg \in Buffer
  BY <1>1, <1>2 DEF Args
<1>4. Args(r) = Tail(Args(q))
  BY <1>1, <1>2, <1>3 DEF Args
<1>5. ASSUME OnlyFrames(q) PROVE OnlyFrames(r) /\ Head(q).callback = "end_of_frame"
  BY <1>1, <1>5 DEF OnlyFrames
<1>6. ASSUME OneUpdate(q), Head(q).callback = "end_of_fb_update" PROVE OnlyFrames(r)
  BY <1>1, <1>2, <1>6 DEF OnlyFrames, OneUpdate, Callback
<1>7. ASSUME OneUpdate(q), Head(q).callback = "end_of_frame" PROVE OneUpdate(r)
  <2>0. PICK m \in DOMAIN q : \A i \in DOMAIN q :
                (q[i].callback = "end_of_fb_update") <=> (i = m)
    BY <1>7 DEF OneUpdate
  <2>1. PICK k \in 1 .. Len(q) : \A i \in 1 .. Len(q) :
                (q[i].callback = "end_of_fb_update") <=> (i = k)
    BY <1>1, <2>0
  <2>2. k # 1 BY <2>1, <1>1, <1>7
  <2>3. k - 1 \in DOMAIN r BY <2>1, <2>2, <1>1
  <2>4. \A i \in DOMAIN r : (r[i].callback = "end_of_fb_update") <=> (i = k - 1)
    BY <2>1, <1>1
  <2> QED BY <2>3, <2>4 DEF OneUpdate
<1> QED BY <1>1, <1>3, <1>4, <1>5, <1>6, <1>7 DEF rt_event_pop

-----------------------------------------------------------------------------
(* IInv is inductive.  Each kind of step is a lemma of its own.            *)

\* The queues as the sets and lengths the steps below argue with.
LEMMA InitIInv == Init => IInv
<1> SUFFICES ASSUME Init PROVE IInv OBVIOUS
<1> USE DEF Init
<1>1. TypeOK BY DEF TypeOK, PC
<1>2. NeverStarved BY DEF NeverStarved, Faults
<1>3. OneHolder BY DEF OneHolder, Range, IsInjective, Waiting, Allocated
<1>4. Counts BY CameraAssumption DEF Counts, Outstanding
<1>5. FlushState BY DEF FlushState, OnlyFrames
<1> QED BY <1>1, <1>2, <1>3, <1>4, <1>5 DEF IInv

\* main before its first capture: only the free list and the pool change.
LEMMA StartUpStep ==
  ASSUME IInv, Connect \/ AllocBuffer \/ OpenFramebuffer \/ AllocEvents \/ OpenCamera
  PROVE  IInv'
<1> USE DEF Jump, rt_event_alloc
<1>1. /\ ready' = ready /\ flushes' = flushes /\ captures' = captures
      /\ fb_pending' = fb_pending /\ dropped' = dropped
      /\ captures = << >> /\ ready = << >> /\ flushes = << >> /\ fb_pending = 0
  BY DEF IInv, Counts, Connect, AllocBuffer, OpenFramebuffer, AllocEvents, OpenCamera
<1>2. Waiting = << >> /\ Waiting' = << >> /\ Range(captures) = {} /\ Range(flushes) = {}
      /\ Range(Waiting) = {} /\ IsInjective(captures) /\ IsInjective(flushes)
      /\ IsInjective(Waiting)
  BY <1>1 DEF Waiting, Range, IsInjective
<1>3. FlushState'
  BY <1>1 DEF FlushState, OnlyFrames
<1>4. CASE UNCHANGED first_buffer /\ ~AllocBuffer
  <2>1. TypeOK'
    BY <1>1, <1>4, CameraAssumption
       DEF IInv, TypeOK, PC, Connect, OpenFramebuffer, AllocEvents, OpenCamera
  <2>2. NeverStarved'
    BY <1>4 DEF NeverStarved, Faults, Connect, OpenFramebuffer, AllocEvents, OpenCamera
  <2>3. Counts'
    BY <1>1, <1>4, CameraAssumption
       DEF IInv, TypeOK, Counts, Outstanding, Connect, OpenFramebuffer, AllocEvents, OpenCamera
  <2>4. Allocated' = Allocated
    BY <1>1, <1>4, <2>3 DEF IInv, TypeOK, Counts, Outstanding, Allocated, Buffer, Connect,
                            OpenFramebuffer, AllocEvents, OpenCamera
  <2>5. OneHolder'
    BY <1>1, <1>2, <1>4, <2>4 DEF IInv, OneHolder
  <2> QED BY <1>3, <2>1, <2>2, <2>3, <2>5 DEF IInv
<1>5. CASE AllocBuffer /\ UNCHANGED first_buffer
  <2>1. TypeOK' /\ NeverStarved' /\ Counts'
    BY <1>1, <1>5 DEF AllocBuffer, IInv, TypeOK, PC, Faults, NeverStarved, Counts, Outstanding
  <2>2. Allocated' = Allocated
    BY <1>5 DEF AllocBuffer, Allocated
  <2>3. OneHolder'
    BY <1>1, <1>2, <1>5, <2>2 DEF IInv, OneHolder
  <2> QED BY <1>3, <2>1, <2>3 DEF IInv
<1>6. CASE AllocBuffer /\ ~UNCHANGED first_buffer
  <2> DEFINE i == Len(first_buffer) + 1
  <2>1. /\ pc = "alloc" /\ pc' = (IF i = NB_BUFFERS THEN "open_fb" ELSE "alloc")
        /\ first_buffer' = << i >> \o first_buffer /\ pool' = pool
    BY <1>6 DEF AllocBuffer
  <2>2. /\ first_buffer \in Seq(Buffer) /\ Len(first_buffer) \in Nat
        /\ Len(first_buffer) < NB_BUFFERS /\ pool = 0
    BY <2>1 DEF IInv, TypeOK, Counts
  <2>3. Range(first_buffer) = 1 .. Len(first_buffer) /\ IsInjective(first_buffer)
    BY <2>1, <1>2 DEF IInv, OneHolder, Allocated
  <2>4. i \in Buffer /\ i \notin Range(first_buffer)
    BY <2>2, <2>3, CameraAssumption DEF Buffer
  <2>5. /\ first_buffer' \in Seq(Buffer) /\ Len(first_buffer') = i
        /\ Range(first_buffer') = Range(first_buffer) \cup {i}
        /\ IsInjective(first_buffer')
    <3> HIDE DEF i
    <3> QED BY <2>1, <2>2, <2>3, <2>4, PushRange DEF i
  <2>6. Range(first_buffer') = 1 .. i
    BY <2>2, <2>3, <2>5
  <2>7. TypeOK' /\ NeverStarved'
    BY <1>1, <2>1, <2>5 DEF IInv, TypeOK, PC, NeverStarved, Faults
  <2>8. Counts'
    BY <1>1, <2>1, <2>2, <2>5, CameraAssumption DEF Counts, Outstanding
  <2>9. Allocated' = 1 .. i
    BY <2>1, <2>5 DEF Allocated, Buffer
  <2>10. OneHolder'
    BY <1>1, <1>2, <2>5, <2>6, <2>9 DEF OneHolder
  <2> QED BY <1>3, <2>7, <2>8, <2>10 DEF IInv
<1> QED BY <1>4, <1>5, <1>6 DEF Connect, OpenFramebuffer, AllocEvents, OpenCamera

\* enqueue_capture with a buffer and the events it needs moves the head of the
\* free list to the end of the camera's queue.
LEMMA EnqueueCapture ==
  ASSUME NEW free \in Seq(Buffer), NEW events \in Nat, NEW wanted \in Nat, NEW next,
         free # << >>, events >= wanted, captures \in Seq(Buffer),
         IsInjective(free), IsInjective(captures), Range(free) \cap Range(captures) = {},
         enqueue_capture(free, events, wanted, next)
  PROVE  /\ pc' = next
         /\ pool' = events - wanted /\ pool' \in Nat
         /\ first_buffer' \in Seq(Buffer) /\ Len(first_buffer') = Len(free) - 1
         /\ captures' \in Seq(Buffer) /\ Len(captures') = Len(captures) + 1
         /\ IsInjective(first_buffer') /\ IsInjective(captures')
         /\ \E h \in Range(free) :
              /\ Range(first_buffer') = Range(free) \ {h}
              /\ Range(captures') = Range(captures) \cup {h}
<1>1. Missing(free, events, wanted) = "nothing"
  BY DEF Missing, HasEvents
<1>2. /\ pc' = next /\ pool' = events - wanted
      /\ first_buffer' = Tail(free) /\ captures' = Append(captures, Head(free))
  BY <1>1 DEF enqueue_capture, rt_event_get
<1>3. /\ Tail(free) \in Seq(Buffer) /\ Head(free) \in Buffer
      /\ Len(Tail(free)) = Len(free) - 1 /\ Head(free) \in Range(free)
      /\ Range(Tail(free)) = Range(free) \ {Head(free)} /\ IsInjective(Tail(free))
  BY TailRange
<1>4. Head(free) \notin Range(captures)
  BY <1>3
<1>5. /\ captures' \in Seq(Buffer) /\ Len(captures') = Len(captures) + 1
      /\ Range(captures') = Range(captures) \cup {Head(free)} /\ IsInjective(captures')
  <2> DEFINE h == Head(free)
  <2>1. h \in Buffer /\ h \notin Range(captures) /\ captures' = Append(captures, h)
    BY <1>2, <1>3, <1>4
  <2> HIDE DEF h
  <2>2. /\ captures' \in Seq(Buffer) /\ Len(captures') = Len(captures) + 1
        /\ Range(captures') = Range(captures) \cup {h} /\ IsInjective(captures')
    BY <2>1, AppendRange
  <2> QED BY <2>2 DEF h
<1>6. pool' \in Nat BY <1>2
<1> QED BY <1>2, <1>3, <1>5, <1>6

\* The two captures main queues before its loop.
LEMMA FirstCapturesStep ==
  ASSUME IInv, FirstCaptures
  PROVE  IInv'
<1> DEFINE next == IF pc = "capture1" THEN "capture2" ELSE "loop"
<1>1. /\ pc \in {"capture1", "capture2"}
      /\ enqueue_capture(first_buffer, pool, 1, next)
      /\ fb_pending' = fb_pending /\ dropped' = dropped
      /\ ready' = ready /\ flushes' = flushes
  BY DEF FirstCaptures
<1>2. /\ first_buffer \in Seq(Buffer) /\ captures \in Seq(Buffer) /\ flushes \in Seq(Buffer)
      /\ Len(first_buffer) \in Nat /\ Len(captures) \in Nat /\ Len(flushes) \in Nat
      /\ Len(ready) \in Nat /\ pool \in Nat /\ fb_pending = 0
      /\ Len(first_buffer) + Outstanding = NB_BUFFERS /\ pool + Outstanding = NB_EVENTS
      /\ Outstanding = IF pc = "capture1" THEN 0 ELSE 1
  BY <1>1 DEF IInv, TypeOK, Counts
<1>3. Len(first_buffer) >= 2 /\ pool >= 2 /\ first_buffer # << >>
  BY <1>2, CameraAssumption DEF Outstanding
<1>4. /\ IsInjective(first_buffer) /\ IsInjective(captures)
      /\ Range(first_buffer) \cap Range(captures) = {}
  BY DEF IInv, OneHolder
<1>5. /\ pc' = next /\ pool' = pool - 1 /\ pool' \in Nat
      /\ first_buffer' \in Seq(Buffer) /\ Len(first_buffer') = Len(first_buffer) - 1
      /\ captures' \in Seq(Buffer) /\ Len(captures') = Len(captures) + 1
      /\ IsInjective(first_buffer') /\ IsInjective(captures')
      /\ \E h \in Range(first_buffer) :
           /\ Range(first_buffer') = Range(first_buffer) \ {h}
           /\ Range(captures') = Range(captures) \cup {h}
  <2> HIDE DEF next
  <2> QED BY <1>1, <1>2, <1>3, <1>4, EnqueueCapture
<1>6. TypeOK' /\ NeverStarved'
  BY <1>1, <1>5 DEF IInv, TypeOK, PC, NeverStarved, Faults
<1>7. Counts'
  BY <1>1, <1>2, <1>5 DEF Counts, Outstanding
<1>8. FlushState'
  BY <1>1 DEF IInv, FlushState
<1>9. OneHolder'
  <2>1. Waiting' = Waiting BY <1>1 DEF Waiting
  <2>2. Allocated' = Buffer /\ Allocated = Buffer BY <1>1, <1>5 DEF Allocated
  <2>3. Range(flushes') = Range(flushes) /\ Range(Waiting') = Range(Waiting) BY <1>1, <2>1
  <2>4. IsInjective(flushes') /\ IsInjective(Waiting') BY <1>1, <2>1 DEF IInv, OneHolder
  <2> QED BY <1>5, <2>2, <2>3, <2>4 DEF IInv, OneHolder
<1> QED BY <1>6, <1>7, <1>8, <1>9 DEF IInv

\* What every callback finds when it runs: the buffer it is given is in no list.
LEMMA CallbackFinds ==
  ASSUME IInv, NEW c \in Callback, Runs(c)
  PROVE  /\ pc = "loop" /\ Head(ready).callback = c
         /\ Head(ready).arg \in Buffer
         /\ ready' \in Seq(Event(Callback, Buffer))
         /\ Len(ready) \in Nat /\ Len(ready) > 0 /\ Len(ready') = Len(ready) - 1
         /\ Head(ready).arg \in Range(Waiting)
         /\ Range(Waiting') = Range(Waiting) \ {Head(ready).arg}
         /\ IsInjective(Waiting')
         /\ OnlyFrames(ready) => c = "end_of_frame" /\ OnlyFrames(ready')
         /\ OneUpdate(ready) /\ c = "end_of_fb_update" => OnlyFrames(ready')
         /\ OneUpdate(ready) /\ c = "end_of_frame" => OneUpdate(ready')
<1>1. /\ pc = "loop" /\ ready # << >> /\ Head(ready).callback = c
      /\ ready' = rt_event_pop(ready)
  BY DEF Runs, Dispatches
<1>2. ready \in Seq(Event(Callback, Buffer)) /\ Waiting = Args(ready)
      /\ Waiting' = Args(ready') /\ IsInjective(Waiting)
  BY DEF IInv, TypeOK, OneHolder, Waiting, Args
<1>3. Len(ready) \in Nat /\ Len(ready) > 0
  BY <1>1, <1>2
<1>4. /\ ready' \in Seq(Event(Callback, Buffer)) /\ Len(ready') = Len(ready) - 1
      /\ Args(ready) \in Seq(Buffer) /\ Args(ready) # << >>
      /\ Head(ready).arg = Head(Args(ready)) /\ Head(ready).arg \in Buffer
      /\ Args(ready') = Tail(Args(ready))
      /\ OnlyFrames(ready) => OnlyFrames(ready') /\ Head(ready).callback = "end_of_frame"
      /\ OneUpdate(ready) /\ Head(ready).callback = "end_of_fb_update" => OnlyFrames(ready')
      /\ OneUpdate(ready) /\ Head(ready).callback = "end_of_frame" => OneUpdate(ready')
  BY <1>1, <1>2, PopReady
<1>5. /\ Head(Waiting) \in Range(Waiting)
      /\ Range(Tail(Waiting)) = Range(Waiting) \ {Head(Waiting)}
      /\ IsInjective(Tail(Waiting))
  BY <1>2, <1>4, TailRange
<1> QED BY <1>1, <1>2, <1>3, <1>4, <1>5

\* The numbers a callback in the loop can count on.
LEMMA LoopFacts ==
  ASSUME IInv, pc = "loop"
  PROVE  /\ first_buffer \in Seq(Buffer) /\ captures \in Seq(Buffer) /\ flushes \in Seq(Buffer)
         /\ Len(first_buffer) \in Nat /\ Len(captures) \in Nat /\ Len(flushes) \in Nat
         /\ Len(ready) \in Nat /\ pool \in Nat /\ fb_pending \in {0, 1} /\ dropped \in Nat
         /\ Len(first_buffer) = NB_BUFFERS - 2 - fb_pending
         /\ pool = NB_EVENTS - 2 - fb_pending
         /\ Len(captures) + Len(ready) + Len(flushes) = 2 + fb_pending
         /\ IsInjective(first_buffer) /\ IsInjective(captures) /\ IsInjective(flushes)
         /\ Range(first_buffer) \cap (Range(captures) \cup Range(flushes) \cup Range(Waiting)) = {}
         /\ Range(captures) \cap (Range(flushes) \cup Range(Waiting)) = {}
         /\ Range(flushes) \cap Range(Waiting) = {}
         /\ Buffer = Range(first_buffer) \cup Range(captures)
                       \cup Range(flushes) \cup Range(Waiting)
<1>1. /\ first_buffer \in Seq(Buffer) /\ captures \in Seq(Buffer) /\ flushes \in Seq(Buffer)
      /\ Len(first_buffer) \in Nat /\ Len(captures) \in Nat /\ Len(flushes) \in Nat
      /\ Len(ready) \in Nat /\ pool \in Nat /\ fb_pending \in {0, 1} /\ dropped \in Nat
  BY DEF IInv, TypeOK
<1>2. /\ Len(first_buffer) + Outstanding = NB_BUFFERS /\ pool + Outstanding = NB_EVENTS
      /\ Outstanding = 2 + fb_pending
  BY DEF IInv, Counts
<1>3. /\ Len(first_buffer) = NB_BUFFERS - 2 - fb_pending
      /\ pool = NB_EVENTS - 2 - fb_pending
      /\ Len(captures) + Len(ready) + Len(flushes) = 2 + fb_pending
  BY <1>1, <1>2, CameraAssumption DEF Outstanding
<1> QED BY <1>1, <1>3 DEF IInv, OneHolder, Allocated

\* Counts in the loop, from the three sums it amounts to.
LEMMA LoopCounts ==
  ASSUME pc' = "loop",
         Len(first_buffer') \in Nat, Len(captures') \in Nat, Len(flushes') \in Nat,
         Len(ready') \in Nat, pool' \in Nat, fb_pending' \in {0, 1},
         Len(first_buffer') = NB_BUFFERS - 2 - fb_pending',
         pool' = NB_EVENTS - 2 - fb_pending',
         Len(captures') + Len(ready') + Len(flushes') = 2 + fb_pending'
  PROVE  Counts' /\ NeverStarved'
<1>1. /\ Outstanding' = 2 + fb_pending'
      /\ Len(first_buffer') + Outstanding' = NB_BUFFERS
      /\ pool' + Outstanding' = NB_EVENTS
  <2>1. Outstanding' = 2 + fb_pending'
    BY DEF Outstanding
  <2>2. /\ Len(first_buffer') + (2 + fb_pending') = NB_BUFFERS
        /\ pool' + (2 + fb_pending') = NB_EVENTS
    <3>1. \A f \in {0, 1} : /\ (NB_BUFFERS - 2 - f) + (2 + f) = NB_BUFFERS
                            /\ (NB_EVENTS - 2 - f) + (2 + f) = NB_EVENTS
      BY CameraAssumption
    <3> QED BY <3>1
  <2> QED BY <2>1, <2>2
<1>2. Counts'
  BY <1>1 DEF Counts
<1>3. NeverStarved'
  BY DEF NeverStarved, Faults
<1> QED BY <1>2, <1>3

\* OneHolder in the loop, from the four sets it is about.
LEMMA LoopHolders ==
  ASSUME pc' = "loop",
         IsInjective(first_buffer'), IsInjective(captures'),
         IsInjective(flushes'), IsInjective(Waiting'),
         NEW F, NEW C, NEW D, NEW W,
         Range(first_buffer') = F, Range(captures') = C,
         Range(flushes') = D, Range(Waiting') = W,
         F \cap (C \cup D \cup W) = {}, C \cap (D \cup W) = {}, D \cap W = {},
         Buffer = F \cup C \cup D \cup W
  PROVE  OneHolder'
BY DEF OneHolder, Allocated

\* The flushed buffer goes from the ready queue to the free list.
LEMMA EndOfFbUpdateStep ==
  ASSUME IInv, end_of_fb_update
  PROVE  IInv'
<1> DEFINE b == Head(ready).arg
<1>1. /\ Runs("end_of_fb_update") /\ first_buffer' = << b >> \o first_buffer
      /\ fb_pending' = 0 /\ pool' = pool + 1
      /\ pc' = pc /\ dropped' = dropped /\ captures' = captures /\ flushes' = flushes
  BY DEF end_of_fb_update, rt_event_free
<1>2. /\ pc = "loop" /\ b \in Buffer /\ b \in Range(Waiting)
      /\ ready' \in Seq(Event(Callback, Buffer))
      /\ Len(ready) > 0 /\ Len(ready') = Len(ready) - 1
      /\ Range(Waiting') = Range(Waiting) \ {b} /\ IsInjective(Waiting')
      /\ ~OnlyFrames(ready)
      /\ OneUpdate(ready) => OnlyFrames(ready')
  <2>1. "end_of_fb_update" \in Callback BY DEF Callback
  <2> QED BY <1>1, <2>1, CallbackFinds
<1>3. fb_pending = 1 /\ flushes = << >> /\ OneUpdate(ready)
  BY <1>2 DEF IInv, FlushState
<1> HIDE DEF b
<1>4. /\ first_buffer' \in Seq(Buffer) /\ Len(first_buffer') = Len(first_buffer) + 1
      /\ Range(first_buffer') = Range(first_buffer) \cup {b}
      /\ IsInjective(first_buffer')
  BY <1>1, <1>2, LoopFacts, PushRange
<1>5. TypeOK'
  BY <1>1, <1>2, <1>4 DEF IInv, TypeOK
<1>6. Counts' /\ NeverStarved'
  <2>1. /\ Len(first_buffer') = NB_BUFFERS - 2 /\ pool' = NB_EVENTS - 2
        /\ Len(captures') + Len(ready') + Len(flushes') = 2
        /\ Len(first_buffer') \in Nat /\ Len(captures') \in Nat /\ Len(flushes') \in Nat
        /\ Len(ready') \in Nat /\ pool' \in Nat
    BY <1>1, <1>2, <1>3, <1>4, LoopFacts, CameraAssumption
  <2>2. pc' = "loop" /\ fb_pending' = 0 BY <1>1, <1>2
  <2> QED BY <2>1, <2>2, LoopCounts
<1>7. FlushState'
  BY <1>1, <1>2, <1>3 DEF FlushState
<1>8. OneHolder'
  <2> DEFINE F == Range(first_buffer)
             C == Range(captures)
             D == Range(flushes)
             W == Range(Waiting)
  <2>1. /\ IsInjective(captures') /\ IsInjective(flushes')
        /\ Range(captures') = C /\ Range(flushes') = D
        /\ F \cap (C \cup D \cup W) = {} /\ C \cap (D \cup W) = {} /\ D \cap W = {}
        /\ Buffer = F \cup C \cup D \cup W
    BY <1>1, <1>2, LoopFacts
  <2>2. /\ pc' = "loop" /\ b \in W
        /\ Range(first_buffer') = F \cup {b} /\ IsInjective(first_buffer')
        /\ Range(Waiting') = W \ {b} /\ IsInjective(Waiting')
    BY <1>1, <1>2, <1>4
  <2> HIDE DEF F, C, D, W
  <2>3. /\ (F \cup {b}) \cap (C \cup D \cup (W \ {b})) = {}
        /\ C \cap (D \cup (W \ {b})) = {} /\ D \cap (W \ {b}) = {}
        /\ Buffer = (F \cup {b}) \cup C \cup D \cup (W \ {b})
    BY <2>1, <2>2
  <2> QED BY <2>1, <2>2, <2>3, LoopHolders
<1> QED BY <1>5, <1>6, <1>7, <1>8 DEF IInv

\* A frame goes to the bridge and a free buffer to the camera.
LEMMA FlushFrameStep ==
  ASSUME IInv, FlushFrame
  PROVE  IInv'
<1> DEFINE b == Head(ready).arg
<1>1. /\ Runs("end_of_frame") /\ fb_pending = 0
      /\ enqueue_capture(first_buffer, pool + 1, 2, "loop")
      /\ fb_pending' = 1 /\ flushes' = Append(flushes, b) /\ dropped' = 0
  BY DEF FlushFrame, rt_event_free
<1>2. /\ pc = "loop" /\ b \in Buffer /\ b \in Range(Waiting)
      /\ ready' \in Seq(Event(Callback, Buffer))
      /\ Len(ready) > 0 /\ Len(ready') = Len(ready) - 1
      /\ Range(Waiting') = Range(Waiting) \ {b} /\ IsInjective(Waiting')
      /\ OnlyFrames(ready) => OnlyFrames(ready')
  <2>1. "end_of_frame" \in Callback BY DEF Callback
  <2> QED BY <1>1, <2>1, CallbackFinds
<1>3. flushes = << >> /\ OnlyFrames(ready')
  BY <1>1, <1>2 DEF IInv, FlushState
<1> HIDE DEF b
<1>4. /\ first_buffer # << >> /\ pool + 1 >= 2 /\ pool + 1 \in Nat
  <2>1. Len(first_buffer) >= 1 /\ pool >= 1 /\ pool \in Nat
    BY <1>1, <1>2, LoopFacts, CameraAssumption
  <2> QED BY <2>1
<1>5. /\ pc' = "loop" /\ pool' = (pool + 1) - 2 /\ pool' \in Nat
      /\ first_buffer' \in Seq(Buffer) /\ Len(first_buffer') = Len(first_buffer) - 1
      /\ captures' \in Seq(Buffer) /\ Len(captures') = Len(captures) + 1
      /\ IsInjective(first_buffer') /\ IsInjective(captures')
      /\ \E h \in Range(first_buffer) :
           /\ Range(first_buffer') = Range(first_buffer) \ {h}
           /\ Range(captures') = Range(captures) \cup {h}
  <2>1. /\ first_buffer \in Seq(Buffer) /\ captures \in Seq(Buffer)
        /\ IsInjective(first_buffer) /\ IsInjective(captures)
        /\ Range(first_buffer) \cap Range(captures) = {}
    BY <1>2, LoopFacts
  <2> DEFINE events == pool + 1
  <2>2. /\ events \in Nat /\ events >= 2 /\ enqueue_capture(first_buffer, events, 2, "loop")
        /\ pool + 1 = events
    BY <1>1, <1>4
  <2> HIDE DEF events
  <2> QED BY <1>4, <2>1, <2>2, EnqueueCapture
<1>6. /\ flushes' \in Seq(Buffer) /\ Len(flushes') = Len(flushes) + 1
      /\ Range(flushes') = Range(flushes) \cup {b} /\ IsInjective(flushes')
  <2>1. b \notin Range(flushes) BY <1>2, LoopFacts
  <2> QED BY <1>1, <1>2, <2>1, LoopFacts, AppendRange
<1>7. TypeOK'
  BY <1>1, <1>2, <1>5, <1>6 DEF IInv, TypeOK, PC
<1>8. Counts' /\ NeverStarved'
  <2>1. /\ Len(first_buffer') = NB_BUFFERS - 2 - 1 /\ pool' = NB_EVENTS - 2 - 1
        /\ Len(captures') + Len(ready') + Len(flushes') = 2 + 1
        /\ Len(first_buffer') \in Nat /\ Len(captures') \in Nat /\ Len(flushes') \in Nat
        /\ Len(ready') \in Nat
    <3>1. /\ Len(first_buffer) = NB_BUFFERS - 2 /\ pool = NB_EVENTS - 2
          /\ Len(captures) + Len(ready) + Len(flushes) = 2
          /\ Len(first_buffer) \in Nat /\ Len(captures) \in Nat /\ Len(flushes) \in Nat
          /\ Len(ready) \in Nat /\ pool \in Nat
      BY <1>1, <1>2, LoopFacts, CameraAssumption
    <3>2. /\ Len(first_buffer') = Len(first_buffer) - 1 /\ pool' = (pool + 1) - 2
          /\ Len(captures') = Len(captures) + 1 /\ Len(flushes') = Len(flushes) + 1
          /\ Len(ready') = Len(ready) - 1 /\ Len(ready) > 0 /\ first_buffer # << >>
      BY <1>2, <1>4, <1>5, <1>6
    <3>3. Len(first_buffer) > 0
      BY <1>4, <3>1, LoopFacts, <1>2
    <3> QED BY <3>1, <3>2, <3>3, CameraAssumption
  <2> QED BY <2>1, <1>1, <1>5, LoopCounts
<1>9. FlushState'
  BY <1>1, <1>3, <1>6 DEF FlushState
<1>10. OneHolder'
  <2> DEFINE F == Range(first_buffer)
             C == Range(captures)
             D == Range(flushes)
             W == Range(Waiting)
  <2>1. /\ F \cap (C \cup D \cup W) = {} /\ C \cap (D \cup W) = {} /\ D \cap W = {}
        /\ Buffer = F \cup C \cup D \cup W
    BY <1>2, LoopFacts
  <2>2. PICK h \in F : Range(first_buffer') = F \ {h} /\ Range(captures') = C \cup {h}
    BY <1>5
  <2>3. /\ pc' = "loop" /\ b \in W
        /\ IsInjective(first_buffer') /\ IsInjective(captures')
        /\ IsInjective(flushes') /\ Range(flushes') = D \cup {b}
        /\ Range(Waiting') = W \ {b} /\ IsInjective(Waiting')
    BY <1>2, <1>5, <1>6
  <2> HIDE DEF F, C, D, W
  <2>4. /\ (F \ {h}) \cap ((C \cup {h}) \cup (D \cup {b}) \cup (W \ {b})) = {}
        /\ (C \cup {h}) \cap ((D \cup {b}) \cup (W \ {b})) = {}
        /\ (D \cup {b}) \cap (W \ {b}) = {}
        /\ Buffer = (F \ {h}) \cup (C \cup {h}) \cup (D \cup {b}) \cup (W \ {b})
    BY <2>1, <2>2, <2>3
  <2> QED BY <2>2, <2>3, <2>4, LoopHolders
<1> QED BY <1>7, <1>8, <1>9, <1>10 DEF IInv

\* A dropped frame's buffer goes to the free list, whose head goes to the camera.
LEMMA DropFrameStep ==
  ASSUME IInv, DropFrame
  PROVE  IInv'
<1> DEFINE b    == Head(ready).arg
           free == << b >> \o first_buffer
<1>1. /\ Runs("end_of_frame") /\ fb_pending # 0
      /\ enqueue_capture(free, pool + 1, 1, "loop")
      /\ fb_pending' = fb_pending /\ flushes' = flushes /\ dropped' = dropped + 1
  BY DEF DropFrame, rt_event_free
<1>2. /\ pc = "loop" /\ b \in Buffer /\ b \in Range(Waiting)
      /\ Head(ready).callback = "end_of_frame"
      /\ ready' \in Seq(Event(Callback, Buffer))
      /\ Len(ready) > 0 /\ Len(ready') = Len(ready) - 1
      /\ Range(Waiting') = Range(Waiting) \ {b} /\ IsInjective(Waiting')
      /\ OnlyFrames(ready) => OnlyFrames(ready')
      /\ OneUpdate(ready) => OneUpdate(ready')
  <2>1. "end_of_frame" \in Callback BY DEF Callback
  <2> QED BY <1>1, <2>1, CallbackFinds
<1> HIDE DEF b
<1>3. /\ free \in Seq(Buffer) /\ Len(free) = Len(first_buffer) + 1 /\ free # << >>
      /\ Range(free) = Range(first_buffer) \cup {b} /\ IsInjective(free)
  <2>1. b \notin Range(first_buffer) BY <1>2, LoopFacts
  <2> QED BY <1>2, <2>1, LoopFacts, PushRange
<1> HIDE DEF free
<1>4. pool + 1 >= 1 /\ pool + 1 \in Nat
  <2>1. pool \in Nat BY <1>2, LoopFacts
  <2> QED BY <2>1
<1>5. /\ pc' = "loop" /\ pool' = (pool + 1) - 1 /\ pool' \in Nat
      /\ first_buffer' \in Seq(Buffer) /\ Len(first_buffer') = Len(free) - 1
      /\ captures' \in Seq(Buffer) /\ Len(captures') = Len(captures) + 1
      /\ IsInjective(first_buffer') /\ IsInjective(captures')
      /\ \E h \in Range(free) :
           /\ Range(first_buffer') = Range(free) \ {h}
           /\ Range(captures') = Range(captures) \cup {h}
  <2>1. captures \in Seq(Buffer) /\ IsInjective(captures)
        /\ Range(free) \cap Range(captures) = {}
    BY <1>2, <1>3, LoopFacts
  <2> QED BY <1>1, <1>3, <1>4, <2>1, EnqueueCapture
<1>6. TypeOK'
  <2>1. dropped' \in Nat BY <1>1 DEF IInv, TypeOK
  <2> QED BY <1>1, <1>2, <1>5, <2>1 DEF IInv, TypeOK, PC
<1>7. Counts' /\ NeverStarved'
  <2>1. /\ Len(first_buffer') = NB_BUFFERS - 2 - fb_pending
        /\ pool' = NB_EVENTS - 2 - fb_pending
        /\ Len(captures') + Len(ready') + Len(flushes') = 2 + fb_pending
        /\ Len(first_buffer') \in Nat /\ Len(captures') \in Nat /\ Len(flushes') \in Nat
        /\ Len(ready') \in Nat /\ fb_pending' \in {0, 1}
    <3>1. /\ Len(first_buffer) = NB_BUFFERS - 2 - fb_pending /\ pool = NB_EVENTS - 2 - fb_pending
          /\ Len(captures) + Len(ready) + Len(flushes) = 2 + fb_pending
          /\ Len(first_buffer) \in Nat /\ Len(captures) \in Nat /\ Len(flushes) \in Nat
          /\ Len(ready) \in Nat /\ pool \in Nat /\ fb_pending \in {0, 1}
      BY <1>2, LoopFacts
    <3>2. /\ Len(first_buffer') = Len(free) - 1 /\ Len(free) = Len(first_buffer) + 1
          /\ pool' = (pool + 1) - 1 /\ fb_pending' = fb_pending
          /\ Len(captures') = Len(captures) + 1
          /\ Len(ready') = Len(ready) - 1 /\ Len(ready) > 0
      BY <1>1, <1>2, <1>3, <1>5
    <3>3. Len(flushes') = Len(flushes)
      BY <1>1
    <3> QED BY <3>1, <3>2, <3>3, CameraAssumption
  <2> QED BY <2>1, <1>1, <1>5, LoopCounts
<1>8. FlushState'
  BY <1>1, <1>2 DEF IInv, FlushState
<1>9. OneHolder'
  <2> DEFINE F == Range(first_buffer)
             C == Range(captures)
             D == Range(flushes)
             W == Range(Waiting)
  <2>1. /\ IsInjective(flushes') /\ Range(flushes') = D
        /\ F \cap (C \cup D \cup W) = {} /\ C \cap (D \cup W) = {} /\ D \cap W = {}
        /\ Buffer = F \cup C \cup D \cup W
    BY <1>1, <1>2, LoopFacts
  <2>2. PICK h \in F \cup {b} : /\ Range(first_buffer') = (F \cup {b}) \ {h}
                                /\ Range(captures') = C \cup {h}
    BY <1>3, <1>5
  <2>3. /\ pc' = "loop" /\ b \in W
        /\ IsInjective(first_buffer') /\ IsInjective(captures')
        /\ Range(Waiting') = W \ {b} /\ IsInjective(Waiting')
    BY <1>2, <1>5
  <2> HIDE DEF F, C, D, W
  <2>4. /\ ((F \cup {b}) \ {h}) \cap ((C \cup {h}) \cup D \cup (W \ {b})) = {}
        /\ (C \cup {h}) \cap (D \cup (W \ {b})) = {} /\ D \cap (W \ {b}) = {}
        /\ Buffer = ((F \cup {b}) \ {h}) \cup (C \cup {h}) \cup D \cup (W \ {b})
    BY <2>1, <2>2, <2>3
  <2> QED BY <2>1, <2>2, <2>3, <2>4, LoopHolders
<1> QED BY <1>6, <1>7, <1>8, <1>9 DEF IInv

\* What a completion of the hardware does, whichever queue it comes from: the
\* buffer at the head of the queue goes to the end of the ready events.
LEMMA CompletionFinds ==
  ASSUME IInv, NEW c \in Callback, NEW q \in Seq(Buffer), q # << >>, IsInjective(q),
         Range(q) \cap Range(Waiting) = {},
         ready' = rt_event_push(ready, c, Head(q))
  PROVE  /\ Head(q) \in Range(q)
         /\ Tail(q) \in Seq(Buffer) /\ Len(Tail(q)) = Len(q) - 1 /\ Len(q) > 0
         /\ Range(Tail(q)) = Range(q) \ {Head(q)} /\ IsInjective(Tail(q))
         /\ ready' \in Seq(Event(Callback, Buffer)) /\ Len(ready') = Len(ready) + 1
         /\ Range(Waiting') = Range(Waiting) \cup {Head(q)} /\ IsInjective(Waiting')
         /\ c = "end_of_frame" /\ OnlyFrames(ready) => OnlyFrames(ready')
         /\ c = "end_of_frame" /\ OneUpdate(ready) => OneUpdate(ready')
         /\ c = "end_of_fb_update" /\ OnlyFrames(ready) => OneUpdate(ready')
<1>1. /\ Tail(q) \in Seq(Buffer) /\ Head(q) \in Buffer
      /\ Len(Tail(q)) = Len(q) - 1 /\ Head(q) \in Range(q)
      /\ Range(Tail(q)) = Range(q) \ {Head(q)} /\ IsInjective(Tail(q))
  BY TailRange
<1>2. Len(q) > 0 OBVIOUS
<1>3. ready \in Seq(Event(Callback, Buffer)) /\ Waiting = Args(ready)
      /\ Waiting' = Args(ready') /\ IsInjective(Waiting)
  BY DEF IInv, TypeOK, OneHolder, Waiting, Args
<1> DEFINE b == Head(q)
<1>4. b \in Buffer /\ b \notin Range(Waiting) /\ ready' = rt_event_push(ready, c, b)
  BY <1>1
<1> HIDE DEF b
<1>5. /\ ready' \in Seq(Event(Callback, Buffer)) /\ Len(ready') = Len(ready) + 1
      /\ Args(ready) \in Seq(Buffer) /\ Args(ready') = Append(Args(ready), b)
      /\ c = "end_of_frame" /\ OnlyFrames(ready) => OnlyFrames(ready')
      /\ c = "end_of_frame" /\ OneUpdate(ready) => OneUpdate(ready')
      /\ c = "end_of_fb_update" /\ OnlyFrames(ready) => OneUpdate(ready')
  BY <1>3, <1>4, PushReady
<1>6. Range(Waiting') = Range(Waiting) \cup {b} /\ IsInjective(Waiting')
  <2>1. IsInjective(Args(ready)) /\ b \notin Range(Args(ready)) BY <1>3, <1>4
  <2>2. /\ Range(Append(Args(ready), b)) = Range(Args(ready)) \cup {b}
        /\ IsInjective(Append(Args(ready), b))
    BY <1>4, <1>5, <2>1, AppendRange
  <2> QED BY <2>2, <1>3, <1>5
<1> QED BY <1>1, <1>2, <1>5, <1>6 DEF b

\* The same for the parts of IInv that only count: a completion moves one
\* buffer between two queues and leaves the rest alone.
LEMMA CompletionCounts ==
  ASSUME IInv, UNCHANGED << pc, first_buffer, fb_pending, pool >>,
         captures # << >> \/ flushes # << >>,
         Len(captures') \in Nat, Len(flushes') \in Nat, Len(ready') \in Nat,
         Len(captures') + Len(ready') + Len(flushes') = Len(captures) + Len(ready) + Len(flushes)
  PROVE  Counts' /\ NeverStarved' /\ Allocated' = Allocated
<1>1. pc \notin {"connect", "alloc", "open_fb", "alloc_events", "open_camera", "exited"}
  BY DEF IInv, Counts
<1>2. Outstanding' = Outstanding
  BY DEF IInv, TypeOK, Outstanding
<1>3. Counts'
  BY <1>1, <1>2 DEF IInv, Counts
<1> QED BY <1>3 DEF IInv, NeverStarved, Allocated

\* A captured frame becomes a ready event.
LEMMA FrameDoneStep ==
  ASSUME IInv, FrameDone
  PROVE  IInv'
<1>1. /\ captures # << >> /\ captures' = Tail(captures)
      /\ ready' = rt_event_push(ready, "end_of_frame", Head(captures))
      /\ UNCHANGED << pc, first_buffer, fb_pending, dropped, pool, flushes >>
  BY DEF FrameDone
<1>2. /\ captures \in Seq(Buffer) /\ IsInjective(captures)
      /\ Range(captures) \cap Range(Waiting) = {} /\ "end_of_frame" \in Callback
  BY DEF IInv, TypeOK, OneHolder, Callback
<1>3. /\ Head(captures) \in Range(captures)
      /\ captures' \in Seq(Buffer) /\ Len(captures') = Len(captures) - 1 /\ Len(captures) > 0
      /\ Range(captures') = Range(captures) \ {Head(captures)} /\ IsInjective(captures')
      /\ ready' \in Seq(Event(Callback, Buffer)) /\ Len(ready') = Len(ready) + 1
      /\ Range(Waiting') = Range(Waiting) \cup {Head(captures)} /\ IsInjective(Waiting')
      /\ OnlyFrames(ready) => OnlyFrames(ready')
      /\ OneUpdate(ready) => OneUpdate(ready')
  BY <1>1, <1>2, CompletionFinds
<1>4. TypeOK'
  BY <1>1, <1>3 DEF IInv, TypeOK
<1>5. Counts' /\ NeverStarved' /\ Allocated' = Allocated
  <2>1. /\ Len(captures') \in Nat /\ Len(flushes') \in Nat /\ Len(ready') \in Nat
        /\ Len(captures') + Len(ready') + Len(flushes') = Len(captures) + Len(ready) + Len(flushes)
        /\ captures # << >> \/ flushes # << >>
    <3>1. Len(captures) \in Nat /\ Len(flushes) \in Nat /\ Len(ready) \in Nat
      BY DEF IInv, TypeOK
    <3> QED BY <1>1, <1>3, <3>1
  <2> QED BY <1>1, <2>1, CompletionCounts
<1>6. FlushState'
  BY <1>1, <1>3 DEF IInv, FlushState
<1>7. OneHolder'
  BY <1>1, <1>3, <1>5 DEF IInv, OneHolder
<1> QED BY <1>4, <1>5, <1>6, <1>7 DEF IInv

\* A finished flush becomes a ready event.
LEMMA FlushDoneStep ==
  ASSUME IInv, FlushDone
  PROVE  IInv'
<1>1. /\ flushes # << >> /\ flushes' = Tail(flushes)
      /\ ready' = rt_event_push(ready, "end_of_fb_update", Head(flushes))
      /\ UNCHANGED << pc, first_buffer, fb_pending, dropped, pool, captures >>
  BY DEF FlushDone
<1>2. /\ flushes \in Seq(Buffer) /\ IsInjective(flushes)
      /\ Range(flushes) \cap Range(Waiting) = {} /\ "end_of_fb_update" \in Callback
  BY DEF IInv, TypeOK, OneHolder, Callback
<1>3. /\ Head(flushes) \in Range(flushes)
      /\ flushes' \in Seq(Buffer) /\ Len(flushes') = Len(flushes) - 1 /\ Len(flushes) > 0
      /\ Range(flushes') = Range(flushes) \ {Head(flushes)} /\ IsInjective(flushes')
      /\ ready' \in Seq(Event(Callback, Buffer)) /\ Len(ready') = Len(ready) + 1
      /\ Range(Waiting') = Range(Waiting) \cup {Head(flushes)} /\ IsInjective(Waiting')
      /\ OnlyFrames(ready) => OneUpdate(ready')
  BY <1>1, <1>2, CompletionFinds
<1>4. TypeOK'
  BY <1>1, <1>3 DEF IInv, TypeOK
<1>5. Counts' /\ NeverStarved' /\ Allocated' = Allocated
  <2>1. /\ Len(captures') \in Nat /\ Len(flushes') \in Nat /\ Len(ready') \in Nat
        /\ Len(captures') + Len(ready') + Len(flushes') = Len(captures) + Len(ready) + Len(flushes)
        /\ captures # << >> \/ flushes # << >>
    <3>1. Len(captures) \in Nat /\ Len(flushes) \in Nat /\ Len(ready) \in Nat
      BY DEF IInv, TypeOK
    <3> QED BY <1>1, <1>3, <3>1
  <2> QED BY <1>1, <2>1, CompletionCounts
<1>6. FlushState'
  <2>1. fb_pending = 1 /\ Len(flushes) = 1 /\ OnlyFrames(ready)
    BY <1>1 DEF IInv, FlushState
  <2>2. flushes' = << >> BY <1>2, <1>3, <2>1
  <2> QED BY <1>1, <1>3, <2>1, <2>2 DEF FlushState
<1>7. OneHolder'
  BY <1>1, <1>3, <1>5 DEF IInv, OneHolder
<1> QED BY <1>4, <1>5, <1>6, <1>7 DEF IInv

-----------------------------------------------------------------------------
(* The theorems.                                                           *)

LEMMA NextIInv == IInv /\ [Next]_vars => IInv'
<1> SUFFICES ASSUME IInv, [Next]_vars PROVE IInv' OBVIOUS
<1>1. CASE Connect \/ AllocBuffer \/ OpenFramebuffer \/ AllocEvents \/ OpenCamera
  BY <1>1, StartUpStep
<1>2. CASE FirstCaptures BY <1>2, FirstCapturesStep
<1>3. CASE end_of_fb_update BY <1>3, EndOfFbUpdateStep
<1>4. CASE end_of_frame BY <1>4, FlushFrameStep, DropFrameStep DEF end_of_frame
<1>5. CASE FrameDone BY <1>5, FrameDoneStep
<1>6. CASE FlushDone BY <1>6, FlushDoneStep
<1>7. CASE UNCHANGED vars
  <2>1. Waiting' = Waiting /\ Allocated' = Allocated /\ Outstanding' = Outstanding
    BY <1>7 DEF vars, Waiting, Allocated, Outstanding
  <2>2. TypeOK' /\ NeverStarved' BY <1>7 DEF vars, IInv, TypeOK, NeverStarved
  <2>3. OneHolder' BY <1>7, <2>1 DEF vars, IInv, OneHolder
  <2>4. Counts' BY <1>7, <2>1 DEF vars, IInv, Counts
  <2>5. FlushState' BY <1>7 DEF vars, IInv, FlushState
  <2> QED BY <2>2, <2>3, <2>4, <2>5 DEF IInv
<1> QED BY <1>1, <1>2, <1>3, <1>4, <1>5, <1>6, <1>7 DEF Next, Main, Stopped

\* The inductive invariant holds in every reachable state.
THEOREM Inductive == Spec => []IInv
<1>1. Init => IInv BY InitIInv
<1>2. IInv /\ [Next]_vars => IInv' BY NextIInv
<1> QED BY <1>1, <1>2, PTL DEF Spec

\* Every variable of the program keeps its type.
THEOREM TypeCorrect == Spec => []TypeOK
<1>1. IInv => TypeOK BY DEF IInv
<1> QED BY <1>1, Inductive, PTL

\* No handler finds the free list empty, no transfer is queued without an event.
THEOREM EnoughBuffersAndEvents == Spec => []NeverStarved
<1>1. IInv => NeverStarved BY DEF IInv
<1> QED BY <1>1, Inductive, PTL

\* The camera, the bridge, the ready callbacks and the free list never share a
\* buffer, and together they hold all of them.
THEOREM ExclusiveBuffers == Spec => []OneHolder
<1>1. IInv => OneHolder BY DEF IInv
<1> QED BY <1>1, Inductive, PTL

\* Wherever the flush is, fb_pending tells the truth about it.
LEMMA FlagTellsFlush == ASSUME IInv PROVE OneFlush
<1> DEFINE Pending == Range(flushes) \cup Fired("end_of_fb_update")
<1>1. CASE fb_pending = 0 /\ flushes = << >> /\ OnlyFrames(ready)
  <2>1. Pending = {} BY <1>1 DEF Range, Fired, OnlyFrames
  <2> QED BY <1>1, <2>1 DEF OneFlush
<1>2. CASE fb_pending = 1 /\ Len(flushes) = 1 /\ OnlyFrames(ready)
  <2>1. Fired("end_of_fb_update") = {} BY <1>2 DEF Fired, OnlyFrames
  <2>2. DOMAIN flushes = {1} BY <1>2 DEF IInv, TypeOK
  <2>3. Range(flushes) = {flushes[1]} BY <2>2 DEF Range
  <2> QED BY <1>2, <2>1, <2>3 DEF OneFlush
<1>3. CASE fb_pending = 1 /\ flushes = << >> /\ OneUpdate(ready)
  <2>1. PICK k \in DOMAIN ready : \A i \in DOMAIN ready :
                (ready[i].callback = "end_of_fb_update") <=> (i = k)
    BY <1>3 DEF OneUpdate
  <2>2. Fired("end_of_fb_update") = {ready[k].arg} BY <2>1 DEF Fired
  <2>3. Range(flushes) = {} BY <1>3 DEF Range
  <2> QED BY <1>3, <2>2, <2>3 DEF OneFlush
<1> QED BY <1>1, <1>2, <1>3 DEF IInv, FlushState

\* fb_pending is exactly "one flush is on its way".
THEOREM FlushFlagIsExact == Spec => []OneFlush
<1>1. IInv => OneFlush BY FlagTellsFlush
<1> QED BY <1>1, Inductive, PTL

\* In the loop the camera never runs short of captures.
THEOREM CameraKeepsTwo == Spec => []DoubleBuffered
<1>1. IInv => DoubleBuffered BY DEF IInv, Counts, Outstanding, DoubleBuffered
<1> QED BY <1>1, Inductive, PTL

-----------------------------------------------------------------------------
(* The refinement of FrameSlots.                                           *)

\* The buffers of the ready events of one callback.
FiredIn(queue, callback) ==
  {queue[i].arg : i \in {j \in DOMAIN queue : queue[j].callback = callback}}

-----------------------------------------------------------------------------
(* How the ready buffers divide between the two callbacks.                 *)

\* Pushing an event adds its buffer to those of its own callback.
LEMMA FiredPush ==
  ASSUME NEW q \in Seq(Event(Callback, Buffer)), NEW c \in Callback, NEW b \in Buffer
  PROVE  LET r == rt_event_push(q, c, b)
         IN  /\ FiredIn(r, c) = FiredIn(q, c) \cup {b}
             /\ \A d \in Callback \ {c} : FiredIn(r, d) = FiredIn(q, d)
<1> DEFINE e == [callback |-> c, arg |-> b]
           r == Append(q, e)
<1>1. e \in Event(Callback, Buffer) /\ e.callback = c /\ e.arg = b
  BY DEF Event
<1>2. /\ Len(q) \in Nat /\ DOMAIN q = 1 .. Len(q) /\ DOMAIN r = 1 .. Len(q) + 1
      /\ \A i \in 1 .. Len(q) : r[i] = q[i]
      /\ r[Len(q) + 1] = e
  BY <1>1
<1>3. \A i \in DOMAIN r : i \in DOMAIN q \/ i = Len(q) + 1
  BY <1>2
<1>4. DOMAIN q \subseteq DOMAIN r /\ Len(q) + 1 \in DOMAIN r
  BY <1>2
<1> HIDE DEF e, r
<1>5. FiredIn(r, c) = FiredIn(q, c) \cup {b}
  BY <1>1, <1>2, <1>3, <1>4 DEF FiredIn
<1>6. ASSUME NEW d \in Callback \ {c} PROVE FiredIn(r, d) = FiredIn(q, d)
  BY <1>1, <1>2, <1>3, <1>4 DEF FiredIn
<1> QED BY <1>5, <1>6 DEF rt_event_push, e, r

\* Popping an event takes its buffer from those of its own callback.
LEMMA FiredPop ==
  ASSUME NEW q \in Seq(Event(Callback, Buffer)), q # << >>, IsInjective(Args(q))
  PROVE  LET r == rt_event_pop(q)
             c == Head(q).callback
             b == Head(q).arg
         IN  /\ b \in FiredIn(q, c)
             /\ FiredIn(r, c) = FiredIn(q, c) \ {b}
             /\ \A d \in Callback \ {c} : FiredIn(r, d) = FiredIn(q, d)
<1> DEFINE r == Tail(q)
           c == Head(q).callback
           b == Head(q).arg
<1>1. /\ Len(q) \in Nat /\ Len(q) > 0
      /\ DOMAIN q = 1 .. Len(q) /\ DOMAIN r = 1 .. Len(q) - 1
      /\ \A i \in 1 .. Len(q) - 1 : r[i] = q[i + 1]
      /\ Head(q) = q[1]
  OBVIOUS
<1>2. /\ 1 \in DOMAIN q /\ q[1].callback = c /\ q[1].arg = b
      /\ \A i \in DOMAIN r : i + 1 \in DOMAIN q /\ i + 1 # 1 /\ r[i] = q[i + 1]
  BY <1>1
<1>3. \A i \in DOMAIN q : i # 1 => i - 1 \in DOMAIN r /\ r[i - 1] = q[i]
  <2> TAKE i \in DOMAIN q
  <2> HAVE i # 1
  <2>1. i - 1 \in 1 .. Len(q) - 1 /\ (i - 1) + 1 = i BY <1>1
  <2> QED BY <1>1, <2>1
<1>4. \A i \in DOMAIN q : i # 1 => q[i].arg # b
  BY <1>2 DEF IsInjective, Args
<1> HIDE DEF r, c, b
<1>5. b \in FiredIn(q, c)
  BY <1>2 DEF FiredIn
<1>6. FiredIn(r, c) = FiredIn(q, c) \ {b}
  <2>1. ASSUME NEW x \in FiredIn(r, c) PROVE x \in FiredIn(q, c) \ {b}
    <3>1. PICK i \in DOMAIN r : r[i].callback = c /\ r[i].arg = x BY <2>1 DEF FiredIn
    <3> QED BY <3>1, <1>2, <1>4 DEF FiredIn
  <2>2. ASSUME NEW x \in FiredIn(q, c) \ {b} PROVE x \in FiredIn(r, c)
    <3>1. PICK i \in DOMAIN q : q[i].callback = c /\ q[i].arg = x BY <2>2 DEF FiredIn
    <3>2. i # 1 BY <3>1, <1>2, <2>2
    <3> QED BY <3>1, <3>2, <1>3 DEF FiredIn
  <2> QED BY <2>1, <2>2
<1>7. ASSUME NEW d \in Callback \ {c} PROVE FiredIn(r, d) = FiredIn(q, d)
  <2>1. ASSUME NEW x \in FiredIn(r, d) PROVE x \in FiredIn(q, d)
    <3>1. PICK i \in DOMAIN r : r[i].callback = d /\ r[i].arg = x BY <2>1 DEF FiredIn
    <3> QED BY <3>1, <1>2 DEF FiredIn
  <2>2. ASSUME NEW x \in FiredIn(q, d) PROVE x \in FiredIn(r, d)
    <3>1. PICK i \in DOMAIN q : q[i].callback = d /\ q[i].arg = x BY <2>2 DEF FiredIn
    <3>2. i # 1 BY <3>1, <1>2
    <3> QED BY <3>1, <3>2, <1>3 DEF FiredIn
  <2> QED BY <2>1, <2>2
<1> QED BY <1>5, <1>6, <1>7 DEF rt_event_pop, r, c, b

\* Every waiting buffer is of one callback, and of one only.
LEMMA FiredSplit ==
  ASSUME NEW q \in Seq(Event(Callback, Buffer)), IsInjective(Args(q))
  PROVE  /\ Range(Args(q)) = FiredIn(q, "end_of_frame") \cup FiredIn(q, "end_of_fb_update")
         /\ FiredIn(q, "end_of_frame") \cap FiredIn(q, "end_of_fb_update") = {}
<1>0. \A i \in DOMAIN q : q[i] \in Event(Callback, Buffer)
  OBVIOUS
<1>1. \A i \in DOMAIN q : q[i].callback \in Callback
  BY <1>0 DEF Event
<1>2. Range(Args(q)) = {q[i].arg : i \in DOMAIN q}
  BY DEF Range, Args
<1>3. Range(Args(q)) = FiredIn(q, "end_of_frame") \cup FiredIn(q, "end_of_fb_update")
  BY <1>1, <1>2 DEF FiredIn, Callback
<1>4. FiredIn(q, "end_of_frame") \cap FiredIn(q, "end_of_fb_update") = {}
  BY DEF FiredIn, Args, IsInjective
<1> QED BY <1>3, <1>4

-----------------------------------------------------------------------------
(* The slots as a function of the five places: free, at the camera,        *)
(* captured, at the bridge and displayed.                                  *)

Where(F, C, E, D, U) ==
  [b \in Buffer |-> IF b \in F THEN "free"
                    ELSE IF b \in C THEN "camera"
                    ELSE IF b \in E THEN "captured"
                    ELSE IF b \in D THEN "display"
                    ELSE IF b \in U THEN "displayed"
                    ELSE "unused"]

Apart(F, C, E, D, U) ==
  /\ F \cap C = {} /\ F \cap E = {} /\ F \cap D = {} /\ F \cap U = {}
  /\ C \cap E = {} /\ C \cap D = {} /\ C \cap U = {}
  /\ E \cap D = {} /\ E \cap U = {} /\ D \cap U = {}

Free     == Range(first_buffer)
Filling  == Range(captures)
Captured == FiredIn(ready, "end_of_frame")
Shown    == Range(flushes)
Over     == FiredIn(ready, "end_of_fb_update")

(* Moving a buffer from one place to another moves its slot, and no other. *)

\* A new buffer is put in the free list.
LEMMA MoveProvided ==
  ASSUME NEW F, NEW C, NEW E, NEW D, NEW U, Apart(F, C, E, D, U), NEW b \in Buffer, b \notin F \cup C \cup E \cup D \cup U
  PROVE  /\ Where(F, C, E, D, U)[b] = "unused"
         /\ Where(F \cup {b}, C, E, D, U) = [Where(F, C, E, D, U) EXCEPT ![b] = "free"]
BY DEF Where, Apart

\* A free buffer goes to the camera.
LEMMA MoveQueued ==
  ASSUME NEW F, NEW C, NEW E, NEW D, NEW U, Apart(F, C, E, D, U), NEW b \in Buffer, b \in F
  PROVE  /\ Where(F, C, E, D, U)[b] = "free"
         /\ Where(F \ {b}, C \cup {b}, E, D, U) = [Where(F, C, E, D, U) EXCEPT ![b] = "camera"]
BY DEF Where, Apart

\* The camera has filled a buffer.
LEMMA MoveCaptured ==
  ASSUME NEW F, NEW C, NEW E, NEW D, NEW U, Apart(F, C, E, D, U), NEW b \in Buffer, b \in C
  PROVE  /\ Where(F, C, E, D, U)[b] = "camera"
         /\ Where(F, C \ {b}, E \cup {b}, D, U) = [Where(F, C, E, D, U) EXCEPT ![b] = "captured"]
BY DEF Where, Apart

\* A captured buffer goes back to the camera.
LEMMA MoveDropped ==
  ASSUME NEW F, NEW C, NEW E, NEW D, NEW U, Apart(F, C, E, D, U), NEW b \in Buffer, b \in E
  PROVE  /\ Where(F, C, E, D, U)[b] = "captured"
         /\ Where(F, C \cup {b}, E \ {b}, D, U) = [Where(F, C, E, D, U) EXCEPT ![b] = "camera"]
BY DEF Where, Apart

\* The bridge is done with a buffer.
LEMMA MoveDisplayed ==
  ASSUME NEW F, NEW C, NEW E, NEW D, NEW U, Apart(F, C, E, D, U), NEW b \in Buffer, b \in D
  PROVE  /\ Where(F, C, E, D, U)[b] = "display"
         /\ Where(F, C, E, D \ {b}, U \cup {b}) = [Where(F, C, E, D, U) EXCEPT ![b] = "displayed"]
BY DEF Where, Apart

\* A displayed buffer is free again.
LEMMA MoveReleased ==
  ASSUME NEW F, NEW C, NEW E, NEW D, NEW U, Apart(F, C, E, D, U), NEW b \in Buffer, b \in U
  PROVE  /\ Where(F, C, E, D, U)[b] = "displayed"
         /\ Where(F \cup {b}, C, E, D, U \ {b}) = [Where(F, C, E, D, U) EXCEPT ![b] = "free"]
BY DEF Where, Apart

\* A captured buffer goes on display and a free one to the camera.
LEMMA MoveShown ==
  ASSUME NEW F, NEW C, NEW E, NEW D, NEW U, Apart(F, C, E, D, U),
         NEW b \in Buffer, NEW t \in Buffer, b \in E, t \in F
  PROVE  /\ Where(F, C, E, D, U)[b] = "captured" /\ Where(F, C, E, D, U)[t] = "free"
         /\ Where(F \ {t}, C \cup {t}, E \ {b}, D \cup {b}, U)
              = [Where(F, C, E, D, U) EXCEPT ![b] = "display", ![t] = "camera"]
<1>1. b # t BY DEF Apart
<1> QED BY <1>1 DEF Where, Apart

\* The mapping of CameraRefinement is Where, and its places are apart.
LEMMA SlotIsWhere ==
  /\ slot = Where(Free, Filling, Captured, Shown, Over)
  /\ slot' = Where(Free', Filling', Captured', Shown', Over')
BY DEF slot, Where, Fired, FiredIn, Free, Filling, Captured, Shown, Over

LEMMA PlacesApart ==
  ASSUME IInv
  PROVE  /\ Apart(Free, Filling, Captured, Shown, Over)
         /\ Range(Waiting) = Captured \cup Over
<1>1. ready \in Seq(Event(Callback, Buffer)) /\ IsInjective(Args(ready)) /\ Waiting = Args(ready)
  BY DEF IInv, TypeOK, OneHolder, Waiting, Args
<1>2. Range(Waiting) = Captured \cup Over /\ Captured \cap Over = {}
  BY <1>1, FiredSplit DEF Captured, Over
<1> QED BY <1>2 DEF IInv, OneHolder, Apart, Free, Filling, Shown

-----------------------------------------------------------------------------
(* Each step of the program is a step of FrameSlots, or none.              *)

\* Start-up: an allocation provides a slot.
LEMMA AllocStep ==
  ASSUME IInv, AllocBuffer, first_buffer' # first_buffer
  PROVE  Slots!Next
<1> DEFINE i == Len(first_buffer) + 1
<1>1. /\ pc = "alloc" /\ first_buffer' = << i >> \o first_buffer
      /\ ready' = ready /\ captures' = captures /\ flushes' = flushes
  BY DEF AllocBuffer, Jump
<1>2. /\ first_buffer \in Seq(Buffer) /\ Len(first_buffer) \in Nat
      /\ Len(first_buffer) < NB_BUFFERS
      /\ captures = << >> /\ flushes = << >> /\ ready = << >>
  BY <1>1 DEF IInv, TypeOK, Counts
<1>3. /\ Range(captures) = {} /\ Range(flushes) = {}
      /\ FiredIn(ready, "end_of_frame") = {} /\ FiredIn(ready, "end_of_fb_update") = {}
      /\ Range(Waiting) = {}
  BY <1>2 DEF Range, FiredIn, Waiting
<1>4. Range(first_buffer) = 1 .. Len(first_buffer)
  BY <1>1, <1>3 DEF IInv, OneHolder, Allocated
<1>5. i \in Buffer /\ i \notin Range(first_buffer)
  BY <1>2, <1>4, CameraAssumption DEF Buffer
<1> HIDE DEF i
<1>6. Range(first_buffer') = Range(first_buffer) \cup {i}
  BY <1>1, <1>2, <1>5, PushRange
<1>7. /\ Free' = Free \cup {i} /\ Filling' = Filling /\ Captured' = Captured
      /\ Shown' = Shown /\ Over' = Over
      /\ i \notin Free \cup Filling \cup Captured \cup Shown \cup Over
  BY <1>1, <1>3, <1>5, <1>6 DEF Free, Filling, Captured, Shown, Over
<1>8. slot[i] = "unused" /\ slot' = [slot EXCEPT ![i] = "free"]
  BY <1>5, <1>7, PlacesApart, SlotIsWhere, MoveProvided
<1> QED BY <1>5, <1>8 DEF Slots!Next, Slots!Provide

\* Start-up: the first captures, while the camera has one slot at most.
LEMMA FirstCapturesSlots ==
  ASSUME IInv, FirstCaptures
  PROVE  Slots!Next
<1> DEFINE next == IF pc = "capture1" THEN "capture2" ELSE "loop"
<1>1. /\ pc \in {"capture1", "capture2"}
      /\ enqueue_capture(first_buffer, pool, 1, next)
      /\ fb_pending' = fb_pending /\ ready' = ready /\ flushes' = flushes
  BY DEF FirstCaptures
<1>2. /\ first_buffer \in Seq(Buffer) /\ captures \in Seq(Buffer) /\ flushes \in Seq(Buffer)
      /\ Len(first_buffer) \in Nat /\ Len(captures) \in Nat /\ Len(flushes) \in Nat
      /\ Len(ready) \in Nat /\ pool \in Nat
      /\ Len(first_buffer) + Outstanding = NB_BUFFERS /\ pool + Outstanding = NB_EVENTS
      /\ Outstanding = IF pc = "capture1" THEN 0 ELSE 1
  BY <1>1 DEF IInv, TypeOK, Counts
<1>3. Len(first_buffer) >= 2 /\ pool >= 1 /\ first_buffer # << >>
  BY <1>2, CameraAssumption DEF Outstanding
<1>4. /\ IsInjective(first_buffer) /\ IsInjective(captures)
      /\ Range(first_buffer) \cap Range(captures) = {}
  BY DEF IInv, OneHolder
<1>5. PICK h \in Range(first_buffer) :
        /\ Range(first_buffer') = Range(first_buffer) \ {h}
        /\ Range(captures') = Range(captures) \cup {h}
  <2> HIDE DEF next
  <2> QED BY <1>1, <1>2, <1>3, <1>4, EnqueueCapture
<1>6. h \in Buffer
  BY <1>2 DEF Range
<1>7. slot[h] = "free" /\ slot' = [slot EXCEPT ![h] = "camera"]
  <2>1. /\ h \in Free /\ Free' = Free \ {h} /\ Filling' = Filling \cup {h}
        /\ Captured' = Captured /\ Shown' = Shown /\ Over' = Over
    BY <1>1, <1>5 DEF Free, Filling, Captured, Shown, Over
  <2> QED BY <1>6, <2>1, PlacesApart, SlotIsWhere, MoveQueued
<1>8. Cardinality(Slots!In({"camera", "captured"})) < 2
  <2> DEFINE S == Slots!In({"camera", "captured"})
  <2>1. S \subseteq Range(captures) \cup Range(Waiting)
    <3>1. S \subseteq Filling \cup Captured
      BY SlotIsWhere DEF Slots!In, Where
    <3> QED BY <3>1, PlacesApart DEF Filling
  <2>2. Len(captures) + Len(ready) <= 1
    BY <1>2 DEF Outstanding
  <2>3. \A x, y \in Range(captures) \cup Range(Waiting) : x = y
    <3>1. captures = << >> \/ ready = << >>
      BY <1>2, <2>2 DEF IInv, TypeOK
    <3>2. DOMAIN captures \subseteq {1} /\ DOMAIN Waiting \subseteq {1}
      BY <1>2, <2>2 DEF IInv, TypeOK, Waiting
    <3>3. Range(captures) = {} \/ Range(Waiting) = {}
      BY <3>1 DEF Range, Waiting
    <3> QED BY <3>2, <3>3 DEF Range
  <2> HIDE DEF S
  <2>4. S = {} \/ \E x : S = {x}
    BY <2>1, <2>3
  <2>5. Cardinality(S) \in {0, 1}
    BY <2>4, FS_EmptySet, FS_Singleton
  <2> QED BY <2>5 DEF S
<1>9. Slots!Queue(h)
  <2>1. Slots!Cardinality(Slots!In({"camera", "captured"}))
          = Cardinality(Slots!In({"camera", "captured"}))
    BY Zenon DEF Slots!Cardinality, Cardinality
  <2> QED BY <1>7, <1>8, <2>1 DEF Slots!Queue
<1> QED BY <1>6, <1>9 DEF Slots!Next

\* What the callbacks take from the ready events, for the slots.
LEMMA CallbackSlots ==
  ASSUME IInv, NEW c \in Callback, Runs(c)
  PROVE  /\ pc = "loop" /\ Head(ready).arg \in Buffer
         /\ Head(ready).arg \in FiredIn(ready, c)
         /\ FiredIn(ready', c) = FiredIn(ready, c) \ {Head(ready).arg}
         /\ \A d \in Callback \ {c} : FiredIn(ready', d) = FiredIn(ready, d)
<1>1. /\ pc = "loop" /\ ready # << >> /\ Head(ready).callback = c
      /\ ready' = rt_event_pop(ready)
  BY DEF Runs, Dispatches
<1>2. ready \in Seq(Event(Callback, Buffer)) /\ IsInjective(Args(ready))
  BY DEF IInv, TypeOK, OneHolder, Waiting, Args
<1>3. Head(ready).arg \in Buffer
  BY CallbackFinds
<1> QED BY <1>1, <1>2, <1>3, FiredPop

\* The end of an update frees the slot.
LEMMA ReleaseStep ==
  ASSUME IInv, end_of_fb_update
  PROVE  Slots!Next
<1> DEFINE b == Head(ready).arg
<1>1. /\ Runs("end_of_fb_update") /\ first_buffer' = << b >> \o first_buffer
      /\ captures' = captures /\ flushes' = flushes
      /\ "end_of_fb_update" \in Callback /\ "end_of_frame" \in Callback
      /\ first_buffer \in Seq(Buffer)
  BY DEF end_of_fb_update, Callback, IInv, TypeOK
<1>2. /\ b \in Buffer /\ b \in FiredIn(ready, "end_of_fb_update")
      /\ FiredIn(ready', "end_of_fb_update") = FiredIn(ready, "end_of_fb_update") \ {b}
      /\ FiredIn(ready', "end_of_frame") = FiredIn(ready, "end_of_frame")
  BY <1>1, CallbackSlots
<1> HIDE DEF b
<1>3. Range(first_buffer') = Range(first_buffer) \cup {b}
  BY <1>1, <1>2, PushRange
<1>4. /\ b \in Over /\ Free' = Free \cup {b} /\ Filling' = Filling
      /\ Captured' = Captured /\ Shown' = Shown /\ Over' = Over \ {b}
  BY <1>1, <1>2, <1>3 DEF Free, Filling, Captured, Shown, Over
<1>5. slot[b] = "displayed" /\ slot' = [slot EXCEPT ![b] = "free"]
  BY <1>2, <1>4, PlacesApart, SlotIsWhere, MoveReleased
<1> QED BY <1>2, <1>5 DEF Slots!Next, Slots!Release

\* With no update pending, a frame goes on display and the camera gets a slot.
LEMMA ShowStep ==
  ASSUME IInv, FlushFrame
  PROVE  Slots!Next
<1> DEFINE b == Head(ready).arg
<1>1. /\ Runs("end_of_frame") /\ fb_pending = 0
      /\ enqueue_capture(first_buffer, pool + 1, 2, "loop")
      /\ flushes' = Append(flushes, b)
      /\ "end_of_fb_update" \in Callback /\ "end_of_frame" \in Callback
  BY DEF FlushFrame, rt_event_free, Callback
<1>2. /\ pc = "loop" /\ b \in Buffer /\ b \in FiredIn(ready, "end_of_frame")
      /\ FiredIn(ready', "end_of_frame") = FiredIn(ready, "end_of_frame") \ {b}
      /\ FiredIn(ready', "end_of_fb_update") = FiredIn(ready, "end_of_fb_update")
  BY <1>1, CallbackSlots
<1> HIDE DEF b
<1>3. /\ first_buffer \in Seq(Buffer) /\ captures \in Seq(Buffer) /\ flushes \in Seq(Buffer)
      /\ IsInjective(first_buffer) /\ IsInjective(captures)
      /\ Range(first_buffer) \cap Range(captures) = {}
      /\ first_buffer # << >> /\ pool \in Nat /\ pool >= 1
  <2>1. Len(first_buffer) >= 1 /\ pool >= 1 /\ pool \in Nat
    BY <1>1, <1>2, LoopFacts, CameraAssumption
  <2>2. first_buffer # << >> BY <2>1
  <2> QED BY <1>2, <2>1, <2>2, LoopFacts
<1>4. PICK h \in Range(first_buffer) :
        /\ Range(first_buffer') = Range(first_buffer) \ {h}
        /\ Range(captures') = Range(captures) \cup {h}
  <2> DEFINE events == pool + 1
  <2>1. events \in Nat /\ events >= 2 /\ enqueue_capture(first_buffer, events, 2, "loop")
    BY <1>1, <1>3
  <2> HIDE DEF events
  <2> QED BY <1>3, <2>1, EnqueueCapture
<1>5. Range(flushes') = Range(flushes) \cup {b}
  BY <1>1, <1>2, <1>3, AppendRange
<1>6. h \in Buffer
  BY <1>3 DEF Range
<1>7. /\ slot[b] = "captured" /\ slot[h] = "free"
      /\ slot' = [slot EXCEPT ![b] = "display", ![h] = "camera"]
  <2>1. /\ b \in Captured /\ h \in Free
        /\ Free' = Free \ {h} /\ Filling' = Filling \cup {h}
        /\ Captured' = Captured \ {b} /\ Shown' = Shown \cup {b} /\ Over' = Over
    BY <1>2, <1>4, <1>5 DEF Free, Filling, Captured, Shown, Over
  <2>2. Apart(Free, Filling, Captured, Shown, Over)
    BY PlacesApart
  <2>3. LET w == Where(Free, Filling, Captured, Shown, Over)
        IN  /\ w[b] = "captured" /\ w[h] = "free"
            /\ Where(Free \ {h}, Filling \cup {h}, Captured \ {b}, Shown \cup {b}, Over)
                 = [w EXCEPT ![b] = "display", ![h] = "camera"]
    BY <1>2, <1>6, <2>1, <2>2, MoveShown, SMTT(30)
  <2> QED BY <2>1, <2>3, SlotIsWhere
<1>8. Slots!In({"display", "displayed"}) = {}
  <2>1. Shown = {} /\ Over = {}
    BY <1>1, FlagTellsFlush DEF OneFlush, Fired, FiredIn, Shown, Over
  <2> QED BY <2>1, SlotIsWhere DEF Where, Slots!In
<1> QED BY <1>2, <1>6, <1>7, <1>8 DEF Slots!Next, Slots!Show

\* With an update pending, the frame's own slot goes back to the camera.
LEMMA DropStep ==
  ASSUME IInv, DropFrame
  PROVE  Slots!Next
<1> DEFINE b    == Head(ready).arg
           free == << b >> \o first_buffer
<1>1. /\ Runs("end_of_frame") /\ fb_pending # 0 /\ flushes' = flushes
      /\ enqueue_capture(free, pool + 1, 1, "loop")
      /\ "end_of_fb_update" \in Callback /\ "end_of_frame" \in Callback
  BY DEF DropFrame, rt_event_free, Callback
<1>2. /\ pc = "loop" /\ b \in Buffer /\ b \in FiredIn(ready, "end_of_frame")
      /\ FiredIn(ready', "end_of_frame") = FiredIn(ready, "end_of_frame") \ {b}
      /\ FiredIn(ready', "end_of_fb_update") = FiredIn(ready, "end_of_fb_update")
  BY <1>1, CallbackSlots
<1>3. first_buffer \in Seq(Buffer) /\ captures \in Seq(Buffer) /\ pool \in Nat
  BY DEF IInv, TypeOK
<1> HIDE DEF b
<1>4. free # << >> /\ Head(free) = b /\ Tail(free) = first_buffer
  BY <1>2, <1>3, PushRange
<1>5. first_buffer' = first_buffer /\ captures' = Append(captures, b)
  <2>1. Missing(free, pool + 1, 1) = "nothing"
    BY <1>3, <1>4 DEF Missing, HasEvents
  <2> QED BY <1>1, <1>4, <2>1 DEF enqueue_capture
<1>6. Range(captures') = Range(captures) \cup {b}
  BY <1>2, <1>3, <1>5, AppendRange
<1>7. slot[b] = "captured" /\ slot' = [slot EXCEPT ![b] = "camera"]
  <2>1. /\ b \in Captured /\ Free' = Free /\ Filling' = Filling \cup {b}
        /\ Captured' = Captured \ {b} /\ Shown' = Shown /\ Over' = Over
    BY <1>1, <1>2, <1>5, <1>6 DEF Free, Filling, Captured, Shown, Over
  <2> QED BY <1>2, <2>1, PlacesApart, SlotIsWhere, MoveDropped
<1>8. Slots!In({"display", "displayed"}) # {}
  <2>1. fb_pending = 1 BY <1>1 DEF IInv, TypeOK
  <2>2. PICK x : x \in Shown \cup Over
    BY <2>1, FlagTellsFlush DEF OneFlush, Fired, FiredIn, Shown, Over
  <2>3. x \in Buffer
    <3>1. Range(flushes) \cup Range(Waiting) \subseteq Buffer
      BY <1>2, LoopFacts
    <3> QED BY <2>2, <3>1, PlacesApart DEF Shown
  <2>4. slot[x] \in {"display", "displayed"}
    BY <2>2, <2>3, PlacesApart, SlotIsWhere DEF Where, Apart
  <2> QED BY <2>3, <2>4 DEF Slots!In
<1> QED BY <1>2, <1>7, <1>8 DEF Slots!Next, Slots!Drop

\* The camera fills a slot.
LEMMA CaptureStep ==
  ASSUME IInv, FrameDone
  PROVE  Slots!Next
<1> DEFINE b == Head(captures)
<1>1. /\ captures # << >> /\ captures' = Tail(captures)
      /\ ready' = rt_event_push(ready, "end_of_frame", b)
      /\ first_buffer' = first_buffer /\ flushes' = flushes
      /\ "end_of_fb_update" \in Callback /\ "end_of_frame" \in Callback
      /\ "end_of_fb_update" # "end_of_frame"
  BY DEF FrameDone, Callback
<1>2. /\ captures \in Seq(Buffer) /\ IsInjective(captures)
      /\ ready \in Seq(Event(Callback, Buffer))
  BY DEF IInv, TypeOK, OneHolder
<1>3. b \in Buffer /\ b \in Range(captures) /\ Range(captures') = Range(captures) \ {b}
  BY <1>1, <1>2, TailRange
<1> HIDE DEF b
<1>4. /\ FiredIn(ready', "end_of_frame") = FiredIn(ready, "end_of_frame") \cup {b}
      /\ FiredIn(ready', "end_of_fb_update") = FiredIn(ready, "end_of_fb_update")
  BY <1>1, <1>2, <1>3, FiredPush
<1>5. slot[b] = "camera" /\ slot' = [slot EXCEPT ![b] = "captured"]
  <2>1. /\ b \in Filling /\ Free' = Free /\ Filling' = Filling \ {b}
        /\ Captured' = Captured \cup {b} /\ Shown' = Shown /\ Over' = Over
    BY <1>1, <1>3, <1>4 DEF Free, Filling, Captured, Shown, Over
  <2> QED BY <1>3, <2>1, PlacesApart, SlotIsWhere, MoveCaptured
<1> QED BY <1>3, <1>5 DEF Slots!Next, Slots!Capture

\* The bridge has shown a slot.
LEMMA DisplayedStep ==
  ASSUME IInv, FlushDone
  PROVE  Slots!Next
<1> DEFINE b == Head(flushes)
<1>1. /\ flushes # << >> /\ flushes' = Tail(flushes)
      /\ ready' = rt_event_push(ready, "end_of_fb_update", b)
      /\ first_buffer' = first_buffer /\ captures' = captures
      /\ "end_of_fb_update" \in Callback /\ "end_of_frame" \in Callback
      /\ "end_of_fb_update" # "end_of_frame"
  BY DEF FlushDone, Callback
<1>2. /\ flushes \in Seq(Buffer) /\ IsInjective(flushes)
      /\ ready \in Seq(Event(Callback, Buffer))
  BY DEF IInv, TypeOK, OneHolder
<1>3. b \in Buffer /\ b \in Range(flushes) /\ Range(flushes') = Range(flushes) \ {b}
  BY <1>1, <1>2, TailRange
<1> HIDE DEF b
<1>4. /\ FiredIn(ready', "end_of_fb_update") = FiredIn(ready, "end_of_fb_update") \cup {b}
      /\ FiredIn(ready', "end_of_frame") = FiredIn(ready, "end_of_frame")
  BY <1>1, <1>2, <1>3, FiredPush
<1>5. slot[b] = "display" /\ slot' = [slot EXCEPT ![b] = "displayed"]
  <2>1. /\ b \in Shown /\ Free' = Free /\ Filling' = Filling
        /\ Captured' = Captured /\ Shown' = Shown \ {b} /\ Over' = Over \cup {b}
    BY <1>1, <1>3, <1>4 DEF Free, Filling, Captured, Shown, Over
  <2> QED BY <1>3, <2>1, PlacesApart, SlotIsWhere, MoveDisplayed
<1> QED BY <1>3, <1>5 DEF Slots!Next, Slots!Displayed

-----------------------------------------------------------------------------
\* The camera program implements FrameSlots, its fairness apart: whatever order
\* the camera, the bridge and the callbacks take, a frame is only dropped while
\* another is on display, and one that is shown gives the camera a slot at once.
THEOREM SlotsAreKept == Spec => Slots!Init /\ [][Slots!Next]_slot
<1>1. Init => Slots!Init
  BY SlotIsWhere DEF Init, Slots!Init, Where, Range, FiredIn, Free, Filling, Captured, Shown, Over
<1>2. IInv /\ [Next]_vars => [Slots!Next]_slot
  <2> SUFFICES ASSUME IInv, [Next]_vars PROVE Slots!Next \/ slot' = slot
    OBVIOUS
  <2>1. CASE UNCHANGED << first_buffer, ready, captures, flushes >>
    BY <2>1, SlotIsWhere DEF Free, Filling, Captured, Shown, Over
  <2>2. CASE AllocBuffer /\ first_buffer' # first_buffer BY <2>2, AllocStep
  <2>3. CASE FirstCaptures BY <2>3, FirstCapturesSlots
  <2>4. CASE end_of_fb_update BY <2>4, ReleaseStep
  <2>5. CASE end_of_frame BY <2>5, ShowStep, DropStep DEF end_of_frame
  <2>6. CASE FrameDone BY <2>6, CaptureStep
  <2>7. CASE FlushDone BY <2>7, DisplayedStep
  <2>8. CASE Connect \/ AllocBuffer \/ OpenFramebuffer \/ AllocEvents \/ OpenCamera
    BY <2>1, <2>2, <2>8 DEF Connect, AllocBuffer, OpenFramebuffer, AllocEvents, OpenCamera, Jump
  <2>9. CASE UNCHANGED vars BY <2>1, <2>9 DEF vars
  <2> QED BY <2>3, <2>4, <2>5, <2>6, <2>7, <2>8, <2>9 DEF Next, Main, Stopped
<1> QED BY <1>1, <1>2, Inductive, PTL DEF Spec
=============================================================================
