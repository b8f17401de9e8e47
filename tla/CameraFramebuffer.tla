-------------------------- MODULE CameraFramebuffer --------------------------
(***************************************************************************)
(* bridge/framebuffer_with_camera/test.c: images go from a camera to a     *)
(* framebuffer behind the JTAG bridge.  Two captures are queued on the     *)
(* camera at any time; a captured image is flushed to the framebuffer if   *)
(* no flush is pending and dropped otherwise.  Everything runs from event  *)
(* callbacks of the fabric controller; the camera and the bridge complete  *)
(* their work at their own pace.                                           *)
(*                                                                         *)
(* The list of free buffers is a sequence, its head first.  A buffer is    *)
(* named by the round of the allocation loop that made it.                 *)
(***************************************************************************)
EXTENDS RtEvents, FiniteSets, Functions

CONSTANTS NB_BUFFERS,   \* buffers allocated by main: 3 in the code
          NB_EVENTS,    \* events allocated by main: 3 in the code
          MaxDropped    \* bound: frames the camera delivers during one flush

ASSUME CameraAssumption ==
  /\ NB_BUFFERS \in Nat /\ NB_BUFFERS >= 3
  /\ NB_EVENTS  \in Nat /\ NB_EVENTS  >= 3
  /\ MaxDropped \in Nat /\ MaxDropped >= 2

VARIABLES
  pc,            \* where the fabric controller is in main
  first_buffer,  \* the free list
  fb_pending,    \* 1 while a flush to the framebuffer is pending
  dropped,       \* frames dropped since the last flush was queued
  pool,          \* free events of the scheduler
  ready,         \* events whose callback is to run, oldest first
  captures,      \* buffers queued on the camera, oldest first
  flushes        \* buffers queued on the bridge, oldest first

vars == << pc, first_buffer, fb_pending, dropped, pool, ready, captures, flushes >>

Buffer   == 1 .. NB_BUFFERS
Callback == {"end_of_frame", "end_of_fb_update"}
Faults   == {"null_buffer", "null_event"}
PC       == {"connect", "alloc", "open_fb", "alloc_events", "open_camera",
             "capture1", "capture2", "loop", "exited"} \cup Faults

TypeOK ==
  /\ pc \in PC
  /\ first_buffer \in Seq(Buffer)
  /\ fb_pending \in {0, 1}
  /\ dropped \in Nat
  /\ pool \in Nat
  /\ ready \in Seq(Event(Callback, Buffer))
  /\ captures \in Seq(Buffer)
  /\ flushes \in Seq(Buffer)

Init ==
  /\ pc = "connect"
  /\ first_buffer = << >>
  /\ fb_pending = 0
  /\ dropped = 0
  /\ pool = 0
  /\ ready = << >>
  /\ captures = << >>
  /\ flushes = << >>

-----------------------------------------------------------------------------
(* main, up to its loop.  A step that may fail returns -1 from main.       *)

Jump(from, to) ==
  /\ pc = from
  /\ pc' \in to
  /\ UNCHANGED << fb_pending, dropped, ready, flushes >>

Connect == Jump("connect", {"alloc"}) /\ UNCHANGED << first_buffer, pool, captures >>

\* Mutant: the loop runs while i <= 3.
AllocBuffer_OneMore ==
  /\ pc = "alloc"
  /\ LET i == Len(first_buffer) + 1
     IN  /\ Jump("alloc", {IF i > NB_BUFFERS THEN "open_fb" ELSE "alloc"})
         /\ first_buffer' = << i >> \o first_buffer
  /\ UNCHANGED << pool, captures >>

AllocBuffer ==
  /\ pc = "alloc"
  /\ LET i == Len(first_buffer) + 1
     IN  \/ /\ Jump("alloc", {IF i = NB_BUFFERS THEN "open_fb" ELSE "alloc"})
            /\ first_buffer' = << i >> \o first_buffer
         \/ /\ Jump("alloc", {"exited"})
            /\ UNCHANGED first_buffer
  /\ UNCHANGED << pool, captures >>

OpenFramebuffer ==
  /\ Jump("open_fb", {"alloc_events", "exited"})
  /\ UNCHANGED << first_buffer, pool, captures >>

AllocEvents ==
  /\ \/ Jump("alloc_events", {"open_camera"}) /\ pool' = rt_event_alloc(pool, NB_EVENTS)
     \/ Jump("alloc_events", {"exited"})      /\ UNCHANGED pool
  /\ UNCHANGED << first_buffer, captures >>

OpenCamera ==
  /\ Jump("open_camera", {"capture1", "exited"})
  /\ UNCHANGED << first_buffer, pool, captures >>

-----------------------------------------------------------------------------
(* enqueue_capture on the free list `free', with `events' events free of   *)
(* which `wanted' are used before the caller returns.  It has no check of  *)
(* its own: an empty list makes it read through NULL, and a NULL event is  *)
(* a completion nobody is told about.  The model stops at either.          *)

Missing(free, events, wanted) ==
  IF free = << >> THEN "null_buffer"
  ELSE IF ~HasEvents(events, wanted) THEN "null_event" ELSE "nothing"

\* Mutant: the buffer is not unlinked from the free list.
enqueue_capture_NoUnlink(free, events, wanted, next) ==
  /\ free # << >>
  /\ pc' = next
  /\ first_buffer' = free
  /\ captures' = Append(captures, Head(free))
  /\ pool' = rt_event_get(events, wanted)

enqueue_capture(free, events, wanted, next) ==
  LET missing == Missing(free, events, wanted)
  IN  IF missing = "nothing"
        THEN /\ pc' = next
             /\ first_buffer' = Tail(free)
             /\ captures' = Append(captures, Head(free))
             /\ pool' = rt_event_get(events, wanted)
        ELSE /\ pc' = missing
             /\ UNCHANGED << first_buffer, captures, pool >>

FirstCaptures ==
  /\ \/ pc = "capture1" /\ enqueue_capture(first_buffer, pool, 1, "capture2")
     \/ pc = "capture2" /\ enqueue_capture(first_buffer, pool, 1, "loop")
  /\ UNCHANGED << fb_pending, dropped, ready, flushes >>

-----------------------------------------------------------------------------
(* The loop of main: rt_event_execute runs one callback to its end.        *)

Runs(callback) ==
  /\ pc = "loop"
  /\ Dispatches(ready, callback)
  /\ ready' = rt_event_pop(ready)

end_of_fb_update ==
  /\ Runs("end_of_fb_update")
  /\ first_buffer' = << Head(ready).arg >> \o first_buffer
  /\ fb_pending' = 0
  /\ pool' = rt_event_free(pool)
  /\ UNCHANGED << pc, dropped, captures, flushes >>

\* Mutant: fb_pending is not set.
FlushFrame_NoPending ==
  /\ Runs("end_of_frame")
  /\ fb_pending = 0
  /\ enqueue_capture(first_buffer, rt_event_free(pool), 2, "loop")
  /\ flushes' = Append(flushes, Head(ready).arg)
  /\ dropped' = 0
  /\ UNCHANGED fb_pending

\* Mutant: no new capture takes the place of the flushed one.
FlushFrame_NoCapture ==
  /\ Runs("end_of_frame")
  /\ fb_pending = 0
  /\ fb_pending' = 1
  /\ pool' = rt_event_get(rt_event_free(pool), 1)
  /\ flushes' = Append(flushes, Head(ready).arg)
  /\ dropped' = 0
  /\ UNCHANGED << pc, first_buffer, captures >>

FlushFrame ==
  /\ Runs("end_of_frame")
  /\ fb_pending = 0
  /\ enqueue_capture(first_buffer, rt_event_free(pool), 2, "loop")
  /\ fb_pending' = 1
  /\ flushes' = Append(flushes, Head(ready).arg)
  /\ dropped' = 0

\* Mutant: the capture is queued before the dropped buffer is back in the list.
DropFrame_LatePush ==
  /\ Runs("end_of_frame")
  /\ fb_pending # 0
  /\ dropped' = dropped + 1
  /\ enqueue_capture(first_buffer, rt_event_free(pool), 1, "loop")
  /\ UNCHANGED << fb_pending, flushes >>

\* Mutant: a dropped frame is not replaced by a new capture.
DropFrame_NoCapture ==
  /\ Runs("end_of_frame")
  /\ fb_pending # 0
  /\ dropped' = dropped + 1
  /\ first_buffer' = << Head(ready).arg >> \o first_buffer
  /\ pool' = rt_event_free(pool)
  /\ UNCHANGED << pc, fb_pending, captures, flushes >>

DropFrame ==
  /\ Runs("end_of_frame")
  /\ fb_pending # 0
  /\ dropped' = dropped + 1
  /\ enqueue_capture(<< Head(ready).arg >> \o first_buffer, rt_event_free(pool), 1, "loop")
  /\ UNCHANGED << fb_pending, flushes >>

end_of_frame == FlushFrame \/ DropFrame

-----------------------------------------------------------------------------
(* The hardware.  The camera fills the oldest queued buffer (a frame that  *)
(* finds none queued is lost and changes nothing); the bridge finishes the *)
(* oldest flush.  MaxDropped bounds how long one flush may take, counted   *)
(* in frames.                                                              *)

FrameDone ==
  /\ captures # << >>
  /\ flushes # << >> => dropped + Len(ready) < MaxDropped
  /\ dropped <= MaxDropped
  /\ captures' = Tail(captures)
  /\ ready' = rt_event_push(ready, "end_of_frame", Head(captures))
  /\ UNCHANGED << pc, first_buffer, fb_pending, dropped, pool, flushes >>

FlushDone ==
  /\ flushes # << >>
  /\ flushes' = Tail(flushes)
  /\ ready' = rt_event_push(ready, "end_of_fb_update", Head(flushes))
  /\ UNCHANGED << pc, first_buffer, fb_pending, dropped, pool, captures >>

-----------------------------------------------------------------------------
Main == \/ Connect \/ AllocBuffer \/ OpenFramebuffer \/ AllocEvents \/ OpenCamera
        \/ FirstCaptures \/ end_of_frame \/ end_of_fb_update

Stopped == pc \in {"exited"} \cup Faults /\ UNCHANGED vars

Next == Main \/ FrameDone \/ FlushDone \/ Stopped

\* The fabric controller does nothing else, the sensor streams from CMD_START
\* on, and the bridge drains what it was given.
Spec == /\ Init /\ [][Next]_vars
        /\ WF_vars(Main) /\ WF_vars(FrameDone) /\ WF_vars(FlushDone)

-----------------------------------------------------------------------------
(* Who holds a buffer.                                                     *)

Waiting         == [i \in DOMAIN ready |-> ready[i].arg]
Fired(callback) == {ready[i].arg : i \in {j \in DOMAIN ready : ready[j].callback = callback}}

\* The buffers main has allocated so far.
Allocated == IF pc \in {"connect", "alloc", "exited"} THEN 1 .. Len(first_buffer)
             ELSE Buffer

\* A buffer that the DMA of the camera may write, the bridge may read or a ready
\* callback refers to is held in that one place and is not in the free list
\* that enqueue_capture takes buffers from; and no buffer is lost.
OneHolder ==
  /\ IsInjective(first_buffer) /\ IsInjective(captures)
  /\ IsInjective(flushes)      /\ IsInjective(Waiting)
  /\ Range(first_buffer) \cap (Range(captures) \cup Range(flushes) \cup Range(Waiting)) = {}
  /\ Range(captures) \cap (Range(flushes) \cup Range(Waiting)) = {}
  /\ Range(flushes) \cap Range(Waiting) = {}
  /\ Allocated = Range(first_buffer) \cup Range(captures)
                   \cup Range(flushes) \cup Range(Waiting)

\* Three buffers and three events are enough: enqueue_capture never reads
\* through an empty free list, and no transfer is started without its event.
NeverStarved == pc \notin Faults

\* fb_pending is set exactly while a flush is on its way, from its queueing to
\* the callback of its completion, and there is never a second one.
OneFlush ==
  LET Pending == Range(flushes) \cup Fired("end_of_fb_update")
  IN  /\ (fb_pending = 1) <=> (Pending # {})
      /\ \A a, b \in Pending : a = b

\* In the loop, the pending flush apart, two buffers are with the camera or
\* captured and not yet handled: when no event is ready, the camera has two.
DoubleBuffered ==
  pc = "loop" => Len(captures) + Len(ready) + Len(flushes) = 2 + fb_pending

-----------------------------------------------------------------------------
\* In the loop no buffer is forgotten: each of the three is given to the
\* camera again and again (with more, the last-in first-out list keeps some idle).
NoBufferForgotten == \A b \in Buffer : (pc = "loop") ~> (b \in Range(captures))
=============================================================================
