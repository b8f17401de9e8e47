--------------------------- MODULE FcPrograms_proofs ---------------------------
(***************************************************************************)
(* The examples on the fabric controller, with buffers, files, windows and *)
(* memories of any size and any number of captures, ticks and edges.       *)
(***************************************************************************)
EXTENDS FcPrograms, FiniteSetTheorems, SequenceTheorems, WellFoundedInduction,
        TLAPS

-----------------------------------------------------------------------------
(* gpio/input_interrupt: an edge is missed, or raised, or counted.         *)

GpioInv ==
  /\ pc \in {"begin", "event", "loop", "yield", "asleep", "printf", "exit_0", "exit_-1"}
  /\ {pin, missed, edges} \subseteq 0 .. MAX_EDGES
  /\ pin = missed + edges + IF raised THEN 1 ELSE 0

LEMMA GpioInit == Gpio!Init => GpioInv
BY ProgramsAssumption DEF Gpio!Init, GpioInv, Gpio!EdgeAssumption

LEMMA GpioStep ==
  ASSUME GpioInv, Gpio!Main \/ Gpio!PinEdge \/ Gpio!gpio_handler
  PROVE  GpioInv'
<1> USE ProgramsAssumption DEF GpioInv, Gpio!EdgeAssumption
<1>1. CASE Gpio!Main
  BY <1>1 DEF Gpio!Main, Gpio!Alloc, Gpio!SetEvent, Gpio!Loop, Gpio!Yield, Gpio!Printf
<1>2. CASE Gpio!PinEdge
  <2>1. raised' <=> raised \/ enabled
    BY <1>2 DEF Gpio!PinEdge
  <2>2. CASE raised
    BY <1>2, <2>1, <2>2 DEF Gpio!PinEdge
  <2>3. CASE ~raised
    BY <1>2, <2>1, <2>3 DEF Gpio!PinEdge
  <2> QED BY <2>2, <2>3
<1>3. CASE Gpio!gpio_handler
  BY <1>3 DEF Gpio!gpio_handler
<1> QED BY <1>1, <1>2, <1>3

-----------------------------------------------------------------------------
(* time/timer_oneshot, time/timer_periodic.                                *)

TimerInv ==
  /\ program \in {"oneshot", "periodic"}
  /\ pc \in {"begin", "start", "loop", "yield", "stop", "destroy", "exit_0", "exit_-1", "null_event"}
  /\ boot_pool \in 0 .. BOOT_EVENTS
  /\ timer \in {"none", "stopped", "armed", "destroyed"}
  /\ nb_ticks \in 0 .. IF program = "oneshot" THEN NB_TICKS ELSE MAX_TICKS
  /\ timer = "none" => ~queued /\ pc \in {"begin", "exit_-1", "null_event"}
  /\ queued => nb_ticks < MAX_TICKS
  /\ pc = "begin" => timer = "none"
  /\ pc \in {"begin", "start", "exit_-1", "null_event"} => timer # "armed" /\ ~queued
  /\ pc = "begin" => nb_ticks = 0
  /\ program = "oneshot" =>
       /\ timer = "armed" \/ queued => nb_ticks < NB_TICKS
       /\ ~(timer = "armed" /\ queued)
       /\ pc \in {"stop", "destroy", "exit_0"} => nb_ticks = NB_TICKS
       /\ pc = "start" => nb_ticks < NB_TICKS

LEMMA TimerInit == Timer!Init => TimerInv
BY ProgramsAssumption DEF Timer!Init, Timer!Start, TimerInv, Timer!TickAssumption

LEMMA TimerStep ==
  ASSUME TimerInv, Timer!Main \/ Timer!Expire
  PROVE  TimerInv'
<1> USE ProgramsAssumption DEF TimerInv, Timer!TickAssumption
<1>1. CASE Timer!Create
  <2>1. /\ pc' \in {"start", "exit_-1", "null_event"} /\ pc = "begin"
        /\ timer' \in {"none", "stopped"} /\ (timer' = "none" => pc' # "start")
        /\ UNCHANGED << program, queued, nb_ticks >>
    BY <1>1 DEF Timer!Create
  <2>2. boot_pool' \in 0 .. BOOT_EVENTS
    BY <1>1 DEF Timer!Create, Timer!HasEvents, Timer!rt_event_get
  <2> QED BY <2>1, <2>2
<1>2. CASE Timer!StartTimer
  BY <1>2 DEF Timer!StartTimer
<1>3. CASE Timer!Loop
  BY <1>3 DEF Timer!Loop
<1>4. CASE Timer!timer_handle
  BY <1>4 DEF Timer!timer_handle
<1>5. CASE Timer!YieldReturns
  BY <1>5 DEF Timer!YieldReturns
<1>6. CASE Timer!Stop \/ Timer!Destroy
  BY <1>6 DEF Timer!Stop, Timer!Destroy
<1>7. CASE Timer!Expire
  BY <1>7 DEF Timer!Expire
<1> QED BY <1>1, <1>2, <1>3, <1>4, <1>5, <1>6, <1>7 DEF Timer!Main

-----------------------------------------------------------------------------
(* bridge/framebuffer: the corner stays strictly below the last place,     *)
(* which is what makes the equality in the horizontal test safe.           *)

WindowInv == Window!TypeOK /\ x < WIDTH - SIDE /\ y < HEIGHT - SIDE

LEMMA WindowInit == Window!Init => WindowInv
BY ProgramsAssumption DEF Window!Init, WindowInv, Window!TypeOK, Window!WindowAssumption

LEMMA WindowStep ==
  ASSUME WindowInv, Window!Main
  PROVE  WindowInv'
<1> USE ProgramsAssumption DEF WindowInv, Window!TypeOK, Window!WindowAssumption
<1>1. CASE Window!Connect \/ Window!Update
  BY <1>1 DEF Window!Connect, Window!Update
<1>2. CASE Window!Slide
  <2>1. x' \in Nat /\ x' < WIDTH - SIDE
    BY <1>2 DEF Window!Slide
  <2>2. y' \in Nat /\ y' < HEIGHT - SIDE
    BY <1>2 DEF Window!Slide
  <2> QED BY <1>2, <2>1, <2>2 DEF Window!Slide
<1> QED BY <1>1, <1>2 DEF Window!Main

-----------------------------------------------------------------------------
(* The peripherals of one blocking call.                                   *)

CallsInv ==
  /\ program \in Calls!Programs
  /\ pc \in {"begin", "open", "alloc", "fill", "get", "call", "start", "blocked", "stop", "close",
             "exit_0", "exit_-1"}
  /\ pool \in 0 .. 1 /\ event \in {"none", "out", "signaled"}
  /\ filled \in 0 .. Calls!Size[program] /\ left \in 0 .. Calls!Size[program]
  /\ moved \in 0 .. Calls!Transfers
  /\ program = "pdm" /\ pc \in {"open", "get", "stop", "close", "exit_0"} => pool = 1
  /\ pc \in {"alloc", "fill", "get", "call", "start", "blocked"} => opened
  /\ left > 0 => pc \in {"start", "blocked"}
  /\ pc \in {"begin", "open", "alloc", "fill", "get", "call", "start", "blocked"} =>
       moved < Calls!Transfers
  /\ pc \in {"begin", "open", "get"} => moved = 0
  /\ program # "i2c" /\ pc \in {"alloc", "fill", "call", "start", "blocked"} => moved = 0
  /\ pc \in {"stop", "close", "exit_0"} => left = 0 /\ moved = Calls!Transfers /\ event = "none"
  /\ program \in Calls!Sending /\ pc \in {"call", "blocked"} => filled = Calls!Size[program]
  /\ program # "pdm" => event = "none" /\ ~ticking /\ pc \notin {"start", "stop"}
  /\ ticking => pc \in {"blocked", "stop"}
  /\ program = "pdm" =>
       /\ pc \in {"call", "start", "blocked"} => pool = 0
       /\ pc = "begin" => pool = 0
       /\ pc \notin {"alloc", "fill"}
       /\ pc \in {"begin", "open", "get"} => event = "none"
  /\ program # "pdm" => pool = 0

LEMMA SizeFacts ==
  /\ Calls!Programs = {"uart_send", "i2c", "spim_send", "spim_receive", "pdm"}
  /\ \A p \in Calls!Programs : Calls!Size[p] \in Nat /\ Calls!Size[p] > 0
BY DEF Calls!Programs, Calls!Size

LEMMA CallsInit == program \in Calls!Programs /\ Calls!Init => CallsInv
BY SizeFacts DEF Calls!Init, CallsInv, Calls!Transfers

LEMMA CallsStep ==
  ASSUME CallsInv, Calls!Main \/ Calls!Element, UNCHANGED program
  PROVE  CallsInv'
<1> USE SizeFacts DEF CallsInv, Calls!Transfers, Calls!Sending, Calls!Spim
<1>0. Calls!Transfers \in {1, 2}
  OBVIOUS
<1>1. CASE Calls!Alloc
  BY <1>1 DEF Calls!Alloc, Calls!rt_event_alloc
<1>2. CASE Calls!Open
  BY <1>2 DEF Calls!Open
<1>3. CASE Calls!AllocBuffer
  BY <1>3 DEF Calls!AllocBuffer
<1>4. CASE Calls!Fill
  BY <1>4 DEF Calls!Fill
<1>5. CASE Calls!GetEvent
  BY <1>5 DEF Calls!GetEvent, Calls!HasEvents, Calls!rt_event_get
<1>6. CASE Calls!Call
  BY <1>6 DEF Calls!Call
<1>7. CASE Calls!Start
  BY <1>7 DEF Calls!Start
<1>8. CASE Calls!Return
  BY <1>8 DEF Calls!Return, Calls!rt_event_free
<1>9. CASE Calls!Stop \/ Calls!Close
  BY <1>9 DEF Calls!Stop, Calls!Close
<1>10. CASE Calls!Element
  BY <1>10 DEF Calls!Element
<1> QED
  BY <1>1, <1>2, <1>3, <1>4, <1>5, <1>6, <1>7, <1>8, <1>9, <1>10 DEF Calls!Main

-----------------------------------------------------------------------------
(* time/enqueue_delayed: the clock is within its limit, which is known     *)
(* before the event is pushed and after; and a pushed event is not pushed  *)
(* to the scheduler a second time.                                         *)

DelayedInv ==
  /\ pc \in {"begin", "read", "push", "loop", "return", "exit_0", "exit_1", "exit_-1", "null_event"}
  /\ pool \in 0 .. 1
  /\ due = Delayed!None \/ due \in WAIT_TIME .. SLACK + WAIT_TIME
  /\ now \in 0 .. Delayed!Limit
  /\ enqueue_time \in 0 .. SLACK
  /\ exec_time \in 0 .. 2 * SLACK + WAIT_TIME
  /\ pc \in {"begin", "read", "push"} => due = Delayed!None
  /\ pc = "begin" => pool = 0
  /\ ready => pool = 0 /\ due # Delayed!None

LEMMA DelayedInit == Delayed!Init => DelayedInv
BY ProgramsAssumption DEF Delayed!Init, DelayedInv, Delayed!DelayAssumption, Delayed!None, Delayed!Limit

LEMMA DelayedStep ==
  ASSUME DelayedInv, Delayed!Main \/ Delayed!Tick \/ Delayed!Due
  PROVE  DelayedInv'
<1> USE ProgramsAssumption DEF DelayedInv, Delayed!DelayAssumption, Delayed!None, Delayed!Limit
<1>1. CASE Delayed!Alloc
  BY <1>1 DEF Delayed!Alloc, Delayed!rt_event_alloc
<1>2. CASE Delayed!ReadTime
  BY <1>2 DEF Delayed!ReadTime
<1>3. CASE Delayed!Push
  BY <1>3 DEF Delayed!Push, Delayed!HasEvents, Delayed!rt_event_get
<1>4. CASE Delayed!timer_callback
  <2>1. ~ready' BY <1>4 DEF Delayed!timer_callback
  <2> QED BY <1>4, <2>1 DEF Delayed!timer_callback, Delayed!rt_event_free
<1>5. CASE Delayed!LoopEnds \/ Delayed!ReturnMain
  BY <1>5 DEF Delayed!LoopEnds, Delayed!ReturnMain
<1>6. CASE Delayed!Tick
  BY <1>6 DEF Delayed!Tick
<1>7. CASE Delayed!Due
  BY <1>7 DEF Delayed!Due
<1> QED BY <1>1, <1>2, <1>3, <1>4, <1>5, <1>6, <1>7 DEF Delayed!Main

-----------------------------------------------------------------------------
(* periph/camera: the lines that are stored are those of one frame, from   *)
(* its first.                                                              *)

CaptureInv ==
  /\ pc \in {"begin", "buffer", "open", "get", "capture", "start", "wait", "stop", "close",
             "exit_0", "exit_-1", "null_event"}
  /\ i \in 0 .. NB_CAPTURES
  /\ pool \in 0 .. NB_EVENTS
  /\ event \in {"none", "out", "signaled"}
  /\ line \in 0 .. LINES - 1
  /\ capture \in {"none", "queued", "storing"}
  /\ stored \in 0 .. LINES
  /\ pc = "begin" => pool = 0
  /\ pc \in {"buffer", "open", "get", "stop", "close", "exit_0"} => pool = NB_EVENTS
  /\ pc \in {"capture", "start", "wait"} => pool = NB_EVENTS - 1
  /\ pc \in {"capture", "start", "wait", "stop"} => i < NB_CAPTURES
  /\ running => pc \in {"wait", "stop"}
  /\ pc \in {"capture", "start"} => event = "out"
  /\ pc \notin {"start", "wait"} => capture = "none"
  /\ pc = "start" => capture = "queued"
  /\ pc = "wait" /\ event = "signaled" => capture = "none" /\ stored = LINES
  /\ capture = "storing" => stored = line /\ line > 0
  /\ pc \in {"get", "close", "exit_0"} /\ i > 0 => stored = LINES
  /\ pc = "stop" => stored = LINES
  /\ pc \in {"begin", "buffer", "open"} => i = 0

LEMMA NextLine ==
  ASSUME line \in 0 .. LINES - 1
  PROVE  (line + 1) % LINES = IF line + 1 = LINES THEN 0 ELSE line + 1
BY ProgramsAssumption DEF Capture!CaptureAssumption

LEMMA CaptureInit == Capture!Init => CaptureInv
BY ProgramsAssumption DEF Capture!Init, CaptureInv, Capture!CaptureAssumption

LEMMA CaptureStep ==
  ASSUME CaptureInv, Capture!Main \/ Capture!Line
  PROVE  CaptureInv'
<1> USE ProgramsAssumption DEF CaptureInv, Capture!CaptureAssumption, Capture!camera
<1>1. CASE Capture!Alloc
  BY <1>1 DEF Capture!Alloc, Capture!rt_event_alloc
<1>2. CASE Capture!AllocBuffer \/ Capture!OpenCamera
  BY <1>2 DEF Capture!AllocBuffer, Capture!OpenCamera
<1>3. CASE Capture!GetEvent
  BY <1>3 DEF Capture!GetEvent, Capture!HasEvents, Capture!rt_event_get
<1>4. CASE Capture!Capture
  BY <1>4 DEF Capture!Capture
<1>5. CASE Capture!Start
  BY <1>5 DEF Capture!Start
<1>6. CASE Capture!Wait
  BY <1>6 DEF Capture!Wait, Capture!rt_event_free
<1>7. CASE Capture!Stop
  <2>1. ~running' BY <1>7 DEF Capture!Stop
  <2> QED BY <1>7, <2>1 DEF Capture!Stop
<1>8. CASE Capture!Close
  BY <1>8 DEF Capture!Close
<1>9. CASE Capture!Line
  BY <1>9, NextLine DEF Capture!Line
<1> QED BY <1>1, <1>2, <1>3, <1>4, <1>5, <1>6, <1>7, <1>8, <1>9 DEF Capture!Main

-----------------------------------------------------------------------------
(* bridge/file: what has been read since the last turn is in the buffer,   *)
(* and later has its NUL behind it.                                        *)

\* The first n characters of the file.
Prefix(n) == [k \in 1 .. n |-> k]

FileInv ==
  /\ pc \in {"begin", "read", "write", "terminate", "puts", "exit_0", "exit_-1"}
  /\ at \in 0 .. FILE_LENGTH
  /\ res \in 0 .. FILE_LENGTH
  /\ buffer \in [0 .. FILE_BUFFER -> Int]
  /\ \A k \in 0 .. FILE_BUFFER : buffer[k] \in 0 .. FILE_LENGTH \/ buffer[k] = File!Untouched
  /\ buffer[FILE_BUFFER] = File!Untouched
  /\ pc \in {"write", "terminate", "puts"} =>
       /\ res > 0 /\ res <= at
       /\ \A k \in 0 .. res - 1 : buffer[k] = at - res + k + 1
  /\ pc = "puts" => buffer[res] = 0
  /\ copied = Prefix(IF pc = "write" THEN at - res ELSE at)
  /\ shown = Prefix(IF pc \in {"write", "terminate", "puts"} THEN at - res ELSE at)
  /\ pc = "exit_0" => at = FILE_LENGTH

LEMMA FileFacts ==
  /\ FILE_BUFFER \in Nat /\ FILE_LENGTH \in Nat /\ FILE_LENGTH > 0 /\ FILE_LENGTH < FILE_BUFFER
  /\ File!Untouched = -1
BY ProgramsAssumption DEF File!FileAssumption, File!Untouched

LEMMA MinOfTwo ==
  ASSUME NEW a \in Int, NEW b \in Int
  PROVE  File!Min({a, b}) \in Int /\ File!Min({a, b}) <= a /\ File!Min({a, b}) <= b
<1>1. \E m \in {a, b} : \A k \in {a, b} : m <= k
  <2>1. CASE a <= b BY <2>1
  <2>2. CASE b < a BY <2>2
  <2> QED BY <2>1, <2>2
<1> QED BY <1>1 DEF File!Min

\* The string in the buffer ends at the NUL behind what was read.
LEMMA FirstNul ==
  ASSUME FileInv, pc = "puts"
  PROVE  File!Min({k \in 0 .. FILE_BUFFER : buffer[k] \in {0, File!Untouched}}) = res
<1> DEFINE Ends == {k \in 0 .. FILE_BUFFER : buffer[k] \in {0, File!Untouched}}
<1>1. res \in Ends
  BY FileFacts DEF FileInv
<1>2. \A k \in Ends : res <= k
  <2> SUFFICES ASSUME NEW k \in 0 .. FILE_BUFFER, k < res PROVE buffer[k] \notin {0, File!Untouched}
    BY FileFacts DEF FileInv
  <2>1. buffer[k] = at - res + k + 1 /\ res <= at
    BY FileFacts DEF FileInv
  <2> QED BY <2>1, FileFacts DEF FileInv
<1>3. \A m \in Ends : (\A k \in Ends : m <= k) => m = res
  BY <1>1, <1>2, FileFacts DEF FileInv
<1> HIDE DEF Ends
<1>4. (CHOOSE m \in Ends : \A k \in Ends : m <= k) = res
  BY <1>1, <1>2, <1>3
<1> QED BY <1>4 DEF File!Min, Ends

LEMMA PrefixIsSeq ==
  ASSUME NEW n \in 0 .. FILE_LENGTH
  PROVE  Prefix(n) \in Seq(1 .. FILE_LENGTH) /\ Len(Prefix(n)) = n
<1>1. Prefix(n) \in [1 .. n -> 1 .. FILE_LENGTH]
  BY FileFacts DEF Prefix
<1> QED BY <1>1, FileFacts DEF Prefix

\* A piece that follows what is there makes it longer.
LEMMA PrefixGrows ==
  ASSUME NEW n \in Nat, NEW r \in Nat, NEW s \in Seq(Int), NEW piece \in Seq(Int),
         Len(s) = n, Len(piece) = r,
         \A k \in 1 .. n : s[k] = k, \A k \in 1 .. r : piece[k] = n + k
  PROVE  s \o piece = Prefix(n + r)
<1>1. /\ s \o piece \in Seq(Int) /\ Len(s \o piece) = n + r
      /\ \A k \in 1 .. n + r : (s \o piece)[k] = IF k <= n THEN s[k] ELSE piece[k - n]
  BY ConcatProperties
<1>2. \A k \in 1 .. n + r : (s \o piece)[k] = k
  BY <1>1
<1> DEFINE whole == s \o piece
<1> HIDE DEF whole
<1>3. whole \in [1 .. n + r -> Int]
  BY <1>1, LenProperties DEF whole
<1>4. whole = [k \in 1 .. n + r |-> k]
  BY <1>2, <1>3 DEF whole
<1> QED BY <1>4 DEF Prefix, whole

\* What is copied and what is shown begin like the file.
LEMMA FilePrefixes ==
  ASSUME FileInv
  PROVE  \E m, n \in 0 .. FILE_LENGTH :
           /\ copied = Prefix(m) /\ shown = Prefix(n)
           /\ pc \in {"read", "exit_0"} => m = at /\ n = at
<1>1. /\ (IF pc = "write" THEN at - res ELSE at) \in 0 .. FILE_LENGTH
      /\ (IF pc \in {"write", "terminate", "puts"} THEN at - res ELSE at) \in 0 .. FILE_LENGTH
  BY FileFacts DEF FileInv
<1> QED BY <1>1 DEF FileInv

LEMMA FileInit == File!Init => FileInv
<1> SUFFICES ASSUME File!Init PROVE FileInv
  OBVIOUS
<1>1. Prefix(0) = << >>
  BY DEF Prefix
<1> QED BY <1>1, FileFacts DEF File!Init, FileInv

LEMMA FileStep ==
  ASSUME FileInv, File!Main
  PROVE  FileInv'
<1>1. CASE File!Open
  BY <1>1, FileFacts DEF FileInv, File!Open
<1>2. CASE File!Read
  <2>1. PICK n \in 0 .. File!Min({FILE_BUFFER, FILE_LENGTH - at}) :
          /\ n = 0 <=> at = FILE_LENGTH
          /\ res' = n /\ at' = at + n
          /\ buffer' = [k \in 0 .. FILE_BUFFER |-> IF k < n THEN at + k + 1 ELSE buffer[k]]
    BY <1>2 DEF File!Read
  <2>2. at \in 0 .. FILE_LENGTH /\ n \in 0 .. FILE_LENGTH - at
    <3>1. at \in 0 .. FILE_LENGTH /\ FILE_LENGTH - at \in Int /\ FILE_BUFFER \in Int
      BY FileFacts DEF FileInv
    <3>2. /\ File!Min({FILE_BUFFER, FILE_LENGTH - at}) \in Int
          /\ File!Min({FILE_BUFFER, FILE_LENGTH - at}) <= FILE_LENGTH - at
      BY <3>1, MinOfTwo
    <3> QED BY <2>1, <3>1, <3>2
  <2>3. /\ pc = "read" /\ pc' = IF n = 0 THEN "exit_0" ELSE "write"
        /\ copied' = copied /\ shown' = shown
    BY <1>2, <2>1 DEF File!Read
  <2>4. copied = Prefix(at) /\ shown = Prefix(at)
    BY <2>3 DEF FileInv
  <2>5. /\ buffer' \in [0 .. FILE_BUFFER -> Int]
        /\ \A k \in 0 .. FILE_BUFFER : buffer'[k] \in 0 .. FILE_LENGTH \/ buffer'[k] = File!Untouched
        /\ buffer'[FILE_BUFFER] = File!Untouched
        /\ \A k \in 0 .. n - 1 : buffer'[k] = at + k + 1
    BY <2>1, <2>2, FileFacts DEF FileInv
  <2> QED BY <2>1, <2>2, <2>3, <2>4, <2>5, FileFacts DEF FileInv
<1>3. CASE File!Write
  <2>1. /\ pc = "write" /\ pc' = "terminate" /\ UNCHANGED << at, res, buffer, shown >>
        /\ copied' = copied \o [k \in 1 .. res |-> buffer[k - 1]]
    BY <1>3 DEF File!Write
  <2>2. copied = Prefix(at - res) /\ at - res \in 0 .. FILE_LENGTH /\ at \in Int /\ res \in Int
    BY <2>1, FileFacts DEF FileInv
  <2>3. [k \in 1 .. res |-> buffer[k - 1]] = [k \in 1 .. res |-> (at - res) + k]
    BY <2>1, <2>2, FileFacts DEF FileInv
  <2>4. copied' = Prefix(at - res + res)
    <3> DEFINE from == at - res
    <3> DEFINE piece == [k \in 1 .. res |-> from + k]
    <3>1. from \in 0 .. FILE_LENGTH /\ from \in Nat /\ res \in Nat
      BY <2>2, FileFacts DEF FileInv
    <3>2. copied' = copied \o piece /\ copied = Prefix(from)
      BY <2>1, <2>2, <2>3
    <3>3. piece \in Seq(Int) /\ Len(piece) = res /\ \A k \in 1 .. res : piece[k] = from + k
      BY <3>1
    <3>4. copied \in Seq(Int) /\ Len(copied) = from /\ \A k \in 1 .. from : copied[k] = k
      BY <3>1, <3>2 DEF Prefix
    <3> HIDE DEF from, piece
    <3>5. copied' = Prefix(from + res)
      BY <3>1, <3>2, <3>3, <3>4, PrefixGrows
    <3> QED BY <3>5 DEF from
  <2>5. copied' = Prefix(at)
    BY <2>2, <2>4
  <2> QED BY <2>1, <2>5, FileFacts DEF FileInv
<1>4. CASE File!Terminate
  BY <1>4, FileFacts DEF FileInv, File!Terminate
<1>5. CASE File!Puts
  <2>1. /\ pc = "puts" /\ pc' = "read" /\ UNCHANGED << at, res, buffer, copied >>
        /\ shown' = shown \o [k \in 1 .. res |-> buffer[k - 1]]
    BY <1>5, FirstNul DEF File!Puts
  <2>2. shown = Prefix(at - res) /\ at - res \in 0 .. FILE_LENGTH /\ at \in Int /\ res \in Int
    BY <2>1, FileFacts DEF FileInv
  <2>3. [k \in 1 .. res |-> buffer[k - 1]] = [k \in 1 .. res |-> (at - res) + k]
    BY <2>1, <2>2, FileFacts DEF FileInv
  <2>4. shown' = Prefix(at - res + res)
    <3> DEFINE from == at - res
    <3> DEFINE piece == [k \in 1 .. res |-> from + k]
    <3>1. from \in 0 .. FILE_LENGTH /\ from \in Nat /\ res \in Nat
      BY <2>2, FileFacts DEF FileInv
    <3>2. shown' = shown \o piece /\ shown = Prefix(from)
      BY <2>1, <2>2, <2>3
    <3>3. piece \in Seq(Int) /\ Len(piece) = res /\ \A k \in 1 .. res : piece[k] = from + k
      BY <3>1
    <3>4. shown \in Seq(Int) /\ Len(shown) = from /\ \A k \in 1 .. from : shown[k] = k
      BY <3>1, <3>2 DEF Prefix
    <3> HIDE DEF from, piece
    <3>5. shown' = Prefix(from + res)
      BY <3>1, <3>2, <3>3, <3>4, PrefixGrows
    <3> QED BY <3>5 DEF from
  <2>5. shown' = Prefix(at)
    BY <2>2, <2>4
  <2> QED BY <2>1, <2>5, FileFacts DEF FileInv
<1> QED BY <1>1, <1>2, <1>3, <1>4, <1>5 DEF File!Main

-----------------------------------------------------------------------------
(* periph/uart/loopback: from the moment anything is sent until all of it  *)
(* has been received, a read is enqueued.                                  *)

UartBuffers ==
  /\ tx_buffer \in [Uart!Index -> Uart!Index]
  /\ rx_buffer \in [Uart!Index -> Uart!Index \cup {Uart!Nothing}]

UartWire ==
  /\ received \in 0 .. BUFFER_SIZE /\ sent \in 0 .. BUFFER_SIZE
  /\ wire \in Seq(Uart!Index) /\ Len(wire) <= WIRE
  /\ sent = received + Len(wire)

UartPlace ==
  /\ pc \in {"begin", "open", "fill", "get", "read", "write", "written", "wait", "compare",
             "exit", "exit_-1", "null_event"}
  /\ pool \in 0 .. 4
  /\ event \in {"none", "out", "signaled"}
  /\ error \in 0 .. BUFFER_SIZE
  /\ pc = "begin" => pool = 0
  /\ pc \in {"read", "write", "written", "wait"} => pool <= 3

UartReading ==
  /\ pc \notin {"written", "wait", "compare", "exit"} => sent = 0 /\ ~writing
  /\ pc \in {"write", "written", "wait", "compare", "exit"} /\ received < BUFFER_SIZE => reading

UartInv == UartBuffers /\ UartWire /\ UartPlace /\ UartReading

LEMMA UartFacts ==
  /\ BUFFER_SIZE \in Nat /\ BUFFER_SIZE > 0 /\ WIRE \in Nat
  /\ Uart!Index = 0 .. BUFFER_SIZE - 1 /\ 0 \in Uart!Index
BY ProgramsAssumption DEF Uart!UartAssumption, Uart!Index

LEMMA UartInit == Uart!Init => UartInv
<1> SUFFICES ASSUME Uart!Init PROVE UartInv
  OBVIOUS
<1>1. UartBuffers /\ UartPlace
  BY UartFacts DEF Uart!Init, UartBuffers, UartPlace
<1>2. UartWire
  BY UartFacts DEF Uart!Init, UartWire
<1>3. UartReading
  BY DEF Uart!Init, UartReading
<1> QED BY <1>1, <1>2, <1>3 DEF UartInv

\* main, but for the buffers: it moves nothing.
LEMMA UartMainStep ==
  ASSUME UartInv, Uart!Main
  PROVE  UartWire' /\ UartPlace' /\ UartReading'
<1>1. UNCHANGED << received, sent, wire >>
  BY DEF Uart!Main, Uart!Alloc, Uart!Open, Uart!Fill, Uart!GetEvent, Uart!Read, Uart!Write,
         Uart!Written, Uart!Wait, Uart!Compare, Uart!interface
<1>2. UartWire'
  BY <1>1 DEF UartInv, UartWire
<1>3. error' \in 0 .. BUFFER_SIZE
  <2>1. CASE Uart!Compare
    <3> DEFINE different == {k \in Uart!Index : rx_buffer[k] # tx_buffer[k]}
    <3>1. IsFiniteSet(Uart!Index) /\ Cardinality(Uart!Index) = BUFFER_SIZE
      <4>1. IsFiniteSet(0 .. BUFFER_SIZE - 1) /\ Cardinality(0 .. BUFFER_SIZE - 1) = BUFFER_SIZE
        BY UartFacts, FS_Interval
      <4> QED BY <4>1, UartFacts
    <3>2. different \subseteq Uart!Index
      OBVIOUS
    <3> HIDE DEF different
    <3>3. Cardinality(different) \in Nat /\ Cardinality(different) <= BUFFER_SIZE
      BY <3>1, <3>2, FS_Subset, FS_CardinalityType
    <3>4. error' = Cardinality(different)
      BY <2>1 DEF Uart!Compare, Uart!Cardinality, Cardinality, different
    <3> QED BY <3>3, <3>4, UartFacts
  <2>2. CASE error' = error
    BY <2>2 DEF UartInv, UartPlace
  <2> QED
    BY <2>1, <2>2 DEF Uart!Main, Uart!Alloc, Uart!Open, Uart!Fill, Uart!GetEvent, Uart!Read,
                      Uart!Write, Uart!Written, Uart!Wait
<1>4. UartPlace'
  BY <1>3 DEF UartInv, UartPlace, Uart!Main, Uart!Alloc, Uart!Open, Uart!Fill, Uart!GetEvent,
              Uart!Read, Uart!Write, Uart!Written, Uart!Wait, Uart!Compare, Uart!rt_event_alloc,
              Uart!HasEvents, Uart!rt_event_get, Uart!rt_event_free
<1>5. UartReading'
  BY <1>1 DEF UartInv, UartReading, UartPlace, Uart!Main, Uart!Alloc, Uart!Open, Uart!Fill,
              Uart!GetEvent, Uart!Read, Uart!Write, Uart!Written, Uart!Wait, Uart!Compare,
              Uart!interface
<1> QED BY <1>2, <1>4, <1>5

LEMMA UartBuffersStep ==
  ASSUME UartInv, Uart!Main
  PROVE  UartBuffers'
<1>1. CASE Uart!Fill
  <2>1. \A k \in Uart!Index : k % 256 \in Uart!Index
    <3> SUFFICES ASSUME NEW k \in Nat, k <= BUFFER_SIZE - 1 PROVE k % 256 \in 0 .. BUFFER_SIZE - 1
      BY UartFacts
    <3>1. k % 256 \in 0 .. 255 /\ (k < 256 => k % 256 = k)
      OBVIOUS
    <3> QED BY <3>1, UartFacts
  <2> QED BY <1>1, <2>1 DEF UartInv, UartBuffers, Uart!Fill
<1>2. CASE UNCHANGED << tx_buffer, rx_buffer >>
  BY <1>2 DEF UartInv, UartBuffers
<1> QED
  BY <1>1, <1>2 DEF Uart!Main, Uart!Alloc, Uart!Open, Uart!GetEvent, Uart!Read, Uart!Write,
                    Uart!Written, Uart!Wait, Uart!Compare, Uart!buffers

LEMMA UartStep ==
  ASSUME UartInv, Uart!Main \/ Uart!Send \/ Uart!Receive
  PROVE  UartInv'
<1>1. CASE Uart!Main
  BY <1>1, UartMainStep, UartBuffersStep DEF UartInv
<1>2. CASE Uart!Send
  <2>1. /\ sent' = sent + 1 /\ sent < BUFFER_SIZE /\ Len(wire) < WIRE /\ writing
        /\ wire' = Append(wire, tx_buffer[sent])
        /\ UNCHANGED << pc, pool, event, tx_buffer, rx_buffer, reading, received, error >>
    BY <1>2 DEF Uart!Send, Uart!buffers
  <2>2. UartBuffers' /\ UartPlace'
    BY <2>1 DEF UartInv, UartBuffers, UartPlace
  <2>3. wire \in Seq(Uart!Index) /\ Len(wire) \in Nat
    BY LenProperties DEF UartInv, UartWire
  <2>4. tx_buffer[sent] \in Uart!Index
    BY <2>1, UartFacts DEF UartInv, UartWire, UartBuffers
  <2>5. wire' \in Seq(Uart!Index) /\ Len(wire') = Len(wire) + 1
    BY <2>1, <2>3, <2>4, AppendProperties
  <2>6. UartWire'
    BY <2>1, <2>3, <2>5, UartFacts DEF UartInv, UartWire
  <2>7. pc \in {"written", "wait", "compare", "exit"}
    BY <2>1 DEF UartInv, UartReading
  <2>8. UartReading'
    BY <2>1, <2>7 DEF UartInv, UartReading
  <2> QED BY <2>2, <2>6, <2>8 DEF UartInv
<1>3. CASE Uart!Receive
  <2>1. wire # << >> /\ wire' = Tail(wire) /\ UNCHANGED << pc, pool, tx_buffer, writing, sent, error >>
    BY <1>3 DEF Uart!Receive
  <2>2. wire \in Seq(Uart!Index) /\ Len(wire) \in Nat
    BY LenProperties DEF UartInv, UartWire
  <2>3. /\ Head(wire) \in Uart!Index /\ Len(wire) > 0
        /\ wire' \in Seq(Uart!Index) /\ Len(wire') = Len(wire) - 1
    BY <2>1, <2>2, HeadTailProperties, EmptySeq
  <2>4. received < BUFFER_SIZE /\ sent > 0
    BY <2>2, <2>3, UartFacts DEF UartInv, UartWire
  <2>5. reading
    BY <2>4 DEF UartInv, UartReading, UartPlace
  <2>6. /\ rx_buffer' = [rx_buffer EXCEPT ![received] = Head(wire)]
        /\ received' = received + 1
        /\ reading' = (received' < BUFFER_SIZE)
        /\ event' \in {event, "signaled"}
    BY <1>3, <2>5 DEF Uart!Receive
  <2>7. UartBuffers'
    BY <2>1, <2>3, <2>4, <2>6, UartFacts DEF UartInv, UartBuffers, UartWire
  <2>8. UartWire'
    BY <2>1, <2>2, <2>3, <2>4, <2>6, UartFacts DEF UartInv, UartWire
  <2>9. UartPlace'
    BY <2>1, <2>6 DEF UartInv, UartPlace
  <2>10. UartReading'
    BY <2>1, <2>4, <2>6 DEF UartInv, UartReading
  <2> QED BY <2>7, <2>8, <2>9, <2>10 DEF UartInv
<1> QED BY <1>1, <1>2, <1>3

-----------------------------------------------------------------------------
(* sa/ddr/sniffer: a turn for each point up to the next one.               *)

SnifferInv ==
  /\ pc \in {"begin", "wait", "dump", "exit_0"}
  /\ id \in Sniffer!Counter
  /\ turns \in Nat /\ address = Sniffer!base + turns * SPY_SHIFT
  /\ pc # "exit_0" => turns * SPY_SHIFT < SPY_LIMIT
  /\ pc = "exit_0" => turns * SPY_SHIFT = SPY_LIMIT
  /\ dumped \in 0 .. Sniffer!base + SPY_LIMIT
  /\ turns > 0 => dumped = Sniffer!base + (turns - 1) * SPY_SHIFT
  /\ mem \in [0 .. Sniffer!base + SPY_LIMIT -> Nat]
  /\ \A a \in Sniffer!base .. Sniffer!base + SPY_LIMIT : mem[a] = a
  /\ pending = [c \in Sniffer!Counter |-> pending[c]]
  /\ held = IF pc = "wait" THEN {id} ELSE {}
  /\ \A c \in Sniffer!Counter \ held : pending[c] = {}
  /\ pc = "wait" => /\ pending[id] \subseteq {<< address, Sniffer!Buff >>}
                    /\ pending[id] = {} => mem[Sniffer!Buff] = address
  /\ pc = "dump" => mem[Sniffer!Buff] = address

LEMMA SnifferFacts ==
  /\ NB_COUNTERS \in Nat /\ NB_COUNTERS > 0 /\ SPY_SHIFT \in Nat /\ SPY_SHIFT > 0
  /\ SPY_LIMIT \in Nat /\ SPY_LIMIT > 0 /\ SPY_LIMIT % SPY_SHIFT = 0
  /\ Sniffer!base = 1 /\ Sniffer!Buff = 0
  /\ Sniffer!Counter = 0 .. NB_COUNTERS - 1 /\ 0 \in Sniffer!Counter
BY ProgramsAssumption DEF Sniffer!SnifferAssumption, Sniffer!base, Sniffer!Buff, Sniffer!Counter

LEMMA Divides ==
  ASSUME NEW a \in Nat, NEW b \in Nat, b > 0, a % b = 0
  PROVE  \E q \in Nat : a = q * b
<1>1. a \div b \in Nat /\ a = b * (a \div b)
  OBVIOUS
<1>2. a = (a \div b) * b
  BY <1>1
<1> QED BY <1>1, <1>2

\* The points come to the limit exactly, because it is a multiple of the shift.
LEMMA PointsEnd ==
  ASSUME NEW t \in Nat, t * SPY_SHIFT < SPY_LIMIT
  PROVE  /\ (t + 1) * SPY_SHIFT = t * SPY_SHIFT + SPY_SHIFT
         /\ (t + 1) * SPY_SHIFT <= SPY_LIMIT
         /\ t * SPY_SHIFT \in Nat
<1>1. PICK q \in Nat : SPY_LIMIT = q * SPY_SHIFT
  BY SnifferFacts, Divides
<1>2. t < q
  BY <1>1, SnifferFacts
<1>3. (t + 1) * SPY_SHIFT <= q * SPY_SHIFT
  BY <1>2, SnifferFacts
<1> QED BY <1>1, <1>3, SnifferFacts

LEMMA SnifferInit == Sniffer!Init => SnifferInv
BY SnifferFacts DEF Sniffer!Init, Sniffer!DmaInit, Sniffer!Chunk, SnifferInv

LEMMA SnifferStep ==
  ASSUME SnifferInv, Sniffer!Main \/ Sniffer!Move
  PROVE  SnifferInv'
<1> USE SnifferFacts
<1>0. turns * SPY_SHIFT \in Nat /\ address \in 1 .. 1 + SPY_LIMIT
  <2>1. turns \in Nat
    BY DEF SnifferInv
  <2>2. turns * SPY_SHIFT \in Nat
    BY <2>1
  <2> QED BY <2>1, <2>2 DEF SnifferInv
<1>1. CASE Sniffer!Read
  <2>1. /\ pc = "begin" /\ pc' = "wait" /\ held = {}
        /\ UNCHANGED << address, turns, dumped, mem >>
    BY <1>1 DEF SnifferInv, Sniffer!Read
  <2>2. Sniffer!NextCounter(held) \in Sniffer!Counter
    <3>1. \E c \in Sniffer!Counter \ held : \A d \in Sniffer!Counter \ held : c <= d
      BY <2>1
    <3> QED BY <3>1 DEF Sniffer!NextCounter
  <2>3. Sniffer!Moves(address, Sniffer!Buff, 1) = {<< address, Sniffer!Buff >>}
    BY <1>0 DEF Sniffer!Moves
  <2>4. /\ id' \in Sniffer!Counter /\ held' = {id'}
        /\ pending' = [pending EXCEPT ![id'] = {<< address, Sniffer!Buff >>}]
    BY <1>1, <2>1, <2>2, <2>3 DEF Sniffer!Read, Sniffer!plp_dma_memcpy
  <2> QED BY <2>1, <2>4 DEF SnifferInv
<1>2. CASE Sniffer!Wait
  BY <1>2 DEF SnifferInv, Sniffer!Wait, Sniffer!Waited, Sniffer!Release
<1>3. CASE Sniffer!Dump
  <2>1. /\ pc = "dump" /\ dumped' = address /\ turns' = turns + 1
        /\ address' = address + SPY_SHIFT
        /\ pc' = IF address' - 1 < SPY_LIMIT THEN "begin" ELSE "exit_0"
        /\ UNCHANGED << id, mem, pending, held >>
    BY <1>3 DEF SnifferInv, Sniffer!Dump
  <2>2. /\ turns \in Nat /\ address = 1 + turns * SPY_SHIFT /\ turns * SPY_SHIFT < SPY_LIMIT
    BY <2>1 DEF SnifferInv
  <2>3. /\ turns' * SPY_SHIFT = turns * SPY_SHIFT + SPY_SHIFT
        /\ turns' * SPY_SHIFT <= SPY_LIMIT /\ turns' * SPY_SHIFT \in Nat
    BY <2>1, <2>2, PointsEnd
  <2>4. dumped' = 1 + (turns' - 1) * SPY_SHIFT /\ dumped' \in 0 .. 1 + SPY_LIMIT
    BY <2>1, <2>2, <1>0
  <2>5. /\ address' = 1 + turns' * SPY_SHIFT
        /\ pc' # "exit_0" => turns' * SPY_SHIFT < SPY_LIMIT
        /\ pc' = "exit_0" => turns' * SPY_SHIFT = SPY_LIMIT
        /\ pc' \in {"begin", "exit_0"} /\ turns' \in Nat
    BY <2>1, <2>2, <2>3
  <2> QED BY <2>1, <2>4, <2>5 DEF SnifferInv
<1>4. CASE Sniffer!Move
  <2>0. PICK c \in Sniffer!Counter : \E move \in pending[c] :
          /\ mem' = [mem EXCEPT ![move[2]] = mem[move[1]]]
          /\ pending' = [pending EXCEPT ![c] = @ \ {move}]
          /\ UNCHANGED << pc, id, address, turns, dumped, held >>
    BY <1>4 DEF Sniffer!Move, Sniffer!DmaMove
  <2>1. PICK move \in pending[c] :
          /\ mem' = [mem EXCEPT ![move[2]] = mem[move[1]]]
          /\ pending' = [pending EXCEPT ![c] = @ \ {move}]
          /\ UNCHANGED << pc, id, address, turns, dumped, held >>
    BY <2>0
  <2>2. pc = "wait" /\ c = id /\ move = << address, 0 >>
    BY <2>1 DEF SnifferInv
  <2>3. mem[address] = address
    BY <1>0 DEF SnifferInv
  <2>4. /\ mem' \in [0 .. 1 + SPY_LIMIT -> Nat] /\ mem'[0] = address
        /\ \A a \in 1 .. 1 + SPY_LIMIT : mem'[a] = a
    <3>1. mem' = [mem EXCEPT ![0] = address]
      BY <2>1, <2>2, <2>3
    <3>2. /\ mem \in [0 .. 1 + SPY_LIMIT -> Nat]
          /\ \A a \in 1 .. 1 + SPY_LIMIT : mem[a] = a
      BY DEF SnifferInv
    <3> QED BY <3>1, <3>2, <1>0
  <2>5. /\ pending' = [d \in Sniffer!Counter |-> pending'[d]]
        /\ pending'[id] \subseteq pending[id]
        /\ \A d \in Sniffer!Counter \ {id} : pending'[d] = pending[d]
    BY <2>1, <2>2 DEF SnifferInv
  <2> QED BY <2>1, <2>2, <2>4, <2>5 DEF SnifferInv
<1> QED BY <1>1, <1>2, <1>3, <1>4 DEF Sniffer!Main

-----------------------------------------------------------------------------
(* accelerators/hwme: while the job runs, the results of the products done *)
(* so far are in memory and the accumulator is the reference program's tmp *)
(* after as many products of the next one.  That the job is over when main *)
(* reads them rests on the event: until the mask is set, which is after    *)
(* the engine was acquired, the end of somebody else's job leaves none,    *)
(* and from the start of its own job it is only there when that is over.   *)

LEMMA AccelFacts ==
  /\ NB_ITER \in Nat \ {0} /\ LEN_ITER \in Nat \ {0} /\ VALUES \subseteq Int
BY ProgramsAssumption DEF Accel!HwmeAssumption

\* A product of the job belongs to one result, at one place.
LEMMA OnePlace ==
  ASSUME NEW L \in Nat, L > 0,
         NEW q \in Nat, NEW p \in 0 .. L - 1, NEW r \in Nat, NEW j \in 0 .. L - 1,
         q * L + p = r * L + j
  PROVE  q = r /\ p = j
<1>1. ~(q < r)
  <2> SUFFICES ASSUME q < r PROVE FALSE
    OBVIOUS
  <2>1. (r - q - 1) * L >= 0
    OBVIOUS
  <2>2. r * L >= q * L + L
    BY <2>1
  <2> QED BY <2>2
<1>2. ~(r < q)
  <2> SUFFICES ASSUME r < q PROVE FALSE
    OBVIOUS
  <2>1. (q - r - 1) * L >= 0
    OBVIOUS
  <2>2. q * L >= r * L + L
    BY <2>1
  <2> QED BY <2>2
<1>3. q = r
  BY <1>1, <1>2
<1> QED BY <1>3

\* What the engine computes from the number of products done.
LEMMA Place ==
  ASSUME NEW L \in Nat, L > 0, NEW n \in Nat
  PROVE  /\ n \div L \in Nat /\ n % L \in 0 .. L - 1
         /\ n = (n \div L) * L + (n % L)
<1>1. n % L \in 0 .. L - 1 /\ n \div L \in Nat
  OBVIOUS
<1>2. n = L * (n \div L) + (n % L)
  OBVIOUS
<1> QED BY <1>1, <1>2

LEMMA PlaceOf ==
  ASSUME NEW L \in Nat, L > 0, NEW r \in Nat, NEW p \in 0 .. L - 1
  PROVE  (r * L + p) \div L = r /\ (r * L + p) % L = p
<1>1. r * L + p \in Nat
  OBVIOUS
<1> DEFINE n == r * L + p
           q == n \div L
           j == n % L
<1>2. q \in Nat /\ j \in 0 .. L - 1 /\ q * L + j = n
  BY <1>1, Place
<1> HIDE DEF q, j
<1>3. q = r /\ j = p
  BY <1>2, OnePlace
<1> QED BY <1>3 DEF q, j

\* The products of a result are products of the job.
LEMMA OperandOf ==
  ASSUME NEW r \in Accel!Result, NEW p \in 0 .. LEN_ITER - 1
  PROVE  r * LEN_ITER + p \in Accel!Operand
<1>1. r \in Nat /\ r <= NB_ITER - 1 /\ NB_ITER \in Nat /\ LEN_ITER \in Nat
  BY AccelFacts DEF Accel!Result
<1>2. (NB_ITER - 1 - r) * LEN_ITER >= 0
  BY <1>1
<1>3. NB_ITER * LEN_ITER >= r * LEN_ITER + LEN_ITER
  BY <1>1, <1>2
<1>4. r * LEN_ITER \in Nat
  BY <1>1
<1> QED BY <1>1, <1>3, <1>4 DEF Accel!Operand

LowerPairs == {pair \in Nat \X Nat : pair[1] < pair[2]}

\* A loop that adds up has a history.
LEMMA LoopExists ==
  ASSUME NEW L \in Nat, NEW base \in Int, NEW g \in [0 .. L - 1 -> Int]
  PROVE  \E f \in [0 .. L -> Int] :
           f[0] = base /\ \A n \in 1 .. L : f[n] = f[n - 1] + g[n - 1]
<1> DEFINE History(m) == \E f \in [0 .. m -> Int] :
             f[0] = base /\ \A n \in 1 .. m : f[n] = f[n - 1] + g[n - 1]
           Bad == {m \in 0 .. L : ~History(m)}
<1>1. SUFFICES ASSUME Bad # {} PROVE FALSE
  <2>1. L \in 0 .. L
    OBVIOUS
  <2> QED BY <1>1, <2>1
<1>2. IsWellFoundedOn(LowerPairs, Nat)
  BY NatLessThanWellFounded DEF OpToRel, LowerPairs
<1>3. PICK m \in Bad : \A k \in Bad : ~(<< k, m >> \in LowerPairs)
  <2>1. Bad \subseteq Nat
    OBVIOUS
  <2> HIDE DEF Bad
  <2> QED BY <1>1, <1>2, <2>1, WFMin
<1>4. m \in 0 .. L /\ ~History(m)
  OBVIOUS
<1>5. \A k \in 0 .. m - 1 : History(k)
  <2> SUFFICES ASSUME NEW k \in 0 .. m - 1, ~History(k) PROVE FALSE
    OBVIOUS
  <2>1. k \in 0 .. L /\ << k, m >> \in LowerPairs
    BY <1>4 DEF LowerPairs
  <2>2. k \in Bad
    <3> HIDE DEF History
    <3> QED BY <2>1
  <2> QED BY <1>3, <2>1, <2>2
<1>6. CASE m = 0
  <2> DEFINE f == [n \in 0 .. 0 |-> base]
  <2>1. f \in [0 .. m -> Int] /\ f[0] = base /\ 1 .. m = {}
    BY <1>6
  <2> HIDE DEF f
  <2> QED BY <1>4, <2>1
<1>7. CASE m # 0
  <2>1. m - 1 \in 0 .. m - 1 /\ m - 1 \in 0 .. L - 1
    BY <1>4, <1>7
  <2>2. PICK f \in [0 .. m - 1 -> Int] :
          f[0] = base /\ \A n \in 1 .. m - 1 : f[n] = f[n - 1] + g[n - 1]
    BY <1>5, <2>1
  <2> DEFINE e == [n \in 0 .. m |-> IF n = m THEN f[m - 1] + g[m - 1] ELSE f[n]]
  <2>3. f[m - 1] \in Int /\ g[m - 1] \in Int
    BY <2>1
  <2>4. e \in [0 .. m -> Int]
    <3> SUFFICES ASSUME NEW n \in 0 .. m
                 PROVE  (IF n = m THEN f[m - 1] + g[m - 1] ELSE f[n]) \in Int
      OBVIOUS
    <3>1. CASE n = m BY <2>3, <3>1
    <3>2. CASE n # m
      <4>1. n \in 0 .. m - 1 BY <1>4, <3>2
      <4> QED BY <4>1, <3>2
    <3> QED BY <3>1, <3>2
  <2>5. e[0] = base
    BY <1>4, <1>7, <2>2
  <2>6. ASSUME NEW n \in 1 .. m PROVE e[n] = e[n - 1] + g[n - 1]
    <3>1. n \in 0 .. m /\ n - 1 \in 0 .. m /\ n - 1 # m
      BY <1>4
    <3>2. e[n - 1] = f[n - 1]
      BY <3>1
    <3>3. CASE n = m
      BY <3>1, <3>2, <3>3
    <3>4. CASE n # m
      <4>1. n \in 1 .. m - 1
        BY <1>4, <3>4
      <4>2. e[n] = f[n]
        BY <3>1, <3>4
      <4> QED BY <2>2, <3>2, <4>1, <4>2
    <3> QED BY <3>3, <3>4
  <2> HIDE DEF e
  <2> QED BY <1>4, <2>4, <2>5, <2>6
<1> QED BY <1>6, <1>7

Operands == op_a \in [Accel!Operand -> Int] /\ op_b \in [Accel!Operand -> Int]
                                            /\ op_c \in [Accel!Result -> Int]

\* Accel!Sums is that history: it begins with the bias, and a product is added each time.
LEMMA SumsLoop ==
  ASSUME Operands, NEW r \in Accel!Result
  PROVE  /\ Accel!Sums(r)[0] = op_c[r]
         /\ \A p \in 1 .. LEN_ITER :
              Accel!Sums(r)[p] = Accel!Sums(r)[p - 1] + Accel!Product(r * LEN_ITER + p - 1)
<1> DEFINE g == [p \in 0 .. LEN_ITER - 1 |-> Accel!Product(r * LEN_ITER + p)]
           Is(f) == f = [p \in 0 .. LEN_ITER |->
                          IF p = 0 THEN op_c[r] ELSE f[p - 1] + Accel!Product(r * LEN_ITER + p - 1)]
<1>1. LEN_ITER \in Nat /\ r \in Int /\ op_c[r] \in Int
  BY AccelFacts DEF Accel!Result, Operands
<1>2. g \in [0 .. LEN_ITER - 1 -> Int]
  <2> SUFFICES ASSUME NEW p \in 0 .. LEN_ITER - 1 PROVE Accel!Product(r * LEN_ITER + p) \in Int
    OBVIOUS
  <2>1. r * LEN_ITER + p \in Accel!Operand
    BY OperandOf
  <2>2. op_a[r * LEN_ITER + p] \in Int /\ op_b[r * LEN_ITER + p] \in Int
    BY <2>1 DEF Operands
  <2> QED BY <2>2 DEF Accel!Product
<1>3. PICK f \in [0 .. LEN_ITER -> Int] :
        f[0] = op_c[r] /\ \A n \in 1 .. LEN_ITER : f[n] = f[n - 1] + g[n - 1]
  <2> HIDE DEF g
  <2> QED BY <1>1, <1>2, LoopExists
<1>4. Is(f)
  <2>1. ASSUME NEW p \in 0 .. LEN_ITER
        PROVE  f[p] = IF p = 0 THEN op_c[r] ELSE f[p - 1] + Accel!Product(r * LEN_ITER + p - 1)
    <3>1. CASE p = 0 BY <1>3, <3>1
    <3>2. CASE p # 0
      <4>1. p \in 1 .. LEN_ITER /\ p - 1 \in 0 .. LEN_ITER - 1
        BY <1>1, <3>2
      <4>2. g[p - 1] = Accel!Product(r * LEN_ITER + (p - 1))
        BY <4>1
      <4>3. r * LEN_ITER + (p - 1) = r * LEN_ITER + p - 1
        BY <1>1, <4>1
      <4> QED BY <1>3, <3>2, <4>1, <4>2, <4>3
    <3> QED BY <3>1, <3>2
  <2> QED BY <2>1
<1>5. Is(Accel!Sums(r))
  <2> HIDE DEF g
  <2> QED BY <1>4 DEF Accel!Sums
<1>6. 0 \in 0 .. LEN_ITER /\ \A p \in 1 .. LEN_ITER : p \in 0 .. LEN_ITER /\ p # 0
  BY <1>1
<1> DEFINE s == Accel!Sums(r)
<1> HIDE DEF s
<1>7. Is(s)
  BY <1>5 DEF s
<1>8. s[0] = op_c[r] /\ \A p \in 1 .. LEN_ITER :
     s[p] = s[p - 1] + Accel!Product(r * LEN_ITER + p - 1)
  BY <1>6, <1>7
<1> QED BY <1>8 DEF s

Total == NB_ITER * LEN_ITER

\* The results of the products done are stored, the next one is under way.
Progress ==
  /\ step \in 0 .. Total
  /\ \A r \in Accel!Result : (r + 1) * LEN_ITER <= step => op_d[r] = Accel!DotProduct(r)
  /\ \A r \in Accel!Result, p \in 0 .. LEN_ITER - 1 : step = r * LEN_ITER + p
        => acc = Accel!Sums(r)[p]

Finished == \A r \in Accel!Result : op_d[r] = Accel!DotProduct(r)

AccelKinds ==
  /\ pc \in {"begin", "enable", "acquire", "program", "mask", "wait", "disable", "check", "exit"}
  /\ Operands /\ op_d = [r \in Accel!Result |-> op_d[r]]
  /\ clock \in BOOLEAN /\ ended \in BOOLEAN /\ mask \in BOOLEAN
  /\ engine \in {"busy", "free", "acquired", "running"} /\ unit \in {"keeps", "drops"}
  /\ step \in 0 .. Total /\ acc \in Int

\* Whose the engine is at each place of main.
AccelOwner ==
  /\ pc \in {"begin", "enable", "acquire"} => engine \in {"busy", "free"} /\ ~ended /\ ~mask
  /\ engine = "busy" => unit = "drops"
  /\ pc = "program" => engine = "acquired" /\ ~ended
  /\ pc \in {"mask", "wait"} =>
       \/ engine = "running" /\ ~ended /\ Progress
       \/ engine = "free" /\ Finished
  /\ pc \in {"disable", "check", "exit"} => engine = "free" /\ ~ended /\ Finished
  /\ pc \in {"acquire", "program", "mask", "wait"} => clock

AccelInv == AccelKinds /\ AccelOwner /\ errors = 0

LEMMA AccelSizes ==
  /\ NB_ITER \in Nat /\ NB_ITER > 0 /\ LEN_ITER \in Nat /\ LEN_ITER > 0 /\ Total \in Nat
  /\ Accel!Result = 0 .. NB_ITER - 1
<1>1. NB_ITER \in Nat /\ NB_ITER > 0 /\ LEN_ITER \in Nat /\ LEN_ITER > 0
  BY AccelFacts
<1>2. NB_ITER * LEN_ITER \in Nat
  BY <1>1
<1> QED BY <1>1, <1>2 DEF Total, Accel!Result

\* What the reference program computes, and which results are in place, depends
\* on the four vectors only.
LEMMA SameOperands ==
  ASSUME UNCHANGED << op_a, op_b, op_c, op_d >>
  PROVE  /\ \A r : Accel!Sums(r)' = Accel!Sums(r) /\ Accel!DotProduct(r)' = Accel!DotProduct(r)
         /\ Finished' <=> Finished
         /\ Operands' <=> Operands
         /\ UNCHANGED << step, acc >> => (Progress' <=> Progress)
<1>1. \A r : Accel!Sums(r)' = Accel!Sums(r)
  BY DEF Accel!Sums, Accel!Product
<1>2. \A r : Accel!DotProduct(r)' = Accel!DotProduct(r)
  BY <1>1 DEF Accel!DotProduct, Accel!Word
<1> QED BY <1>1, <1>2 DEF Finished, Operands, Progress

\* The job begins with nothing done, and the first bias in the accumulator.
LEMMA TriggerStep ==
  ASSUME AccelInv, Accel!Trigger
  PROVE  AccelInv'
<1>1. /\ engine' = "running" /\ step' = 0 /\ acc' = op_c[0] /\ pc' = "mask"
      /\ UNCHANGED << clock, op_a, op_b, op_c, op_d, unit, mask, ended, errors >> /\ clock /\ ~ended
  BY DEF Accel!Trigger, Accel!memory, AccelInv, AccelOwner
<1>2. Progress'
  <2>1. 0 \in 0 .. Total
    BY AccelSizes
  <2>2. ASSUME NEW r \in Accel!Result PROVE ~((r + 1) * LEN_ITER <= 0)
    <3>1. r \in Nat /\ r * LEN_ITER >= 0 /\ (r + 1) * LEN_ITER = r * LEN_ITER + LEN_ITER
      BY AccelSizes
    <3> QED BY <3>1, AccelSizes
  <2>3. ASSUME NEW r \in Accel!Result, NEW p \in 0 .. LEN_ITER - 1, 0 = r * LEN_ITER + p
        PROVE  op_c[0] = Accel!Sums(r)[p]
    <3>1. 0 * LEN_ITER + 0 = r * LEN_ITER + p /\ 0 \in 0 .. LEN_ITER - 1 /\ r \in Nat
      BY <2>3, AccelSizes
    <3>2. r = 0 /\ p = 0
      BY <3>1, OnePlace, AccelSizes
    <3> QED BY <3>2, SumsLoop DEF AccelInv, AccelKinds
  <2> QED BY <1>1, <2>1, <2>2, <2>3, SameOperands DEF Progress, Total
<1>3. step' \in 0 .. Total /\ acc' \in Int
  <2>1. 0 \in 0 .. Total /\ 0 \in Accel!Result
    BY AccelSizes
  <2> QED BY <1>1, <2>1 DEF AccelInv, AccelKinds, Operands
<1> QED BY <1>1, <1>2, <1>3, SameOperands DEF AccelInv, AccelKinds, AccelOwner

\* A product of the job, the last of its result or not.
LEMMA MultiplyStep ==
  ASSUME AccelInv, Accel!Multiply
  PROVE  AccelInv'
<1> DEFINE r == step \div LEN_ITER
           p == step % LEN_ITER
           total == acc + Accel!Product(step)
<1>1. /\ engine = "running" /\ step < Total /\ step' = step + 1
      /\ UNCHANGED << pc, clock, op_a, op_b, op_c, engine, unit, mask, ended, errors >>
      /\ IF step' % LEN_ITER = 0
           THEN /\ op_d' = [op_d EXCEPT ![r] = Accel!Word(total)]
                /\ acc' = IF r + 1 \in Accel!Result THEN op_c[r + 1] ELSE 0
           ELSE acc' = total /\ UNCHANGED op_d
  BY DEF Accel!Multiply, Accel!memory, Total
<1>2. pc \in {"mask", "wait"} /\ ~ended /\ Progress /\ Operands /\ step \in Nat
  BY <1>1, AccelSizes DEF AccelInv, AccelKinds, AccelOwner, Progress
<1>3. /\ r \in Nat /\ p \in 0 .. LEN_ITER - 1 /\ step = r * LEN_ITER + p
  BY <1>2, Place, AccelSizes
<1> HIDE DEF r, p
<1>4. total \in Int
  <2>1. step \in Accel!Operand
    BY <1>1, <1>2, AccelSizes DEF Accel!Operand, Total
  <2>2. op_a[step] \in Int /\ op_b[step] \in Int /\ acc \in Int
    BY <1>2, <2>1 DEF AccelInv, AccelKinds, Operands
  <2> QED BY <2>2 DEF Accel!Product
<1>5. r \in Accel!Result
  <2> SUFFICES ASSUME r >= NB_ITER PROVE FALSE
    BY <1>3, AccelSizes
  <2>1. (r - NB_ITER) * LEN_ITER >= 0
    BY <1>3, AccelSizes
  <2>2. r * LEN_ITER >= NB_ITER * LEN_ITER
    BY <1>3, <2>1, AccelSizes
  <2> QED BY <1>1, <1>3, <2>2, AccelSizes DEF Total
<1>6. p + 1 \in 1 .. LEN_ITER /\ total = Accel!Sums(r)[p + 1]
  <2>1. acc = Accel!Sums(r)[p]
    BY <1>2, <1>3, <1>5 DEF Progress
  <2>2. p + 1 \in 1 .. LEN_ITER /\ (p + 1) - 1 = p /\ r * LEN_ITER + (p + 1) - 1 = step
    BY <1>3, AccelSizes
  <2>3. Accel!Sums(r)[p + 1] = Accel!Sums(r)[(p + 1) - 1] + Accel!Product(r * LEN_ITER + (p + 1) - 1)
    BY <1>2, <1>5, <2>2, SumsLoop
  <2> QED BY <2>1, <2>2, <2>3
<1> HIDE DEF total
<1>7. /\ \A q : Accel!Sums(q)' = Accel!Sums(q) /\ Accel!DotProduct(q)' = Accel!DotProduct(q)
      /\ Operands'
  <2>1. \A q : Accel!Sums(q)' = Accel!Sums(q)
    BY <1>1 DEF Accel!Sums, Accel!Product
  <2> QED BY <1>1, <1>2, <2>1 DEF Accel!DotProduct, Accel!Word, Operands
<1>8. step' \in 0 .. Total /\ r * LEN_ITER \in Nat
  BY <1>1, <1>2, <1>3, AccelSizes
<1>9. CASE p + 1 = LEN_ITER
  <2>1. step' = (r + 1) * LEN_ITER + 0 /\ r + 1 \in Nat /\ 0 \in 0 .. LEN_ITER - 1
    BY <1>1, <1>3, <1>8, <1>9, AccelSizes
  <2>2. step' % LEN_ITER = 0
    BY <2>1, PlaceOf, AccelSizes
  <2>3. /\ op_d' = [op_d EXCEPT ![r] = Accel!DotProduct(r)]
        /\ acc' = IF r + 1 \in Accel!Result THEN op_c[r + 1] ELSE 0
    BY <1>1, <1>6, <1>9, <2>2 DEF Accel!DotProduct
  <2>4. /\ op_d'[r] = Accel!DotProduct(r) /\ \A q \in Accel!Result \ {r} : op_d'[q] = op_d[q]
        /\ op_d' = [q \in Accel!Result |-> op_d'[q]]
    BY <1>5, <2>3 DEF AccelInv, AccelKinds
  <2>5. ASSUME NEW q \in Accel!Result, (q + 1) * LEN_ITER <= step'
        PROVE op_d'[q] = Accel!DotProduct(q)
    <3>1. CASE q = r
      BY <2>4, <3>1
    <3>2. CASE q # r
      <4>1. q < r
        <5> SUFFICES ASSUME q > r PROVE FALSE
          BY <1>3, <3>2, AccelSizes
        <5>1. (q - r - 1) * LEN_ITER >= 0 /\ q \in Nat
          BY <1>3, AccelSizes
        <5>2. (q + 1) * LEN_ITER >= (r + 1) * LEN_ITER + LEN_ITER
          BY <1>3, <5>1, AccelSizes
        <5> QED BY <1>3, <2>1, <2>5, <5>1, <5>2, AccelSizes
      <4>2. (r - q - 1) * LEN_ITER >= 0 /\ q \in Nat
        BY <1>3, <4>1, AccelSizes
      <4>3. (q + 1) * LEN_ITER <= r * LEN_ITER
        BY <1>3, <4>2, AccelSizes
      <4>4. (q + 1) * LEN_ITER \in Nat
        BY <4>2, AccelSizes
      <4>5. (q + 1) * LEN_ITER <= step
        BY <1>3, <1>8, <4>3, <4>4
      <4> QED BY <1>2, <2>4, <3>2, <4>5 DEF Progress
    <3> QED BY <3>1, <3>2
  <2>6. ASSUME NEW q \in Accel!Result, NEW j \in 0 .. LEN_ITER - 1, step' = q * LEN_ITER + j
        PROVE  acc' = Accel!Sums(q)[j]
    <3>1. q = r + 1 /\ j = 0
      <4>1. (r + 1) * LEN_ITER + 0 = q * LEN_ITER + j /\ q \in Nat
        BY <2>1, <2>6, AccelSizes
      <4> QED BY <2>1, <4>1, OnePlace, AccelSizes
    <3> QED BY <1>2, <2>3, <3>1, SumsLoop
  <2>7. Progress'
    BY <1>7, <1>8, <2>5, <2>6 DEF Progress, Total
  <2>8. acc' \in Int
    BY <1>2, <2>3 DEF Operands
  <2> QED BY <1>1, <1>2, <1>7, <1>8, <2>4, <2>7, <2>8 DEF AccelInv, AccelKinds, AccelOwner
<1>10. CASE p + 1 # LEN_ITER
  <2>1. step' = r * LEN_ITER + (p + 1) /\ p + 1 \in 0 .. LEN_ITER - 1
    BY <1>1, <1>3, <1>6, <1>8, <1>10, AccelSizes
  <2>2. step' % LEN_ITER = p + 1 /\ p + 1 # 0
    BY <1>3, <2>1, PlaceOf, AccelSizes
  <2>3. acc' = Accel!Sums(r)[p + 1] /\ op_d' = op_d
    BY <1>1, <1>6, <2>2
  <2>4. ASSUME NEW q \in Accel!Result, (q + 1) * LEN_ITER <= step'
        PROVE op_d'[q] = Accel!DotProduct(q)
    <3>1. (q + 1) * LEN_ITER # step'
      <4> SUFFICES ASSUME (q + 1) * LEN_ITER = step' PROVE FALSE
        OBVIOUS
      <4>1. (q + 1) * LEN_ITER + 0 = r * LEN_ITER + (p + 1) /\ q + 1 \in Nat
                                                            /\ 0 \in 0 .. LEN_ITER - 1
        BY <2>1, AccelSizes
      <4> QED BY <1>3, <2>1, <2>2, <4>1, OnePlace, AccelSizes
    <3>2. (q + 1) * LEN_ITER \in Nat
      BY AccelSizes
    <3>3. (q + 1) * LEN_ITER <= step
      BY <1>1, <1>2, <2>4, <3>1, <3>2
    <3> QED BY <1>2, <2>3, <3>3 DEF Progress
  <2>5. ASSUME NEW q \in Accel!Result, NEW j \in 0 .. LEN_ITER - 1, step' = q * LEN_ITER + j
        PROVE  acc' = Accel!Sums(q)[j]
    <3>1. q = r /\ j = p + 1
      <4>1. r * LEN_ITER + (p + 1) = q * LEN_ITER + j /\ q \in Nat
        BY <2>1, <2>5, AccelSizes
      <4> QED BY <1>3, <2>1, <4>1, OnePlace, AccelSizes
    <3> QED BY <2>3, <3>1
  <2>6. Progress'
    BY <1>7, <1>8, <2>4, <2>5 DEF Progress, Total
  <2>7. acc' \in Int
    BY <1>1, <1>4, <2>2
  <2> QED BY <1>1, <1>2, <1>7, <1>8, <2>3, <2>6, <2>7 DEF AccelInv, AccelKinds, AccelOwner
<1> QED BY <1>9, <1>10

\* With all products done, all results are.
LEMMA JobEndsStep ==
  ASSUME AccelInv, Accel!JobEnds
  PROVE  AccelInv'
<1>1. /\ engine = "running" /\ step = Total /\ engine' = "free" /\ ended' \in BOOLEAN
      /\ UNCHANGED << pc, clock, op_a, op_b, op_c, op_d, step, acc, unit, mask, errors >>
  BY DEF Accel!JobEnds, Accel!RaiseEvent, Accel!memory, Total
<1>2. pc \in {"mask", "wait"} /\ Progress
  BY <1>1 DEF AccelInv, AccelKinds, AccelOwner
<1>3. Finished
  <2> SUFFICES ASSUME NEW r \in Accel!Result PROVE op_d[r] = Accel!DotProduct(r)
    BY DEF Finished
  <2>1. (NB_ITER - r - 1) * LEN_ITER >= 0
    BY AccelSizes
  <2>2. (r + 1) * LEN_ITER <= NB_ITER * LEN_ITER
    BY <2>1, AccelSizes
  <2> QED BY <1>1, <1>2, <2>2 DEF Progress, Total
<1> QED BY <1>1, <1>2, <1>3, SameOperands DEF AccelInv, AccelKinds, AccelOwner

\* The Cardinality that Hwme takes from FiniteSets.
LEMMA NoneCounted == Accel!Cardinality({}) = 0
<1> DEFINE Is(f) == f = [T \in SUBSET {} |->
                          IF T = {} THEN 0 ELSE 1 + f[T \ {CHOOSE e : e \in T}]]
<1>1. Is([T \in SUBSET {} |-> 0])
  OBVIOUS
<1> QED BY <1>1 DEF Accel!Cardinality

\* The steps of main that do not touch the engine.
LEMMA AccelMainStep ==
  ASSUME AccelInv, Accel!Stimuli \/ Accel!Enable \/ Accel!Acquire \/ Accel!SetMask
        \/ Accel!WaitEvent \/ Accel!Disable \/ Accel!Check
  PROVE  AccelInv'
<1>1. CASE Accel!Stimuli
  <2>1. /\ op_a' \in [Accel!Operand -> Int] /\ op_b' \in [Accel!Operand -> Int]
        /\ op_c' \in [Accel!Result -> Int]
        /\ op_d' = [r \in Accel!Result |-> op_d'[r]]
    BY <1>1, AccelFacts DEF Accel!Stimuli
  <2> QED BY <1>1, <2>1 DEF Accel!Stimuli, Accel!device, AccelInv, AccelKinds, Operands, AccelOwner
<1>2. CASE Accel!Enable \/ Accel!Acquire \/ Accel!SetMask \/ Accel!WaitEvent \/ Accel!Disable
  <2>1. UNCHANGED << op_a, op_b, op_c, op_d, step, acc, errors >>
    BY <1>2 DEF Accel!Enable, Accel!Acquire, Accel!SetMask, Accel!WaitEvent, Accel!Disable,
                Accel!memory, Accel!device
  <2>2. AccelKinds'
    BY <1>2, <2>1, SameOperands
    DEF Accel!Enable, Accel!Acquire, Accel!SetMask, Accel!WaitEvent, Accel!Disable,
        Accel!device, AccelInv, AccelKinds
  <2>3. AccelOwner'
    BY <1>2, <2>1, SameOperands
    DEF Accel!Enable, Accel!Acquire, Accel!SetMask, Accel!WaitEvent, Accel!Disable,
        Accel!device, AccelInv, AccelOwner
  <2> QED BY <2>1, <2>2, <2>3 DEF AccelInv
<1>3. CASE Accel!Check
  <2>1. {r \in Accel!Result : op_d[r] # Accel!DotProduct(r)} = {}
    BY <1>3 DEF Accel!Check, AccelInv, AccelOwner, Finished
  <2>2. errors' = 0
    BY <1>3, <2>1, NoneCounted DEF Accel!Check
  <2> QED BY <1>3, <2>2, SameOperands DEF Accel!Check, Accel!memory, Accel!device, AccelInv,
                                          AccelKinds, AccelOwner
<1> QED BY <1>1, <1>2, <1>3

\* Somebody else's job ends before main has the engine, with the event not yet in
\* the mask and a unit that drops it.
LEMMA OtherJobStep ==
  ASSUME AccelInv, Accel!OtherJobEnds
  PROVE  AccelInv'
<1>1. /\ engine = "busy" /\ engine' = "free"
      /\ UNCHANGED << pc, clock, op_a, op_b, op_c, op_d, step, acc, unit, mask, errors >>
  BY DEF Accel!OtherJobEnds, Accel!memory
<1>2. pc \in {"begin", "enable", "acquire"} /\ unit = "drops"
  BY <1>1 DEF AccelInv, AccelKinds, AccelOwner
<1>3. ended' = FALSE
  BY <1>1, <1>2 DEF Accel!OtherJobEnds, Accel!RaiseEvent, AccelInv, AccelOwner
<1> QED BY <1>1, <1>2, <1>3, SameOperands DEF AccelInv, AccelKinds, AccelOwner

LEMMA AccelInit == Accel!Init => AccelInv
<1> SUFFICES ASSUME Accel!Init PROVE AccelInv
  OBVIOUS
<1>1. /\ op_a \in [Accel!Operand -> Int] /\ op_b \in [Accel!Operand -> Int]
      /\ op_c \in [Accel!Result -> Int]
  BY DEF Accel!Init
<1>2. op_d = [r \in Accel!Result |-> op_d[r]]
  <2>1. op_d = [r \in Accel!Result |-> 0]
    BY DEF Accel!Init
  <2> QED BY <2>1
<1>3. 0 \in 0 .. Total
  BY AccelSizes
<1> QED BY <1>1, <1>2, <1>3 DEF Accel!Init, AccelInv, AccelKinds, AccelOwner, Operands

LEMMA AccelStep ==
  ASSUME AccelInv, Accel!Main \/ Accel!Engine
  PROVE  AccelInv'
BY AccelMainStep, TriggerStep, OtherJobStep, MultiplyStep, JobEndsStep DEF Accel!Main, Accel!Engine

-----------------------------------------------------------------------------
(* All the programs.                                                       *)

\* The Boolean variables, of every program.
Flags ==
  /\ reading \in BOOLEAN /\ writing \in BOOLEAN /\ running \in BOOLEAN
  /\ ready \in BOOLEAN /\ queued \in BOOLEAN /\ enabled \in BOOLEAN
  /\ raised \in BOOLEAN /\ opened \in BOOLEAN /\ ticking \in BOOLEAN

IInv ==
  /\ program = "uart" => UartInv
  /\ program = "capture" => CaptureInv
  /\ program = "delayed" => DelayedInv
  /\ program \in {"oneshot", "periodic"} => TimerInv
  /\ program = "gpio" => GpioInv
  /\ program \in Calls!Programs => CallsInv
  /\ program = "file" => FileInv
  /\ program = "window" => WindowInv
  /\ program = "sniffer" => SnifferInv
  /\ program = "hwme" => AccelInv
  /\ Flags

LEMMA InitIInv == Init => IInv
<1> SUFFICES ASSUME Init PROVE IInv
  OBVIOUS
<1>1. Flags
  BY DEF Init, Uart!Init, Capture!Init, Delayed!Init, Timer!Start, Gpio!Init, Calls!Init, Flags
<1>2. program \in {"oneshot", "periodic"} => TimerInv
  BY TimerInit DEF Init, Timer!Init
<1> QED
  BY <1>1, <1>2, UartInit, CaptureInit, DelayedInit, GpioInit, CallsInit, FileInit, WindowInit,
     SnifferInit, AccelInit
  DEF Init, IInv

\* The programs are different ones.
LEMMA OneProgram ==
  ASSUME IInv, UNCHANGED program, Flags'
  PROVE  /\ program = "uart" /\ UartInv' => IInv'
         /\ program = "capture" /\ CaptureInv' => IInv'
         /\ program = "delayed" /\ DelayedInv' => IInv'
         /\ program \in {"oneshot", "periodic"} /\ TimerInv' => IInv'
         /\ program = "gpio" /\ GpioInv' => IInv'
         /\ program \in Calls!Programs /\ CallsInv' => IInv'
         /\ program = "file" /\ FileInv' => IInv'
         /\ program = "window" /\ WindowInv' => IInv'
         /\ program = "sniffer" /\ SnifferInv' => IInv'
         /\ program = "hwme" /\ AccelInv' => IInv'
BY SizeFacts DEF IInv, Calls!Programs

\* The flags of one program stay Boolean, and those of the others as they are.
LEMMA UartFlags ==
  ASSUME Flags, InUart, Uart!Main \/ Uart!Send \/ Uart!Receive
  PROVE  Flags'
<1>1. reading' \in BOOLEAN /\ writing' \in BOOLEAN
  <2>1. CASE Uart!Main
    BY <2>1 DEF Flags, Uart!Main, Uart!Alloc, Uart!Open, Uart!Fill, Uart!GetEvent, Uart!Read,
                Uart!Write, Uart!Written, Uart!Wait, Uart!Compare, Uart!interface
  <2>2. CASE Uart!Send
    <3>1. writing' = (sent' < BUFFER_SIZE) /\ reading' = reading
      BY <2>2 DEF Uart!Send
    <3> QED BY <3>1 DEF Flags
  <2>3. CASE Uart!Receive
    <3>1. reading' = (received' < BUFFER_SIZE) \/ reading' = reading
      BY <2>3 DEF Uart!Receive
    <3>2. writing' = writing
      BY <2>3 DEF Uart!Receive
    <3>3. reading' = (received' < BUFFER_SIZE) => reading' \in BOOLEAN
      OBVIOUS
    <3>4. reading' = reading => reading' \in BOOLEAN
      BY DEF Flags
    <3> QED BY <3>1, <3>2, <3>3, <3>4 DEF Flags
  <2> QED BY <2>1, <2>2, <2>3
<1> QED
  BY <1>1 DEF Flags, InUart, captureVars, delayedVars, timerVars, gpioVars, callVars

LEMMA CaptureFlags ==
  ASSUME Flags, InCapture, Capture!Main \/ Capture!Line
  PROVE  Flags'
<1>1. running' \in BOOLEAN
  BY DEF Flags, Capture!Main, Capture!Alloc, Capture!AllocBuffer, Capture!OpenCamera,
         Capture!GetEvent, Capture!Capture, Capture!Start, Capture!Wait, Capture!Stop,
         Capture!Close, Capture!Line, Capture!camera
<1> QED
  BY <1>1 DEF Flags, InCapture, uartVars, delayedVars, timerVars, gpioVars, callVars

LEMMA DelayedFlags ==
  ASSUME Flags, InDelayed, Delayed!Main \/ Delayed!Tick \/ Delayed!Due
  PROVE  Flags'
<1>1. ready' \in BOOLEAN
  BY DEF Flags, Delayed!Main, Delayed!Alloc, Delayed!ReadTime, Delayed!Push,
         Delayed!timer_callback, Delayed!LoopEnds, Delayed!ReturnMain, Delayed!Tick, Delayed!Due
<1> QED
  BY <1>1 DEF Flags, InDelayed, uartVars, captureVars, timerVars, gpioVars, callVars

LEMMA TimerFlags ==
  ASSUME Flags, InTimer, Timer!Main \/ Timer!Expire
  PROVE  Flags'
<1>1. queued' \in BOOLEAN
  BY DEF Flags, Timer!Main, Timer!Create, Timer!StartTimer, Timer!Loop, Timer!timer_handle,
         Timer!YieldReturns, Timer!Stop, Timer!Destroy, Timer!Expire
<1> QED
  BY <1>1 DEF Flags, InTimer, uartVars, captureVars, delayedVars, gpioVars, callVars

LEMMA GpioFlags ==
  ASSUME Flags, InGpio, Gpio!Main \/ Gpio!PinEdge \/ Gpio!gpio_handler
  PROVE  Flags'
<1>1. enabled' \in BOOLEAN /\ raised' \in BOOLEAN
  BY DEF Flags, Gpio!Main, Gpio!Alloc, Gpio!SetEvent, Gpio!Loop, Gpio!Yield, Gpio!Printf,
         Gpio!PinEdge, Gpio!gpio_handler
<1> QED
  BY <1>1 DEF Flags, InGpio, uartVars, captureVars, delayedVars, timerVars, callVars

LEMMA CallsFlags ==
  ASSUME Flags, InCalls, Calls!Main \/ Calls!Element
  PROVE  Flags'
<1>1. opened' \in BOOLEAN /\ ticking' \in BOOLEAN
  BY DEF Flags, Calls!Main, Calls!Alloc, Calls!Open, Calls!AllocBuffer, Calls!Fill, Calls!GetEvent,
         Calls!Call, Calls!Start, Calls!Return, Calls!Stop, Calls!Close, Calls!Element
<1> QED
  BY <1>1 DEF Flags, InCalls, uartVars, captureVars, delayedVars, timerVars, gpioVars

LEMMA HostFlags ==
  ASSUME Flags, InFile \/ InWindow \/ InSniffer \/ InAccel
  PROVE  Flags'
BY DEF Flags, InFile, InWindow, InSniffer, InAccel, deviceVars, uartVars, captureVars, delayedVars,
       timerVars, gpioVars, callVars

\* A step of a program.
LEMMA ProgramStep == ASSUME IInv, MainStep \/ DeviceStep \/ RuntimeStep PROVE IInv'
<1>1. CASE InUart /\ (Uart!Main \/ Uart!Send \/ Uart!Receive)
  BY <1>1, UartFlags, UartStep, OneProgram DEF InUart, IInv
<1>2. CASE InCapture /\ (Capture!Main \/ Capture!Line)
  BY <1>2, CaptureFlags, CaptureStep, OneProgram DEF InCapture, IInv
<1>3. CASE InDelayed /\ (Delayed!Main \/ Delayed!Tick \/ Delayed!Due)
  BY <1>3, DelayedFlags, DelayedStep, OneProgram DEF InDelayed, IInv
<1>4. CASE InTimer /\ (Timer!Main \/ Timer!Expire)
  <2>1. UNCHANGED program
    BY <1>4 DEF Timer!Main, Timer!Create, Timer!StartTimer, Timer!Loop, Timer!timer_handle,
                Timer!YieldReturns, Timer!Stop, Timer!Destroy, Timer!Expire
  <2> QED BY <1>4, <2>1, TimerFlags, TimerStep, OneProgram DEF InTimer, IInv
<1>5. CASE InGpio /\ (Gpio!Main \/ Gpio!PinEdge \/ Gpio!gpio_handler)
  BY <1>5, GpioFlags, GpioStep, OneProgram DEF InGpio, IInv
<1>6. CASE InCalls /\ (Calls!Main \/ Calls!Element)
  BY <1>6, CallsFlags, CallsStep, OneProgram DEF InCalls, IInv
<1>7. CASE InFile /\ File!Main
  BY <1>7, HostFlags, FileStep, OneProgram DEF InFile, IInv
<1>8. CASE InWindow /\ Window!Main
  BY <1>8, HostFlags, WindowStep, OneProgram DEF InWindow, IInv
<1>9. CASE InSniffer /\ (Sniffer!Main \/ Sniffer!Move)
  BY <1>9, HostFlags, SnifferStep, OneProgram DEF InSniffer, IInv
<1>10. CASE InAccel /\ (Accel!Main \/ Accel!Engine)
  BY <1>10, HostFlags, AccelStep, OneProgram DEF InAccel, IInv
<1> QED
  BY <1>1, <1>2, <1>3, <1>4, <1>5, <1>6, <1>7, <1>8, <1>9, <1>10 DEF MainStep, DeviceStep, RuntimeStep

LEMMA IdleSame == Idle => UNCHANGED vars
<1>1. InUart /\ Uart!Stopped => UNCHANGED vars
  BY DEF InUart, Uart!Stopped, Uart!vars, vars, deviceVars, hostVars, uartVars
<1>2. InCapture /\ Capture!Stopped => UNCHANGED vars
  BY DEF InCapture, Capture!Stopped, Capture!vars, vars, deviceVars, hostVars, captureVars
<1>3. InDelayed /\ (Delayed!NothingReady \/ Delayed!Stopped) => UNCHANGED vars
  BY DEF InDelayed, Delayed!NothingReady, Delayed!Stopped, Delayed!vars, vars, deviceVars, hostVars,
         delayedVars
<1>4. InTimer /\ Timer!Stopped => UNCHANGED vars
  BY DEF InTimer, Timer!Stopped, Timer!vars, vars, deviceVars, hostVars, timerVars
<1>5. InGpio /\ Gpio!Stopped => UNCHANGED vars
  BY DEF InGpio, Gpio!Stopped, Gpio!vars, vars, deviceVars, hostVars, gpioVars
<1>6. InCalls /\ Calls!Stopped => UNCHANGED vars
  BY DEF InCalls, Calls!Stopped, Calls!vars, vars, deviceVars, hostVars, callVars
<1>7. InFile /\ File!Stopped => UNCHANGED vars
  BY DEF InFile, File!Stopped, File!vars, vars, hostVars, fileVars
<1>8. InSniffer /\ Sniffer!Stopped => UNCHANGED vars
  BY DEF InSniffer, Sniffer!Stopped, Sniffer!vars, vars, hostVars, snifferVars
<1>9. InAccel /\ Accel!Stopped => UNCHANGED vars
  BY DEF InAccel, Accel!Stopped, Accel!vars, vars, hostVars, accelVars
<1> QED BY <1>1, <1>2, <1>3, <1>4, <1>5, <1>6, <1>7, <1>8, <1>9 DEF Idle

LEMMA SameIInv == ASSUME IInv, UNCHANGED vars PROVE IInv'
<1>1. UNCHANGED << program, pc, pool, event,
                   tx_buffer, rx_buffer, reading, received, writing, sent, wire, error,
                   i, running, line, capture, stored, now, due, ready, enqueue_time, exec_time,
                   boot_pool, timer, queued, nb_ticks, enabled, pin, missed, raised, edges,
                   opened, ticking, filled, left, moved, at, res, buffer, copied, shown,
                   x, y, id, address, turns, dumped, mem, pending, held,
                   clock, op_a, op_b, op_c, op_d, engine, step, acc, unit, mask, ended, errors >>
  BY DEF vars, deviceVars, hostVars, uartVars, captureVars, delayedVars, timerVars, gpioVars,
         callVars, fileVars, windowVars, snifferVars, accelVars
<1>2. UartInv => UartInv'
  BY <1>1 DEF UartInv, UartBuffers, UartWire, UartPlace, UartReading
<1>3. CaptureInv => CaptureInv'
  BY <1>1 DEF CaptureInv
<1>4. DelayedInv => DelayedInv'
  BY <1>1 DEF DelayedInv, Delayed!Limit
<1>5. TimerInv => TimerInv'
  BY <1>1 DEF TimerInv
<1>6. GpioInv => GpioInv'
  BY <1>1 DEF GpioInv
<1>7. CallsInv => CallsInv'
  BY <1>1 DEF CallsInv, Calls!Transfers
<1>8. (FileInv => FileInv') /\ (WindowInv => WindowInv')
  BY <1>1 DEF FileInv, WindowInv, Window!TypeOK
<1>9. SnifferInv => SnifferInv'
  BY <1>1 DEF SnifferInv
<1>10. AccelInv => AccelInv'
  BY <1>1, SameOperands DEF AccelInv, AccelKinds, AccelOwner
<1>11. Flags'
  BY <1>1 DEF IInv, Flags
<1> QED BY <1>1, <1>2, <1>3, <1>4, <1>5, <1>6, <1>7, <1>8, <1>9, <1>10, <1>11 DEF IInv

-----------------------------------------------------------------------------
(* The theorems.                                                           *)

\* Every reachable state satisfies the inductive invariant.
THEOREM Inductive == Spec => []IInv
<1>1. IInv /\ [Next]_vars => IInv'
  BY ProgramStep, IdleSame, SameIInv DEF Next
<1> QED BY <1>1, InitIInv, PTL DEF Spec

\* The variables of every program keep their types.
THEOREM TypeCorrect == Spec => []TypeOK
<1>1. IInv => TypeOK
  <2> SUFFICES ASSUME IInv PROVE TypeOK
    OBVIOUS
  <2> USE DEF IInv
  <2>1. program = "uart" => Uart!TypeOK
    BY DEF Flags, Uart!TypeOK, Uart!Count, UartInv, UartBuffers, UartWire, UartPlace
  <2>2. program = "capture" => Capture!TypeOK
    BY DEF Flags, Capture!TypeOK, CaptureInv
  <2>3. program = "delayed" => Delayed!TypeOK
    <3> SUFFICES ASSUME program = "delayed" PROVE Delayed!TypeOK
      OBVIOUS
    <3>1. now \in 0 .. 2 * SLACK + WAIT_TIME
      BY ProgramsAssumption DEF DelayedInv, Delayed!Limit, Delayed!None, Delayed!DelayAssumption
    <3>2. ready \in BOOLEAN
      BY DEF Flags
    <3> QED BY <3>1, <3>2 DEF Delayed!TypeOK, DelayedInv
  <2>4. program \in {"oneshot", "periodic"} => Timer!TypeOK
    BY DEF Flags, Timer!TypeOK, TimerInv
  <2>5. program = "gpio" => Gpio!TypeOK
    BY DEF Flags, Gpio!TypeOK, GpioInv
  <2>6. program \in Calls!Programs => Calls!TypeOK
    BY DEF Flags, Calls!TypeOK, CallsInv
  <2>7. program = "file" => File!TypeOK
    <3> SUFFICES ASSUME program = "file" PROVE File!TypeOK
      OBVIOUS
    <3>1. copied \in Seq(1 .. FILE_LENGTH) /\ shown \in Seq(1 .. FILE_LENGTH)
      BY FilePrefixes, PrefixIsSeq
    <3>2. buffer \in [0 .. FILE_BUFFER -> 0 .. FILE_LENGTH \cup {File!Untouched}]
      BY DEF FileInv
    <3>3. res \in 0 .. FILE_BUFFER
      BY FileFacts DEF FileInv
    <3> QED BY <3>1, <3>2, <3>3 DEF File!TypeOK, FileInv
  <2>8. program = "window" => Window!TypeOK
    BY DEF WindowInv
  <2>9. program = "sniffer" => Sniffer!TypeOK
    <3> SUFFICES ASSUME program = "sniffer" PROVE Sniffer!TypeOK
      OBVIOUS
    <3>1. turns \in Nat /\ turns * SPY_SHIFT <= SPY_LIMIT /\ turns * SPY_SHIFT \in Nat
      <4>1. turns \in Nat
        BY DEF SnifferInv
      <4>2. turns * SPY_SHIFT \in Nat
        BY <4>1, SnifferFacts
      <4> QED BY <4>1, <4>2, SnifferFacts DEF SnifferInv
    <3>2. turns <= turns * SPY_SHIFT
      BY <3>1, SnifferFacts
    <3>3. /\ address \in Sniffer!base .. Sniffer!base + SPY_LIMIT
          /\ turns \in 0 .. SPY_LIMIT
      <4> DEFINE t == turns * SPY_SHIFT
      <4>1. address = 1 + t
        BY SnifferFacts DEF SnifferInv
      <4>2. t \in Nat /\ turns <= t /\ t <= SPY_LIMIT
        BY <3>1, <3>2
      <4> HIDE DEF t
      <4> QED BY <3>1, <4>1, <4>2, SnifferFacts
    <3>4. held \subseteq Sniffer!Counter
      BY DEF SnifferInv
    <3> QED BY <3>3, <3>4 DEF SnifferInv, Sniffer!TypeOK
  <2>10. program = "hwme" => Accel!TypeOK
    BY DEF AccelInv, AccelKinds, Operands, Total, Accel!TypeOK
  <2> QED BY <2>1, <2>2, <2>3, <2>4, <2>5, <2>6, <2>7, <2>8, <2>9, <2>10 DEF TypeOK
<1> QED BY <1>1, Inductive, PTL

\* periph/uart/loopback and bridge/file: no element on the wire and no
\* character of the file is lost or comes twice, whatever the sizes are.
THEOREM NoLoss == Spec => []NothingLost
<1>1. IInv => NothingLost
  <2> SUFFICES ASSUME IInv PROVE NothingLost
    OBVIOUS
  <2>1. program = "uart" => Uart!NothingLost
    BY DEF IInv, UartInv, UartWire, Uart!NothingLost
  <2>2. program = "file" => File!NothingLost
    <3> SUFFICES ASSUME FileInv PROVE File!NothingLost
      BY DEF IInv
    <3>1. PICK m \in 0 .. FILE_LENGTH, n \in 0 .. FILE_LENGTH :
            /\ copied = Prefix(m) /\ shown = Prefix(n)
            /\ pc \in {"read", "exit_0"} => m = at /\ n = at
      BY FilePrefixes
    <3>2. /\ copied = Prefix(Len(copied)) /\ shown = Prefix(Len(shown))
          /\ pc \in {"read", "exit_0"} => Len(copied) = at /\ Len(shown) = at
      BY <3>1, PrefixIsSeq
    <3>3. pc = "exit_0" => at = FILE_LENGTH
      BY DEF FileInv
    <3> QED BY <3>2, <3>3 DEF File!NothingLost, Prefix
  <2> QED BY <2>1, <2>2 DEF NothingLost
<1> QED BY <1>1, Inductive, PTL

\* periph/camera: a frame that is waited for is whole.  The blocking calls: an
\* interface moves a buffer while main leaves it alone, and all of it.
THEOREM FramesAreWhole == Spec => []WholeFrames
<1>1. IInv => WholeFrames
  <2>1. CaptureInv => Capture!WholeFrames
    BY DEF CaptureInv, Capture!WholeFrames
  <2>2. CallsInv => Calls!WholeTransfers
    <3> SUFFICES ASSUME CallsInv PROVE Calls!WholeTransfers
      OBVIOUS
    <3>1. left > 0 => opened /\ pc \in {"start", "blocked"}
      BY DEF CallsInv
    <3>2. left > 0 /\ program \in Calls!Sending => filled = Calls!Size[program]
      BY DEF CallsInv, Calls!Sending
    <3>3. pc = "exit_0" => left = 0 /\ moved = Calls!Transfers /\ event = "none"
      BY DEF CallsInv
    <3>4. pc = "exit_0" => ~ticking
      BY DEF CallsInv
    <3>5. pc = "exit_0" /\ program = "pdm" => pool = 1
      BY DEF CallsInv
    <3> QED BY <3>1, <3>2, <3>3, <3>4, <3>5 DEF Calls!WholeTransfers
  <2> QED BY <2>1, <2>2 DEF IInv, WholeFrames
<1> QED BY <1>1, Inductive, PTL

\* time/timer_oneshot: as many calls of the handler as were asked for.
THEOREM TicksAreExact == Spec => []OneShotExact
<1>1. IInv => OneShotExact
  BY ProgramsAssumption DEF IInv, TimerInv, Timer!OneShotExact, OneShotExact, Timer!TickAssumption
<1> QED BY <1>1, Inductive, PTL

\* The terminator of bridge/file and the window of bridge/framebuffer stay where
\* they may be, for any length of the file and any sizes of window and screen.
THEOREM StaysInBounds == Spec => []InBounds
<1>1. IInv => InBounds
  <2>1. IInv /\ program = "file" => File!InBounds
    BY DEF IInv, FileInv, File!InBounds
  <2>2. IInv /\ program = "window" => Window!InBounds
    BY ProgramsAssumption DEF IInv, WindowInv, Window!TypeOK, Window!InBounds, Window!WindowAssumption
  <2> QED BY <2>1, <2>2 DEF InBounds
<1> QED BY <1>1, Inductive, PTL

\* sa/ddr/sniffer: the n-th chunk dumped is the one at the n-th point, and there
\* are as many as points below the limit.
THEOREM EveryPointIsDumped == Spec => []DumpsEveryPoint
<1>1. IInv => DumpsEveryPoint
  BY DEF IInv, SnifferInv, Sniffer!DumpsEveryPoint, Sniffer!Chunk, DumpsEveryPoint
<1> QED BY <1>1, Inductive, PTL

\* accelerators/hwme: main compares the results of its own job, all of them, and
\* they are those of hwme_x86.c in words of any width: the end of somebody else's
\* job does not get it past its wait, and it never turns the engine off under its
\* own.
THEOREM ResultsRight == Spec => []ResultsAreRight
<1>1. IInv => ResultsAreRight
  BY DEF IInv, AccelInv, AccelKinds, AccelOwner, Finished, ResultsAreRight, Accel!ResultsAreRight
<1> QED BY <1>1, Inductive, PTL
=============================================================================
