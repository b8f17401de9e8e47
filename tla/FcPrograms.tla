------------------------------ MODULE FcPrograms ------------------------------
(***************************************************************************)
(* The examples that run on one core, with a peripheral, a timer, a DMA    *)
(* engine, an accelerator or the bridge, one of which is loaded at a time: *)
(* which one is chosen at the beginning and never changes.  main, the pool *)
(* of events and the blocking event are common; everything else is a       *)
(* program's own, and stays as it is while another program runs.           *)
(***************************************************************************)
EXTENDS Integers, Sequences

CONSTANTS BUFFER_SIZE, WIRE, NB_CAPTURES, NB_EVENTS, LINES, WAIT_TIME, SLACK,
          NB_TICKS, BOOT_EVENTS, MAX_TICKS, NB_EDGE, MAX_EDGES,
          FILE_BUFFER, FILE_LENGTH, WIDTH, HEIGHT, SIDE, NB_COUNTERS, SPY_SHIFT, SPY_LIMIT,
          NB_ITER, LEN_ITER, WORD_BITS, VALUES

VARIABLES program, pc, pool, event,
          tx_buffer, rx_buffer, reading, received, writing, sent, wire, error,  \* periph/uart
          i, running, line, capture, stored,                                    \* periph/camera
          now, due, ready, enqueue_time, exec_time,                             \* time/enqueue_delayed
          boot_pool, timer, queued, nb_ticks,                                   \* time/timer_*
          enabled, pin, missed, raised, edges,                                  \* gpio
          opened, ticking, filled, left, moved,                                 \* blocking calls
          at, res, buffer, copied, shown,                                       \* bridge/file
          x, y,                                                                 \* bridge/framebuffer
          id, address, turns, dumped, mem, pending, held,                       \* sa/ddr/sniffer
          clock, op_a, op_b, op_c, op_d, engine, step, acc, unit, mask, ended, errors \* accelerators/hwme

Uart    == INSTANCE UartLoopback
Capture == INSTANCE CameraCapture
Delayed == INSTANCE DelayedEvent
Timer   == INSTANCE TimerTicks WITH pool <- boot_pool
Gpio    == INSTANCE GpioEdges
Calls   == INSTANCE BlockingCalls
File    == INSTANCE FileCopy
Window  == INSTANCE SlidingWindow
Sniffer == INSTANCE SaDdrSniffer
Accel   == INSTANCE Hwme WITH WIDTH <- WORD_BITS, enabled <- clock, event <- ended,
                              a <- op_a, b <- op_b, c <- op_c, d <- op_d

ASSUME ProgramsAssumption ==
  /\ Uart!UartAssumption /\ Capture!CaptureAssumption /\ Delayed!DelayAssumption
  /\ Timer!TickAssumption /\ Gpio!EdgeAssumption /\ File!FileAssumption
  /\ Window!WindowAssumption /\ Sniffer!SnifferAssumption
  /\ Accel!HwmeAssumption

uartVars    == << tx_buffer, rx_buffer, reading, received, writing, sent, wire, error >>
captureVars == << i, running, line, capture, stored >>
delayedVars == << now, due, ready, enqueue_time, exec_time >>
timerVars   == << boot_pool, timer, queued, nb_ticks >>
gpioVars    == << enabled, pin, missed, raised, edges >>

callVars    == << opened, ticking, filled, left, moved >>
fileVars    == << at, res, buffer, copied, shown >>
windowVars  == << x, y >>
snifferVars == << id, address, turns, dumped, mem, pending, held >>
accelVars   == << clock, op_a, op_b, op_c, op_d, engine, step, acc, unit, mask, ended, errors >>

\* Programs with a device; programs with the bridge, the external memory or the
\* accelerator.
deviceVars == << uartVars, captureVars, delayedVars, timerVars, gpioVars, callVars >>
hostVars   == << fileVars, windowVars, snifferVars, accelVars >>

vars == << program, pc, pool, event, deviceVars, hostVars >>

Init == /\ program \in {"uart", "capture", "delayed", "oneshot", "periodic", "gpio", "file", "window",
                         "sniffer", "hwme"} \cup Calls!Programs
        /\ Uart!Init /\ Capture!Init /\ Delayed!Init /\ Timer!Start /\ Gpio!Init
        /\ Calls!Init /\ File!Init /\ Window!Init /\ Sniffer!Init /\ Accel!Init
        /\ program # "hwme" => Accel!Unused

-----------------------------------------------------------------------------
\* What each program leaves alone.
InUart    == program = "uart" /\ UNCHANGED << program, captureVars, delayedVars, timerVars, gpioVars,
                                              callVars, hostVars >>
InCapture == program = "capture" /\ UNCHANGED << program, uartVars, delayedVars, timerVars, gpioVars,
                                                 callVars, hostVars >>
InDelayed == program = "delayed" /\ UNCHANGED << program, event, uartVars, captureVars, timerVars,
                                                 gpioVars, callVars, hostVars >>
InTimer   == program \in {"oneshot", "periodic"} /\
             UNCHANGED << pool, event, uartVars, captureVars, delayedVars, gpioVars, callVars, hostVars >>
InGpio    == program = "gpio" /\ UNCHANGED << program, pool, event, uartVars, captureVars, delayedVars,
                                              timerVars, callVars, hostVars >>
InCalls   == program \in Calls!Programs /\ UNCHANGED << program, uartVars, captureVars, delayedVars,
                                                        timerVars, gpioVars, hostVars >>
InFile    == program = "file" /\ UNCHANGED << program, pool, event, deviceVars, windowVars, snifferVars,
                                              accelVars >>
InWindow  == program = "window" /\ UNCHANGED << program, pool, event, deviceVars, fileVars, snifferVars,
                                                accelVars >>
InSniffer == program = "sniffer" /\ UNCHANGED << program, pool, event, deviceVars, fileVars, windowVars,
                                                 accelVars >>
InAccel   == program = "hwme" /\ UNCHANGED << program, pool, event, deviceVars, fileVars, windowVars,
                                              snifferVars >>

MainStep == \/ InUart /\ Uart!Main
            \/ InCapture /\ Capture!Main
            \/ InDelayed /\ Delayed!Main
            \/ InTimer /\ Timer!Main
            \/ InGpio /\ Gpio!Main
            \/ InCalls /\ Calls!Main
            \/ InFile /\ File!Main
            \/ InWindow /\ Window!Main
            \/ InSniffer /\ Sniffer!Main
            \/ InAccel /\ Accel!Main

\* What goes on by itself: a transmission, the camera, the clock, the pin, the
\* DMA engine, the accelerator.
DeviceStep == \/ InUart /\ Uart!Send
              \/ InCapture /\ Capture!Line
              \/ InDelayed /\ Delayed!Tick
              \/ InTimer /\ Timer!Expire
              \/ InGpio /\ Gpio!PinEdge
              \/ InCalls /\ Calls!Element
              \/ InSniffer /\ Sniffer!Move
              \/ InAccel /\ Accel!Engine

\* What the runtime does about it.
RuntimeStep == \/ InUart /\ Uart!Receive
               \/ InDelayed /\ Delayed!Due
               \/ InGpio /\ Gpio!gpio_handler

Idle == \/ InDelayed /\ (Delayed!NothingReady \/ Delayed!Stopped)
        \/ InUart /\ Uart!Stopped
        \/ InCapture /\ Capture!Stopped
        \/ InTimer /\ Timer!Stopped
        \/ InGpio /\ Gpio!Stopped
        \/ InCalls /\ Calls!Stopped
        \/ InFile /\ File!Stopped
        \/ InSniffer /\ Sniffer!Stopped
        \/ InAccel /\ Accel!Stopped

Next == MainStep \/ DeviceStep \/ RuntimeStep \/ Idle

\* Main runs while it can, devices go on, and the runtime answers them.
Spec == Init /\ [][Next]_vars /\ WF_vars(MainStep) /\ WF_vars(DeviceStep) /\ WF_vars(RuntimeStep)

-----------------------------------------------------------------------------
TypeOK ==
  /\ program = "uart" => Uart!TypeOK
  /\ program = "capture" => Capture!TypeOK
  /\ program = "delayed" => Delayed!TypeOK
  /\ program \in {"oneshot", "periodic"} => Timer!TypeOK
  /\ program = "gpio" => Gpio!TypeOK
  /\ program \in Calls!Programs => Calls!TypeOK
  /\ program = "file" => File!TypeOK
  /\ program = "window" => Window!TypeOK
  /\ program = "sniffer" => Sniffer!TypeOK
  /\ program = "hwme" => Accel!TypeOK

\* periph/uart/loopback: the read is enqueued before anything is sent, so that
\* every element is received or on the wire.  bridge/file: however the bridge
\* cuts the file up, the copy and what is shown are the file as far as it has
\* been read, and nothing left in the buffer is shown again.
NothingLost ==
  /\ program = "uart" => Uart!NothingLost
  /\ program = "file" => File!NothingLost

\* periph/camera: between the event of a capture and the next capture the
\* buffer holds one whole frame that nothing writes to any more.  The blocking
\* calls: an interface only moves a buffer that main has filled and leaves alone.
WholeFrames ==
  /\ program = "capture" => Capture!WholeFrames
  /\ program \in Calls!Programs => Calls!WholeTransfers

\* bridge/file: the NUL main puts behind what it has read lands in the buffer.
\* bridge/framebuffer: the window never leaves the framebuffer, although the
\* end of a row is tested with an equality.
InBounds ==
  /\ program = "file" => File!InBounds
  /\ program = "window" => Window!InBounds

\* sa/ddr/sniffer: what is dumped is the chunk at each point up to the limit,
\* in order, each one after it has arrived.
DumpsEveryPoint == program = "sniffer" => Sniffer!DumpsEveryPoint

\* accelerators/hwme: the results main looks at are those of its job, all of
\* them, and they are what the reference program computes, whoever else had a
\* job on the engine before.
ResultsAreRight == program = "hwme" => Accel!ResultsAreRight

\* accelerators/hwme: main gets to see the end of its job, unless that comes
\* before the mask is set and the event unit drops it.
EndIsSeen == Accel!EndIsSeen

\* time/timer_oneshot: no call of the handler is lost, doubled or left over.
OneShotExact == program = "oneshot" => Timer!OneShotExact

\* gpio/input_interrupt: main, asleep with its edges counted or about to be,
\* is woken up by the next edge and ends.
EdgeWakesUp == Gpio!EdgeWakesUp

\* The programs end, and successfully: the UART gets back all it has sent, the
\* camera gets a free event for each capture, the delayed event is neither
\* early nor forgotten, the timers make their calls, a blocking call comes back,
\* and the file is copied and the memory spied to the end.  The window has no
\* end; it comes to the last row of its round over and over.
MainEnds ==
  /\ (program = "uart" /\ pc = "read") ~> (pc = "exit" /\ error = 0)
  /\ (program = "capture" /\ pc = "get") ~> (pc = "exit_0")
  /\ (program = "delayed" /\ pc = "loop") ~> (pc = "exit_0")
  /\ (timer = "armed") ~> (pc = "exit_0" /\ timer = "destroyed")
  /\ (left > 0) ~> (pc = "exit_0")
  /\ (program = "file" /\ pc = "read") ~> (pc = "exit_0")
  /\ (program = "sniffer") ~> (pc = "exit_0")
  /\ (program = "window") ~> Window!LastWindow
=============================================================================
