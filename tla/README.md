# TLA+ models of the PULP runtime examples

This directory is the verification project kept beside `src/`, the PULP runtime
example programs.  Each program is small, but nearly all of them are
concurrent: a fabric controller (FC) that runs callbacks out of an event
scheduler, DMA engines and peripherals that finish transfers when they like, a
cluster of cores that fork and join, a host on the other side of a shared
memory.  The models are about that: who owns a buffer, a transfer, a DMA
counter or an event at each moment, and what still works when the other side
answers early, late, or in another order.

The runtime itself (`rt_*`), the OpenPOWER library (`plp_*`, `liboprecomp`) and
the hardware are not in the repository.  What the programs rely on of them is
modelled in modules of its own and marked external in `PROJECT.json`.

## Inventory

| Component | Source | State | Operations | Interacts with |
|---|---|---|---|---|
| Camera to framebuffer | `bridge/framebuffer_with_camera/test.c` | free list of image buffers, `fb_pending`, `dropped`, events | start-up, `enqueue_capture`, `end_of_frame`, `end_of_fb_update`, main loop | camera driver (queue of captures), bridge (queue of updates), event scheduler |
| Tiled matrix addition | `chips/oprecompkw/matadd` | tile loop, three double buffers in L1, six DMA counters, the DDR matrices | prologue, tile loop, epilogue, `MatSumPar` on each core, host launch | DMA, cluster team, host |
| Asynchronous SPI | `periph/spim/async/test.c` | `nb_enqueued`, `nb_done`, two buffers | first two sends, `end_of_transfer`, close | SPI driver, event scheduler |
| DDR read/write | `chips/oprecompkw/ddr/rw`, `chips/oprecompkw/sa/ddr/rw` | WED, host buffer, L2 buffer, DMA counters | load/store WED, fill, destroy, read back; host open/launch/wait/free | DMA, host |
| DDR sniffer | `chips/oprecompkw/ddr/sniffer`, `chips/oprecompkw/sa/ddr/sniffer`, `chips/oprecompkw/common` | WED with a pattern, address, L2 chunk | terminate the pattern, scan loop, compare, report; dump in the stand-alone one | DMA, host |
| Cluster call and fork | `cluster/call`, `cluster/fork`, `cluster/fork_user_stack`, `perf/vcd` | mounted flag, team barrier, stacks, trace | mount, call, fork, unmount, error exits | cluster cores |
| Cluster tasks | `cluster/task/test.c` | two FC tasks, two cluster tasks each | push, run, wait | scheduler, cluster |
| Performance counters | `perf/cluster`, `perf/fc` | `cores_events`, counters per core | conf, start, stop, read per event | cluster cores, barrier |
| OpenMP | `openmp/simple` | loop chunks, barrier, critical section | parallel, for, barrier, critical | cluster cores |
| Timers | `time` | events, expiry times | push delayed, one-shot, periodic, wait | event scheduler |
| GPIO | `gpio` | `edges`, pin events | interrupt handler, yield loop, wait | interrupt controller |
| Peripherals | `periph/uart`, `periph/camera`, `periph/i2c`, `periph/i2s`, `periph/spim` | buffers, one blocking event each | open, transfer, wait, close | drivers |
| File and framebuffer bridges | `bridge/file`, `bridge/framebuffer` | copy buffer, window position | open, read, write, update | JTAG bridge |
| HWME accelerator | `accelerators/hwme` | job slot, event mask, four vectors | stimuli, acquire, program, trigger, unmask, wait, check | the engine, SoC event unit |
| CoreMark | `coremark` (a patch and a Makefile) | none here | - | - |
| Hello | `hello` | none | print | - |

What makes each of them correct, and what is hard about it:

- *Camera to framebuffer.* Buffers are handed round between the free list, the
  camera, the ready callbacks and the bridge in an order the hardware picks.
  `enqueue_capture` (`test.c:56`) reads through the free list without checking
  it, so everything rests on a count: three buffers, two captures, one flush.
- *Matrix addition.* Six DMA counters, double buffers in L1 indexed by a parity
  that three loop variables must agree on, transfers in flight while the cores
  work on the other half, a last tile of a different size
  (`MatAddKernels.c:59-112`).  Correct: no transfer meets a core or another
  transfer, and the sum is complete at the return.
- *Asynchronous SPI.* The last sends race with the end of the loop and with the
  close of the device; two events serve sixteen transfers (`test.c:37-41`).
- *DDR programs.* Every `plp_dma_memcpy` is asynchronous; a forgotten wait is
  invisible on a fast model and a lost pattern on a slow one.  The job's answer
  must be in host memory before the launch returns.  The host copies its pattern
  with no room for a NUL and the job puts one over its last character.
- *Cluster programs.* The cluster must stay on until the last core is back;
  shared globals hand a request from core 0 to the others; the tasks of
  `cluster/task` live in a stack frame; error paths leave the cluster mounted.
- *Performance counters.* What is read, sometimes long after, must be what the
  benchmark did and nothing else.
- *Timers, GPIO, UART, camera capture.* Events that may come before anybody
  waits for them, an interrupt between a test and a sleep, a read that must be
  enqueued before the write that feeds it, a pool of eight events for ten
  captures.
- *File and framebuffer bridges.* A read gives as much as the bridge likes, and
  the string made of it must end where it ends; a window that slides over the
  framebuffer for ever, turned back by an equality in one direction and an
  inequality in the other.
- *HWME.* The end of the job may come before its event is unmasked, and the
  end of somebody else's job raises the same event.  The sums overflow.

`PROJECT.json` lists these one by one under `hazards`, at their lines, with the
properties that would catch each of them going wrong.

## The modules

| Module | Models | How it corresponds |
|---|---|---|
| `RtEvents` | event scheduler of the runtime (external) | a count of free events, a FIFO of ready ones; an event is free again before its callback runs |
| `DmaEngine` | `plp_dma_memcpy`, `plp_dma_wait` (external) | a transfer is a set of moves, made one by one in any order, across transfers too; a counter is taken by the call and freed by the wait |
| `PerfCounters` | counters of a core (external) | configured events, on/off, a count for each event |
| `ClusterMain` | what the cluster mains share: mount, synchronous call, fork with join, unmount | `fc` is where main is, `core[c]` where each core is |
| `OprecompHost` | what the hosts of `ddr/rw`, `ddr/sniffer` and `matadd` share | one action for each call that can fail, and the clean-up |
| `Offload` | the abstract offloaded program | a question, and an answer that is right and stays |
| `CameraFramebuffer` | `bridge/framebuffer_with_camera` | `pc` is main's place; one action for each start-up call with its early return, one for each callback and branch; the free list is a sequence, head first |
| `FrameSlots` | the abstract camera program | each buffer is a slot with a state |
| `CameraRefinement` | - | the refinement mapping: a buffer's state is the place that holds it |
| `CameraFramebuffer_proofs` | - | proofs of both |
| `MatAdd` | `chips/oprecompkw/matadd/pulp` | an address is a matrix row; `pc` is the next DMA call of `MatADD`; `MatSumPar(id)` is a core's strip |
| `MatAddOffload` | `chips/oprecompkw/matadd/host` | the host of `OprecompHost` and the job of `MatAdd` composed: the job runs from the launch on, and its return is what the host waits for |
| `MatAdd_proofs`, `DmaLemmas` | - | proofs of the job, alone and with its host, and facts about the DMA engine |
| `SpimAsync` | `periph/spim/async` | main, `end_of_transfer`, and the interface as a queue |
| `SpimAsync_proofs` | - | proofs |
| `DdrRw`, `DdrSniffer` | `chips/oprecompkw/ddr/rw`, `ddr/sniffer`, job and host composed | one address space as the bus sees it: local, external, host window; the WED is fetched by DMA like in the code. A pattern of the sniffer and the start of a chunk are strings: functions of an index to a character, 0 for NUL |
| `DdrRw_proofs`, `DdrSniffer_proofs` | - | proofs of each, job, host and engine together |
| `SaDdrRw`, `SaDdrSniffer` | `chips/oprecompkw/sa/ddr/rw`, `sa/ddr/sniffer` | the same programs with no host |
| `ClusterFork` | `cluster/call`, `cluster/fork`, `cluster/fork_user_stack`, `perf/vcd` | one module, the program a variable |
| `PerfCluster`, `PerfDirect`, `PerfFc` | `perf/cluster/cumulative`, `perf/cluster/direct`, `perf/fc/*` | conf, reset and start, benchmark, stop, save or read, on each core |
| `OmpSimple` | `openmp/simple` | four regions; `var++` is a load and a store under a lock |
| `ClusterTask` | `cluster/task` | FC tasks that push CL tasks from their frame; cores are a resource, which a task has until it returns, also while it waits |
| `ClusterPrograms` | the programs above composed | one program is loaded; they share the cluster and the counters |
| `ClusterPrograms_proofs` | - | proofs of every program in it |
| `UartLoopback`, `CameraCapture`, `DelayedEvent`, `TimerTicks`, `GpioEdges` | `periph/uart/loopback`, `periph/camera`, `time/enqueue_delayed`, `time/timer_*`, `gpio/input_interrupt` | main, the handler if there is one, and the device |
| `BlockingCalls` | `periph/uart/send`, `periph/i2c`, `periph/spim/send`, `periph/spim/receive`, `periph/i2s` | one module, the program a variable; the interface moves an element at a time while main is blocked |
| `FileCopy`, `SlidingWindow` | `bridge/file`, `bridge/framebuffer` | one action for each statement that calls the bridge or writes the buffer; the window's corner |
| `FcPrograms` | the eight modules above, `SaDdrSniffer` and `Hwme` composed | one program is loaded; they share main's place, the pool and the blocking event |
| `FcPrograms_proofs` | - | proofs of every program in it |
| `GpioInput` | `gpio/input` | the loop that reads and prints, and a level that changes |
| `Hwme` | `accelerators/hwme/hwme.c`, against `hwme_x86.c` | main, the engine product by product, the event unit; `Sums` is the loop of `hwme_x86.c`. A program of `FcPrograms` |
| `HwmeX86` | `accelerators/hwme/hwme_x86.c`, `hwme_stimuli_*.h`, and the constants of `hwme.c:134-151` | the program itself, on the tables of the repository, which hold the same 128 bytes four times over, and on words that are their bytes: a step for each bias, product and store |
| `MCClusterPrograms`, `MCDdrSniffer`, `MCFcPrograms` | - | constants that a configuration cannot write |

Operators whose name ends in `_Something` under a comment `Mutant:` are not
part of the model.  Each is a plausible bug in the operator it is named after,
and shows that a property can fail.

The names of variables and actions are those of the code wherever TLA+ allows
it.  A callback runs to its end, because the scheduler is not preemptive
(`rt_event_execute` returns after the callback); the exception is the GPIO
interrupt handler, which may run between any two steps of main.  Code on
different agents - FC, each core, DMA engine, each device, host - interleaves
between any two accesses to something they share.

What the runtime does is taken from how the programs use it, which is where the
models could be wrong about the system.  The assumptions that matter:

- an event is back in the pool before its callback runs
  (`periph/spim/async/test.c:37` says so);
- a driver finishes the transfers queued on one device in their order;
- `plp_dma_*` transfers are unordered until waited for;
- nothing says what the SoC event unit does with an event that is not in the
  mask (`accelerators/hwme/hwme.c:125-128` unmasks after it has started the
  job): in the model it keeps it or drops it.  Every end of a job raises the
  event, so with a unit that keeps it the engine is taken to be free when main
  starts; otherwise the end of the job before would be the one main sees.  With
  a unit that drops it the engine may be busy at first, and main waits for ever
  if its own job is over before line 128 (`EventLost`);
- a task has its cores until it returns, also while it waits, so `cluster/task`
  needs a cluster of four cores (`TaskAssumption`, `TASK_PE`).  On three, both
  FC tasks can come to wait for CL tasks that find no two cores free; TLC
  shows that deadlock when `TASK_PE` is 3 in the configuration;
- a read or a write of the bridge does not fail, and the file is shorter than
  the buffer of `bridge/file` (`FileAssumption`): the program copies its own
  source, of 1273 characters, through a buffer of 8192;
- an interrupt wakes up `rt_event_yield`, whatever it is;
- the scheduler has an event after booting in the timer programs, which ask for
  one without allocating it (`BOOT_EVENTS`), although
  `time/enqueue_delayed/test.c:48` says there is none.  With none the model of
  the timer stops at the NULL event.

## The abstract specifications

`FrameSlots` says what the camera program promises with no list, event or
counter in it: a buffer is free, with the camera, captured, on display, or
displayed; one is on display at most; a frame is dropped only when one is; the
step that takes a frame from the camera for good gives the camera another
buffer; what is captured or displayed moves on.  `ImplementsFrameSlots` is
`FrameSlots!Spec` under the mapping of `CameraRefinement`, its fairness
included.  It fails if a flush is started while one is pending, or if a callback
takes two steps to do what must be one.

`Offload` says what an offloaded program promises its host, with no memory or
transfer in it: a host asks, or refuses to; what it finds when the launch
returns is the right answer to the question as it was when it asked; the answer
stays, and it always comes.  `DdrRw` and `DdrSniffer` both implement it
(`ImplementsOffload`), under mappings that share `Phase` of `OprecompHost`.  The
question of the sniffer is its pattern with what the points hold, so external
memory and WED may not change underneath either; the answer is what is in host
memory at `output`.  The mapping fails when the job ends before its last
transfer has arrived, when it compares a chunk before it is there, or when it
does not terminate the pattern.  `matadd` has no answer; what its host can rely
on is `HostEnds` of `MatAddOffload`.

## What each run checks

| Run | Module | Bounds | What it shows |
|---|---|---|---|
| `camera` | `CameraRefinement` | the program's 3 buffers and 3 events; up to 4 frames during one flush | no buffer has two holders or is lost; no list or pool is read empty; one flush; two captures always; every buffer goes back to the camera for ever; implements `FrameSlots` |
| `matadd` | `MatAddOffload` | the program's 6 tiles, of 2 rows, the last of 1; 6 columns on 4 cores; 3 counters; 2 calls | transfers and cores keep apart, transfers race with no other, stay in their buffers, the sum is complete when `MatADD` returns, and the host ends with nothing left allocated or under way |
| `spim_async` | `SpimAsync` | 32 transfers, twice the program's | two in flight at most, with a buffer each; two events are enough; the device is quiet when it is closed, and it is closed |
| `ddr_rw` | `DdrRw` | a buffer of 3 words; 2 offsets; 2 counters | the pattern comes back; host memory is kept but for the answer, and altogether once the job is over; implements `Offload` |
| `ddr_sniffer` | `MCDdrSniffer` | 7 external addresses; 2 offsets, 2 shifts, 2 limits; patterns of 3 characters over 3, empty, fitting or too long; 2 chunks at every place | the host is told of a match exactly when a point it asked for begins with its pattern, and the points are read up to the first one; implements `Offload` |
| `cluster_programs` | `MCClusterPrograms` | 3 cores, 4 for `cluster/task`; 3 passes over 4 events, loops of 5 and 2 | the cluster is on and the trace high while a core works; what is saved and printed is the benchmark's; critical section, frames of tasks; the mains end |
| `fc_programs` | `MCFcPrograms` | the programs' own sizes and counts; 3 elements on the wire, 3 us of delay, 4 more ticks and edges; a file of 5 characters and a buffer of 6; 16 spying points; 2 results of 2 products, words of 3 bits, all vectors over {-3, 2}, and an engine that is free at first, or, with an event unit that drops events, somebody else's | no element, no character of the file and no spying point lost, whole frames and transfers, exact one-shot ticks, the terminator and the window in bounds; the results of the HWME are finished and right when they are compared, overflow included, and the end of the job is seen unless the unit drops it; wake-up by an edge; the mains end |
| `hwme_x86` | `HwmeX86` | the repository's data and sizes; three builds | each constant `hwme.c` compares with is what the functional model computes, sums that overflow 64 bits included, and is not in memory before |
| `matadd_blocks` | `MatAdd` | the program's 6 tiles, of 2 rows, the last of 1; 3 columns on 2 cores | violation, see below |
| `sa_ddr_rw` | `SaDdrRw` | 2 words | violation, see below |
| `cluster_off` | `ClusterFork` | 8 cores | violation, see below |
| `gpio_input` | `GpioInput` | the program's 10 reads | violation, see below |

Why the bounds are enough.  The camera, SPI, UART, capture, timer and GPIO runs
have the program's own counts; what is bounded there is only how long a device
takes, and a longer wait changes nothing but a counter.  Six tiles are the
program's; they give the loop a steady state at both parities between the
prologue and the short last tile, and two calls are the first number where
something left over from one could harm the next.  Six columns on four cores
make strips of two, with a core that has none.  The run takes the build
with `USE_TLM_MEM`, whose matrices have the room they need: in the other one,
which is the default, the transfers of the second tile leave their blocks
(`matadd_blocks`), and what they then overwrite is not modelled.  The return of
-1 when an allocation fails belongs to that default build and is in
`matadd_blocks` only.  Three cores are the first number where two cores other than the
master race; `cluster/task` forks nothing and has the four cores its tasks need.  The DDR programs treat all words alike apart from the parity the
pattern has.  The strings of the sniffer are long enough for a pattern with no
character, one that is followed by a NUL, and one whose last character the job
overwrites; the two chunks differ in that character and in an earlier one.  In
`bridge/file` a buffer one longer than the file lets the bridge cut it up in
every way, from one character at a time to all at once.  Three-bit words make most sums of the HWME overflow.

Where a run may not deadlock, TLC checks that it does not: each specification
has a stuttering step for its proper ends only.

## Fairness

Weak fairness for each agent as a whole, never for a single branch: main (with
its callbacks) on the FC, the cores, the host, the DMA engine, each device, the
runtime where it has a step of its own.  The code justifies it in that nothing
else runs on those agents and a step that is enabled there stays so until it is
taken.  In `ClusterPrograms` the cores have one condition together, so no fair
arbiter between cores is assumed; a step of one never depends on another's not
moving.  A device's fairness says that a transfer that was started ends, and
for the camera and the pin that the outside world goes on.  Allocations and
opens may always fail; the liveness properties therefore start after them.
`FrameSlots` has no fairness on `Capture`: the mapping of the camera's own
fairness is not needed there.  `Offload` has it on the answer only: a host need
not ask.  In `MatAddOffload` the host, the end of the job, the FC's part of the
kernel, each core and the DMA engine have one condition each.

## Where the code and its comments disagree

- `matadd_blocks`: without `USE_TLM_MEM` main allocates `MAT_SIZE` bytes for a
  matrix (`matadd/pulp/test.c:37`), a count of elements, while the kernel
  transfers four times as many ("Total Size: 40000", `MatAddKernels.c:34`).  With
  the program's six tiles the first, of 18 of the 100 rows, stays inside the 25
  rows that fit; the trace ends with the transfer that starts the second.
- `sa_ddr_rw`: the stand-alone program does not wait for its write to the
  external memory (`sa/ddr/rw/test.c:57`) before it overwrites the buffer and
  starts to read back; the pattern need not come back.  The offloaded program
  (`ddr/rw`) waits, and the same property holds of it.
- `cluster_off`: `fork_user_stack/test.c:28` returns with the cluster mounted
  when the stacks cannot be allocated; line 36 says it must be unmounted.
- `gpio_input`: `gpio/input/test.c:23` gives `printf` a constant 0 for its only
  `%d`, so that 0 is printed whatever the pin is; lines 20 and 23 say that the
  values are got and printed.

Met while reading, with no run: `gpio/input_interrupt/test.c:18` is a variable
changed by an interrupt handler that is not volatile; `rt_alloc`, `calloc` and
`rt_cluster_call` have results the mains do not look at (`PROJECT.json` lists
the first two under `hazards`); the host of `matadd` never learns what its job returned; the
signed sum `tmp` of `hwme_x86.c:81` overflows with the repository's stimuli
(it comes to 1.37 times 2^63), which C leaves undefined and the compiler of
`Makefile.x86` makes wrap; the interrupt of the very last edge in
`gpio/input_interrupt/test.c:46` may come between the test and the sleep, and
main then sleeps for ever, which no document rules out.

## What is proved

`CameraFramebuffer_proofs` proves, for every number of buffers and events from
three up and every bound on dropped frames from two up (`CameraAssumption`):

| Theorem | States |
|---|---|
| `TypeCorrect` | `Spec => []TypeOK` |
| `EnoughBuffersAndEvents` | `Spec => []NeverStarved`: no callback finds the free list or the pool of events empty |
| `ExclusiveBuffers` | `Spec => []OneHolder`: no buffer is in two places or lost |
| `FlushFlagIsExact` | `Spec => []OneFlush`: `fb_pending` is set exactly while an update is outstanding |
| `CameraKeepsTwo` | `Spec => []DoubleBuffered` |

None of these is inductive.  That the free list is not empty when a callback
needs a buffer follows from how many buffers the three queues hold; that
follows from `fb_pending` telling the truth about the flush; and that, in turn,
from every buffer being in one place.  `IInv` is the conjunction `TypeOK`,
`NeverStarved`, `OneHolder`, `Counts` (what each stage of main leaves in the
queues, in buffers and in events) and `FlushState` (no flush; one on the
bridge; or its callback, and only one, among the ready).  The proof shows
`Init => IInv` and, action by action, that each conjunct is kept.  Three lemmas
state what the steps rely on of sequences: what `Append`, `Tail` and a push at
the head do to length, range and injectivity.  TLC checks `TypeOK`,
`NeverStarved` and `OneHolder` on the instance with three buffers.

The same module proves `SlotsAreKept`:
`Spec => Slots!Init /\ [][Slots!Next]_slot`, the refinement of `FrameSlots` for
the same constants, its fairness apart.  A slot's state is the one of the five
places (free list, camera, captured, bridge, displayed) that holds the buffer;
`OneHolder` says that the places are disjoint, so a step that moves a buffer
between two of them moves one slot, and `Counts` and `FlushState` give the
guards: fewer than two slots with the camera while main still queues captures,
an empty display when a frame is shown and a taken one when it is dropped.

`SpimAsync_proofs` proves, for every number of transfers from two up
(`SpimAssumption`):

| Theorem | States |
|---|---|
| `TypeCorrect` | `Spec => []TypeOK` |
| `AtMostTwo` | `Spec => []TwoInFlight`: two transfers at most, each with a buffer of its own |
| `TwoEventsAreEnough` | `Spec => []EventsSuffice`: the comment at `test.c:37` is right for any number of transfers |
| `ClosedWhenOver` | `Spec => []ClosedQuiet`: the device is closed after the last callback, never before |

The two counters mean nothing without the queues they count.  `IInv` is
`TypeOK`, `InFlight` - at each place of main, how many transfers are on the
interface or have their callback ready, how many events are free, and that
these two add up to what `rt_event_alloc` gave - and `Distinct`: a buffer is on
the interface once, or in one ready event, or in neither.  The callback keeps
`Distinct` because the buffer it is given has just left the queue of ready
events, and `InFlight` because its event is free again before it runs.

`MatAdd_proofs` proves, for every number of tiles from two up, every height of
a tile, of the last one, every width, every number of cores, of iterations and
of DMA counters from three up (`MatAddAssumption`, `CounterAssumption`):

| Theorem | States, of `Spec` and of `OffloadSpec` |
|---|---|
| `NoRace` | `[]NoDmaRace`: two transfers in flight never meet, so the order in which the engine moves rows does not show |
| `HalvesNeverMeet` | `[]HalvesApart`: the transfers and the cores work on different halves of the double buffers |
| `StaysInPlace` | `[]TransfersInPlace`: every transfer stays in its buffer and in its matrix |
| `SumIsRight` | `[]SumOnReturn`: at the return `Out` is the sum, and no counter is held |
| `HostEndsClean` | of `OffloadSpec` only, `[]HostLeavesNothing`: when the launch returns no transfer is under way, and a host that succeeds has freed everything; the safety part of `HostEnds` |

`IInv` has four parts.  `Control` says which tile each of the three loop
variables `N_In1`, `N_In2` and `C_Out` stands for at each place of `MatADD`:
it is where the parity of `T0Ind`, on which the choice of the halves rests,
enters.  `Counters` says which transfers are on their way or still to be waited
for, and that each has a counter of its own; `Transfers` which tile each
carries (`Flow1`, `Flow2`, `FlowW`); and `Data` what has been loaded, added and
written.  The sum is not inductive without the tiles: a tile in L1 is the one
that was sent only because nobody writes its source while it is on its way, and
because the next tile goes to the other half.  `DmaLemmas` has that argument
once for the three programs that need it: `Flow` says of a transfer that its moves
still to be made are from a block to a block and that those already made have
arrived, and the lemmas say that a move of it, or a write elsewhere, keeps it,
and that a wait ends it with the destination equal to the source.
`JobInvariant` shows that the host's steps leave all of this alone.
`HostInv` says what the host holds at each of its places, and that the job is over
when the launch has returned.

`DdrRw_proofs` proves, for every size of the buffer and of the host window,
every set of offsets that leave room for it, every place of WED and answer and
every number of counters (`DdrRwAssumption`, `CounterAssumption`):

| Theorem | States |
|---|---|
| `PatternIsBack` | `Spec => []PatternComesBack`: what is read back is what was written, the buffer having been destroyed in between |
| `HostIsLeftAlone` | `Spec => HostMemoryKept`: a step that changes host memory is the host's own preparation or stores the answer |
| `PromiseIsKept` | `Spec => Promise!Init /\ [][Promise!Next]_(Promise!offloadVars)`: `ImplementsOffload` without its fairness |

`Control` relates the host's place to the job's; `Wed` says that what the
program fetches from host memory, by DMA and with no regard for what the host
does meanwhile, is what the host has asked for; `Counters` that one transfer at
most is under way; `Transfer` what it carries, at each of the four places where
there is one; `Data` where the pattern is, at each place.  `HostMemoryKept`
needs all of it: that the moves of the write, the read and the answer go where
they should is in `Transfer`.  Of the refinement every step of the host and of
the job is shown to be a step of `Offload` or none; the answer becomes right in
the last wait.

`DdrSniffer_proofs` proves, for every size of the host window, every set of
offsets, shifts from one up, and limits that stay in the external memory, any
contents of that memory, patterns of any length with or without a NUL, and any
number of counters (`DdrSnifferAssumption`, `CounterAssumption`):

| Theorem | States |
|---|---|
| `ScanInvariant` | `Spec => []IInv` |
| `AnswerRight` | `Spec => []AnswerIsRight`: the host reads 1 exactly when a point it asked for begins with its pattern, and the points read are those up to the first such |
| `PromiseIsKept` | `ImplementsOffload` without its fairness |

`Control`, `WedInv`, `Counters` and `Transfer` are as in `DdrRw`.  `Memory` says
that the local WED is the host's, the end of the pattern apart, and `Scan` what
makes the answer right: before a point is read, those read are the points before
it; after it has been, it is one of them; and no hit is among those before it.
When the scan ends, at a hit or at the limit, that is the property.  Two lemmas
carry it.  `NextPoint`: from a point, adding the shift gives the next point, or
there is none and the `do-while` ends; it rests on the points being a number of
shifts from the first.  `Matching`: comparing as many characters as
`bare_strlen` finds in the terminated pattern is comparing the characters before
its first NUL.  Nothing of this survives a change of the WED or the external
memory, so each step of the job and of the engine is shown to keep both
(`QuestionKept`), which is also what the refinement needs of it.

`ClusterPrograms_proofs` proves every invariant the run `cluster_programs`
checks, for every number of cores from two up, every stack size, every
sequence of groups of events that has at least one and in which no event is in
two, every finite set of events, every amount of work per event and every
number of iterations and increments, with four cores or more for `cluster/task`
(`ProgramsAssumption`, `NbPeAssumption`):

| Theorem | States |
|---|---|
| `TypeCorrect` | `Spec => []TypeOK` |
| `ClusterStaysOn` | `Spec => []OnWhileUsed`: no program turns the cluster off, or returns, with a core at work |
| `SavedRight` | `Spec => []SavedIsMeasured`: what is saved pass after pass is what the program's own benchmarks made occur |
| `ShownRight` | `Spec => []ShownIsMeasured`: so is what is printed, and no line is missing |
| `NoIncrementLost` | `Spec => []VarIsTotal`: the critical section loses no increment |
| `FramesLive` | `Spec => []FrameOutlivesTasks`: no CL task lives in the frame of an FC task that has returned |

`IInv` has an invariant of its own for each kind of program, and one for main
(`MainInv`), which those on the cluster but OpenMP share: while main is in its
call the cluster is on, and otherwise every core is idle.

- `ForkInv`: either core 0 is alone or the whole team is in `pe_entry`, which is
  when the trace is high.
- `CumulativeInv`: core c's structure holds what occurred in the benchmarks of
  the passes it has saved, its counters what has occurred in this one, and in
  the groups of the passes still to come nothing has occurred.  The last is what
  makes a sum over passes right that reads a counter once: it is not in the
  property and cannot be left out.  Cores are in different places of a pass, so
  each of these is said of a core by its label.
- `DirectInv`: the same with one pass and two events, and what has been printed.
- `OmpInv`: which region the team is in (`Team`), and `Critical`: one core at most holds the lock, what it has loaded
  is still the value of `var`, and `var` is the cardinality of the set of the
  increments that are done, which are pairs of a core and a round.
- `TaskInv`: of each FC task and the CL tasks in its frame, which have been
  pushed, run and waited for at each place of its loops.
- `FcPerfInv`: as in `CumulativeInv`, on one core.  That no line is missing is a
  count: each line printed is a different event's, and they are as many.

The steps of one program leave the invariants of the others alone, because each
is conditional on `program`, which never changes.

`FcPrograms_proofs` proves every invariant the run `fc_programs` checks, from
`ProgramsAssumption`: any sizes of the buffers, the wire and a frame, any number
of captures, events, ticks and edges, any delay, any file shorter than its
buffer, any window smaller than its framebuffer in both directions, any limit
of the sniffer that is a multiple of its shift, and a job of the HWME with any
number of results and of products from one up, words of any width and any operands:

| Theorem | States |
|---|---|
| `TypeCorrect` | `Spec => []TypeOK` |
| `NoLoss` | `Spec => []NothingLost`: no element of the UART, no character of the file |
| `FramesAreWhole` | `Spec => []WholeFrames`: captures and blocking transfers are whole |
| `TicksAreExact` | `Spec => []OneShotExact`: the one-shot timer makes the calls asked for |
| `StaysInBounds` | `Spec => []InBounds`: the terminator and the window |
| `EveryPointIsDumped` | `Spec => []DumpsEveryPoint`: each point's own chunk, in order |
| `ResultsRight` | `Spec => []ResultsAreRight`: main compares finished results of its own job and they are those of `hwme_x86.c` |

Here too `IInv` has one invariant for each program:

- `UartInv`: from the first element sent to the last received a read is enqueued,
  and what has been sent is what has been received and what is on the wire.
- `CaptureInv`: a capture that is being stored has stored the lines the camera is
  past, so that it began with the first; the pool holds what main has given back.
- `CallsInv`: a transfer has elements left only while main is blocked in it, and
  then the buffer is filled; which transfer main is in is what has been moved.
- `DelayedInv`: no clock reading is past the delay and its slack.
- `TimerInv`: the one-shot timer is armed, or its callback queued, and not both,
  only while there are calls left to make.
- `GpioInv`: an edge was missed before the event was set, or is raised, or has
  been counted.
- `FileInv`: the buffer holds the piece just read and, before it is shown, its
  NUL; what has been copied and what has been shown are beginnings of the file.
  That the piece before it was longer does not matter because of the NUL.
- `WindowInv`: the corner is strictly before the last place in both directions,
  which is what makes the equality in the horizontal test safe.
- `SnifferInv`: the address is a whole number of shifts past the base, so the loop
  meets its limit exactly; one transfer at most is under way, to the chunk's buffer.
- `AccelInv`: `AccelOwner` says whose the engine is at each place of main, that
  no event is there before main's job has ended - that of the job before is
  dropped, because the mask is not set before main has the engine - and that
  main is past its wait only with the engine free again.  `OtherJobStep` is the
  lemma about the end of the job before: nothing of main's changes, the event
  included, and it is what fails when the mask is set before the engine is main's.
  `Progress` says that the results whose products are done are in `d` and that
  the accumulator is what the loop of `hwme_x86.c` has after as many products of
  the next one (`Sums`).  That such a loop has a value at all is a statement
  about every number of products; `LoopExists` proves it from the smallest number
  for which there would be none.

What stays with TLC, and why:

- Liveness (`NoBufferForgotten`, `AlwaysCloses`, `HostEnds`, `EndIsSeen`,
  `EdgeWakesUp`, `MainEnds`) and the fairness of the three refinements
  (`ImplementsFrameSlots`, `ImplementsOffload` of both DDR programs) need
  `ENABLED`, which is beyond the prover.
- The runs that expect a violation have nothing to prove.
- `ExpectedIsReference` is about the tables of the repository: it has no constants,
  and the run computes all there is.

## What is not modelled, and why

- `gpio/input_wait`, `gpio/output`, `time/wait_time`: one blocking call after
  another with nothing concurrent, and nothing that main looks at afterwards.
- `coremark` is build glue for a benchmark kept elsewhere; `hello` prints.
- What the runtime does with a NULL or a failed call that a main does not look
  at: the models stop there (`null_event`, `null_l1`, `null_output`).
- Image, sample and payload contents, printing, clocks other than in
  `DelayedEvent`, and addresses below the unit a program moves as a whole.
- The engine in the matrix-vector build of the HWME program: of that build, and
  of the one without stimuli, only the expected results are checked (`hwme_x86`).
- The address bits above that of the host window: `htop` sets that bit, and that
  it drops those above has no effect on the small addresses of the models.

## Plan

Written, in this order: `RtEvents`, `CameraFramebuffer`, `FrameSlots` with its
refinement and the camera's proofs; `DmaEngine`, `MatAdd`; `SpimAsync`; the DDR
programs with their host; the cluster programs and their composition; the FC
programs and theirs; `Hwme`; then `MatAddOffload`, the strings of the sniffer,
`Offload` and the two programs that implement it; `SaDdrSniffer`, the bridges
and the blocking peripherals in `FcPrograms`; `GpioInput`; the proofs of `SpimAsync`,
`SlidingWindow`, `OmpSimple` and the camera's refinement; then those of `MatAdd`
with its host, of `DdrRw` and `DdrSniffer` with their refinements, and of all of
`ClusterPrograms` and `FcPrograms`, into which those of `OmpSimple`,
`SlidingWindow` and `Hwme` went; `HwmeX86`.

Every invariant of a run that passes is a theorem, but the one of `hwme_x86`, and so is the safety part of
each refinement and of `HostEnds`.  What is left is liveness, which the
prover does not reach.

To model more, what is left is thin: the two timed `gpio` programs and
`time/wait_time` would be a clock of `DelayedEvent` and little else.
