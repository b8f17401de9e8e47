--------------------------------- MODULE DdrRw ---------------------------------
(***************************************************************************)
(* chips/oprecompkw/ddr/rw: the host launches a job with a WED; the job    *)
(* fetches the WED from host memory, writes a pattern to the external      *)
(* memory, destroys its buffer, reads the pattern back and writes an       *)
(* answer to host memory, all of it through the DMA engine.                *)
(*                                                                         *)
(* Addresses are those of PULP, scaled down: the local memory at 0, the    *)
(* external memory at half of HOST_WINDOW (2^47 of 2^48), and host address *)
(* a where htop puts it.  One address holds one word or one field.         *)
(***************************************************************************)
EXTENDS DmaEngine, OprecompHost

CONSTANTS HOST_WINDOW,  \* 2^48 in the code
          BUFF_SIZE,    \* words of the buffer: 1024
          OFFSETS,      \* values of _OFFSET the host is built with
          WED_AT,       \* host address of the WED, two fields
          OUTPUT_AT     \* host address calloc returns

\* PULP local memory: the buffer, the copy of the WED, the answer.
Buff        == 0
LocalWed    == BUFF_SIZE
LocalAnswer == BUFF_SIZE + 2

ddr_base == HOST_WINDOW \div 2

\* Host memory in the window the bus routes to the host.
htop(hostaddr) == (hostaddr % HOST_WINDOW) + HOST_WINDOW

Addr == 0 .. 2 * HOST_WINDOW - 1

ASSUME DdrRwAssumption ==
  /\ HOST_WINDOW \in Nat /\ BUFF_SIZE \in Nat \ {0}
  /\ LocalAnswer < ddr_base /\ OFFSETS \subseteq 0 .. ddr_base - BUFF_SIZE
  /\ WED_AT \in Nat \ {0} /\ OUTPUT_AT \in Nat
  /\ WED_AT + 2 <= OUTPUT_AT /\ OUTPUT_AT < HOST_WINDOW

VARIABLES pc,   \* where main of the job is
          id    \* the counter of its last transfer

vars == << hostVars, pc, id, mem, pending, held >>

\* The words of the buffer: the pattern alternates two of them.
EFBEADDE == 1
FECABABE == 2
FFFFFFFF == 3
BABEFACE == 4
Pattern(i) == IF i % 2 = 1 THEN FECABABE ELSE EFBEADDE

Init ==
  /\ HostInit
  /\ pc = "idle" /\ id = 0
  /\ DmaInit([a \in Addr |-> 0])

-----------------------------------------------------------------------------
(* The host.                                                               *)

Store(writes) == mem' = [a \in Addr |-> IF a \in DOMAIN writes THEN writes[a] ELSE mem[a]]

\* The WED: _offset and output, NULL if calloc failed.
FillWed ==
  /\ \E offset \in OFFSETS, given \in BOOLEAN :
       /\ Load(given)
       /\ Store([a \in {htop(WED_AT), htop(WED_AT + 1)} |->
            IF a = htop(WED_AT) THEN offset ELSE IF given THEN OUTPUT_AT ELSE 0])
  /\ UNCHANGED << pc, id, pending, held >>

HostMoves ==
  /\ HostStep \/ Report
  /\ pc' = IF job' = "running" /\ job = "none" THEN "fill" ELSE pc
  /\ UNCHANGED << id, mem, pending, held >>

-----------------------------------------------------------------------------
(* The job.                                                                *)

Start(from, to, n, next) ==
  /\ plp_dma_memcpy(held, from, to, n)
  /\ id' = NextCounter(held)
  /\ pc' = next
  /\ UNCHANGED << hostVars, mem >>

\* plp_dma_wait(id), then a transfer.
WaitAndStart(from, to, n, next) ==
  /\ Waited(id)
  /\ plp_dma_memcpy(Release(id), from, to, n)
  /\ id' = NextCounter(Release(id))
  /\ pc' = next
  /\ UNCHANGED << hostVars, mem >>

\* The locals of main and the pattern.
Fill ==
  /\ pc = "fill"
  /\ Store([a \in Buff .. LocalAnswer |->
       IF a < LocalWed THEN Pattern(a - Buff) ELSE IF a = LocalAnswer THEN BABEFACE ELSE 0])
  /\ pc' = "load"
  /\ UNCHANGED << hostVars, id, pending, held >>

\* The host passes the WED's address.
LoadWed == pc = "load" /\ Start(htop(WED_AT), LocalWed, 2, "write")

address == ddr_base + mem[LocalWed]

WritePattern == pc = "write" /\ WaitAndStart(Buff, address, BUFF_SIZE, "destroy")

\* Mutant: the write is not waited for.
Destroy_NoWait ==
  /\ pc = "destroy"
  /\ Store([a \in Buff .. Buff + BUFF_SIZE - 1 |-> FFFFFFFF])
  /\ pc' = "read_back"
  /\ UNCHANGED << hostVars, id, pending, held >>

Destroy ==
  /\ pc = "destroy"
  /\ Waited(id) /\ held' = Release(id)
  /\ Store([a \in Buff .. Buff + BUFF_SIZE - 1 |-> FFFFFFFF])
  /\ pc' = "read_back"
  /\ UNCHANGED << hostVars, id, pending >>

ReadBack == pc = "read_back" /\ Start(address, Buff, BUFF_SIZE, "answer")

\* Mutant: the answer goes where the other field of the WED says.
Answer_WrongField ==
  /\ pc = "answer"
  /\ WaitAndStart(LocalAnswer, htop(mem[LocalWed]), 1, "finish")

Answer ==
  /\ pc = "answer"
  /\ WaitAndStart(LocalAnswer, htop(mem[LocalWed + 1]), 1, "finish")

\* Mutant: the job ends while its answer is under way.
Finish_NoWait ==
  /\ pc = "finish"
  /\ pc' = "over" /\ job' = "over"
  /\ UNCHANGED << host, owned, id, mem, pending, held >>

Finish ==
  /\ pc = "finish"
  /\ Waited(id) /\ held' = Release(id)
  /\ pc' = "over" /\ job' = "over"
  /\ UNCHANGED << host, owned, id, mem, pending >>

Job == Fill \/ LoadWed \/ WritePattern \/ Destroy \/ ReadBack \/ Answer \/ Finish

-----------------------------------------------------------------------------
Move == DmaMove /\ UNCHANGED << hostVars, pc, id >>

Stopped == HostStopped /\ pc \in {"idle", "over"} /\ UNCHANGED vars

Next == FillWed \/ HostMoves \/ Job \/ Move \/ Stopped

Spec == /\ Init /\ [][Next]_vars
        /\ WF_vars(FillWed \/ HostMoves) /\ WF_vars(Job) /\ WF_vars(Move)

-----------------------------------------------------------------------------
\* Once the read back has been waited for, the buffer that was destroyed holds
\* the pattern again, and the external memory holds it at the host's offset.
PatternComesBack ==
  pc \in {"finish", "over"} =>
    \A i \in 0 .. BUFF_SIZE - 1 :
      /\ mem[Buff + i] = Pattern(i)
      /\ mem[ddr_base + mem[htop(WED_AT)] + i] = Pattern(i)

\* Host memory changes when the host fills the WED and, while the job runs, in
\* the block the WED names: the WED stays as the host left it, and no transfer
\* reaches the host once it has been told that the job is over, when the block
\* is read and freed.
HostMemoryKept ==
  [][\A a \in HOST_WINDOW .. 2 * HOST_WINDOW - 1 :
       mem'[a] # mem[a] =>
         \/ host = "load" /\ a \in {htop(WED_AT), htop(WED_AT + 1)}
         \/ job = "running" /\ a = htop(mem[htop(WED_AT + 1)])]_vars

\* The refinement mapping.  The question is the offset; the right answer to any
\* is BABEFACE.
NoOffset == -1
Promise == INSTANCE Offload WITH
  Question   <- OFFSETS,
  NoQuestion <- NoOffset,
  NoAnswer   <- 0,
  Right      <- LAMBDA offset : BABEFACE,
  phase      <- Phase,
  question   <- IF Phase \in {"idle", "refused"} THEN NoOffset ELSE mem[htop(WED_AT)],
  answer     <- IF Phase = "answered" THEN mem[htop(OUTPUT_AT)] ELSE 0

\* Host, job and engine together keep the promise of Offload: the answer is in
\* host memory when the launch returns, stays there, and does come.
ImplementsOffload == Promise!Spec
=============================================================================
