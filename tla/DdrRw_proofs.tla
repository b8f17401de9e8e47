----------------------------- MODULE DdrRw_proofs -----------------------------
(***************************************************************************)
(* The DDR read/write job and its host, with a host window, a buffer and   *)
(* offsets of any size: the pattern comes back, host memory is left alone  *)
(* but for the answer, and the whole keeps the safety part of what Offload *)
(* promises.                                                               *)
(*                                                                         *)
(* The job has one transfer in flight at a time, and nothing writes its    *)
(* source meanwhile.  What it carries is therefore known when it has been  *)
(* waited for, from one wait to the next: the WED, the pattern to the      *)
(* external memory, the pattern back, the answer.                          *)
(***************************************************************************)
EXTENDS DdrRw, DmaLemmas

\* The WED as the host has left it in its memory.
HostOffset == mem[htop(WED_AT)]
HostOutput == mem[htop(WED_AT + 1)]

\* The pattern is in memory M from `first' on.
HasPattern(M, first) == \A i \in 0 .. BUFF_SIZE - 1 : M[first + i] = Pattern(i)

PC == {"idle", "fill", "load", "write", "destroy", "read_back", "answer", "finish", "over"}

\* The host has filled the WED and has not given up.
Filled == host \in {"open", "launch", "wait", "report", "exit_0", "null_output"}

Control ==
  /\ pc \in PC /\ job \in {"none", "running", "over"}
  /\ pc = "idle" <=> job = "none"
  /\ pc = "over" <=> job = "over"
  /\ job # "none" => host \in {"wait", "report", "exit_0", "null_output"}
  /\ host = "wait" => job # "none"
  /\ host \in {"report", "exit_0", "null_output"} => job = "over"

\* calloc's block is where the WED says, or there is none and the WED says NULL.
Wed ==
  /\ Filled => HostOffset \in OFFSETS /\ HostOutput \in {0, OUTPUT_AT}
  /\ host \in {"usage", "load"} => "output" \notin owned
  /\ host \in {"open", "launch", "wait", "report"} =>
       ("output" \in owned <=> HostOutput = OUTPUT_AT)
  /\ host = "exit_0" => HostOutput = OUTPUT_AT

\* The transfer that is waited for next, if there is one, has the only counter
\* that is taken.
Counters ==
  /\ held = IF pc \in {"write", "destroy", "answer", "finish"} THEN {id} ELSE {}
  /\ held \subseteq Counter
  /\ pending = [c \in Counter |-> pending[c]]
  /\ \A c \in Counter \ held : pending[c] = {}

Transfer ==
  /\ pc = "write"   => Flow(pending, mem, id, htop(WED_AT), LocalWed, 2)
  /\ pc = "destroy" => Flow(pending, mem, id, Buff, ddr_base + HostOffset, BUFF_SIZE)
  /\ pc = "answer"  => Flow(pending, mem, id, ddr_base + HostOffset, Buff, BUFF_SIZE)
  /\ pc = "finish"  => Flow(pending, mem, id, LocalAnswer, htop(HostOutput), 1)

Data ==
  /\ mem = [a \in Addr |-> mem[a]]
  /\ pc \in {"load", "write", "destroy", "finish", "over"} => HasPattern(mem, Buff)
  /\ pc \in {"read_back", "answer", "finish", "over"} => HasPattern(mem, ddr_base + HostOffset)
  /\ pc \in {"destroy", "read_back", "answer", "finish"} =>
       mem[LocalWed] = HostOffset /\ mem[LocalWed + 1] = HostOutput
  /\ pc \in {"load", "write", "destroy", "read_back", "answer", "finish"} =>
       mem[LocalAnswer] = BABEFACE
  /\ pc = "over" => mem[htop(HostOutput)] = BABEFACE

IInv == Control /\ Wed /\ Counters /\ Transfer /\ Data

-----------------------------------------------------------------------------
(* The memory map: local memory, external memory, host memory.             *)

HostWindow == HOST_WINDOW .. 2 * HOST_WINDOW - 1

LEMMA Bounds ==
  /\ HOST_WINDOW \in Nat /\ BUFF_SIZE \in Nat /\ BUFF_SIZE > 0
  /\ Buff = 0 /\ LocalWed = BUFF_SIZE /\ LocalAnswer = BUFF_SIZE + 2
  /\ ddr_base \in Nat /\ LocalAnswer < ddr_base /\ 2 * ddr_base <= HOST_WINDOW
  /\ Addr = 0 .. 2 * HOST_WINDOW - 1
BY DdrRwAssumption DEF Buff, LocalWed, LocalAnswer, ddr_base, Addr

LEMMA HostAddresses ==
  /\ htop(WED_AT) \in HostWindow /\ htop(WED_AT + 1) = htop(WED_AT) + 1
  /\ htop(WED_AT + 1) \in HostWindow
  /\ \A a \in {0, OUTPUT_AT} : /\ htop(a) \in HostWindow
                               /\ htop(a) # htop(WED_AT) /\ htop(a) # htop(WED_AT + 1)
  /\ OUTPUT_AT # 0
BY DdrRwAssumption DEF htop, HostWindow

\* Where the pattern goes, for any offset the host may ask for.
LEMMA Dram ==
  ASSUME NEW offset \in OFFSETS
  PROVE  /\ ddr_base + offset \in Nat
         /\ Block(ddr_base + offset, BUFF_SIZE) \subseteq ddr_base .. HOST_WINDOW - 1
<1>1. offset \in Nat /\ offset + BUFF_SIZE <= ddr_base
  BY Bounds, DdrRwAssumption
<1> QED BY <1>1, Bounds DEF Block

LEMMA PatternKept ==
  ASSUME NEW M, NEW N, NEW first \in Int, HasPattern(M, first),
         Agree(M, N, Block(first, BUFF_SIZE))
  PROVE  HasPattern(N, first)
<1>1. \A i \in 0 .. BUFF_SIZE - 1 : first + i \in Block(first, BUFF_SIZE)
  BY Bounds DEF Block
<1> QED BY <1>1 DEF HasPattern, Agree

-----------------------------------------------------------------------------
(* The host's steps.                                                       *)

LEMMA InitIInv == Init => IInv
BY DEF Init, HostInit, DmaInit, IInv, Control, PC, Wed, Filled, Counters, Transfer, Data

\* Of a step that leaves the job, the engine and memory as they are.
LEMMA JobUntouched ==
  ASSUME IInv, UNCHANGED << id, mem, pending, held >>,
         pc' = pc \/ (pc = "idle" /\ pc' = "fill")
  PROVE  Counters' /\ Transfer' /\ Data'
<1>1. Counters'
  BY DEF IInv, Counters
<1>2. Transfer'
  BY DEF IInv, Transfer, HostOffset, HostOutput
<1>3. Data'
  BY DEF IInv, Data, HostOffset, HostOutput, HasPattern
<1> QED BY <1>1, <1>2, <1>3

LEMMA FillWedStep == IInv /\ FillWed => IInv'
<1> SUFFICES ASSUME IInv, FillWed PROVE IInv'
  OBVIOUS
<1>1. PICK offset \in OFFSETS, given \in BOOLEAN :
        /\ Load(given)
        /\ Store([a \in {htop(WED_AT), htop(WED_AT + 1)} |->
             IF a = htop(WED_AT) THEN offset ELSE IF given THEN OUTPUT_AT ELSE 0])
  BY DEF FillWed
<1>2. /\ pc = "idle" /\ job = "none" /\ host = "load" /\ host' = "open"
      /\ UNCHANGED << pc, id, job, pending, held >>
  BY <1>1 DEF IInv, FillWed, Load, Control
<1>3. /\ HostOffset' = offset /\ HostOutput' = IF given THEN OUTPUT_AT ELSE 0
      /\ mem' = [a \in Addr |-> mem'[a]]
  BY <1>1, Bounds, HostAddresses DEF Store, HostOffset, HostOutput, HostWindow
<1>4. "output" \in owned' <=> given
  BY <1>1, <1>2 DEF IInv, Wed, Load
<1>5. Control'
  BY <1>2 DEF IInv, Control
<1>6. Wed'
  BY <1>2, <1>3, <1>4, HostAddresses DEF Wed, Filled
<1>7. Counters'
  BY <1>2 DEF IInv, Counters
<1>8. Transfer' /\ Data'
  BY <1>2, <1>3 DEF Transfer, Data
<1> QED BY <1>5, <1>6, <1>7, <1>8 DEF IInv

LEMMA HostMovesStep == IInv /\ HostMoves => IInv'
<1> SUFFICES ASSUME IInv, HostMoves PROVE IInv'
  OBVIOUS
<1>1. HostOffset' = HostOffset /\ HostOutput' = HostOutput
  BY DEF HostMoves, HostOffset, HostOutput
<1>2. Control' /\ (pc' = pc \/ (pc = "idle" /\ pc' = "fill"))
  BY DEF IInv, HostMoves, HostStep, Usage, LoadFails, Open, OpenFails, Launch, LaunchFails,
         WaitAll, Report, Control, PC
<1>3. Wed'
  BY <1>1 DEF IInv, HostMoves, HostStep, Usage, LoadFails, Open, OpenFails, Launch, LaunchFails,
              WaitAll, Report, Wed, Filled
<1>4. Counters' /\ Transfer' /\ Data'
  BY <1>2, JobUntouched DEF HostMoves
<1> QED BY <1>2, <1>3, <1>4 DEF IInv

-----------------------------------------------------------------------------
(* The job's steps.                                                        *)

\* What the WED names while the job runs.
LEMMA Named ==
  ASSUME IInv, pc # "idle"
  PROVE  /\ Filled /\ HostOffset \in OFFSETS /\ HostOutput \in {0, OUTPUT_AT}
         /\ ddr_base + HostOffset \in Nat /\ htop(HostOutput) \in HostWindow
BY Dram, HostAddresses DEF IInv, Control, Wed, Filled

\* A step of the job that is not its last leaves the host's invariants alone.
LEMMA HostUntouched ==
  ASSUME IInv, UNCHANGED << hostVars, HostOffset, HostOutput >>,
         pc \notin {"idle", "over"}, pc' \in PC \ {"idle", "over"}
  PROVE  Control' /\ Wed'
BY DEF IInv, Control, Wed, Filled, hostVars

\* plp_dma_memcpy at a point where no counter but the last is taken.
LEMMA OneTransfer ==
  ASSUME IInv, NEW used \in {held, Release(id)}, NEW from, NEW to, NEW n,
         plp_dma_memcpy(used, from, to, n), id' = NextCounter(used),
         used = {}, held = {} \/ pending[id] = {},
         pc' \in {"write", "destroy", "answer", "finish"}
  PROVE  Counters' /\ pending'[id'] = Moves(from, to, n)
<1>1. /\ id' \in Counter \ used /\ held' = used \cup {id'}
      /\ pending'[id'] = Moves(from, to, n)
      /\ \A c \in Counter \ {id'} : pending'[c] = pending[c]
      /\ pending' = [c \in Counter |-> pending'[c]]
  BY MemcpyTakes DEF IInv, Counters
<1>2. \A c \in Counter : pending[c] = {}
  BY DEF IInv, Counters
<1> QED BY <1>1, <1>2 DEF Counters

LEMMA FillStep == IInv /\ Fill => IInv'
<1> SUFFICES ASSUME IInv, Fill PROVE IInv'
  OBVIOUS
<1>1. /\ mem' = [a \in Addr |-> IF a \in Buff .. LocalAnswer
           THEN IF a < LocalWed THEN Pattern(a - Buff) ELSE IF a = LocalAnswer THEN BABEFACE ELSE 0
           ELSE mem[a]]
      /\ pc = "fill" /\ pc' = "load" /\ UNCHANGED << hostVars, id, pending, held >>
  <2>1. \A a \in DOMAIN [a \in Buff .. LocalAnswer |->
          IF a < LocalWed THEN Pattern(a - Buff) ELSE IF a = LocalAnswer THEN BABEFACE ELSE 0] :
          a \in Buff .. LocalAnswer
    OBVIOUS
  <2> QED BY <2>1 DEF Fill, Store
<1>2. HostOffset' = HostOffset /\ HostOutput' = HostOutput
  BY <1>1, HostAddresses, Bounds DEF HostOffset, HostOutput, HostWindow
<1>3. Control' /\ Wed'
  BY <1>1, <1>2, HostUntouched DEF PC
<1>4. Counters'
  BY <1>1 DEF IInv, Counters
<1>5. Transfer'
  BY <1>1 DEF Transfer
<1>6. Data'
  <2>1. HasPattern(mem', Buff)
    BY <1>1, Bounds DEF HasPattern
  <2>2. mem'[LocalAnswer] = BABEFACE /\ mem' = [a \in Addr |-> mem'[a]]
    BY <1>1, Bounds
  <2> QED BY <1>1, <2>1, <2>2 DEF Data
<1> QED BY <1>3, <1>4, <1>5, <1>6 DEF IInv

LEMMA LoadWedStep == IInv /\ LoadWed => IInv'
<1> SUFFICES ASSUME IInv, LoadWed PROVE IInv'
  OBVIOUS
<1>1. /\ pc = "load" /\ pc' = "write" /\ UNCHANGED << hostVars, mem >> /\ held = {}
      /\ plp_dma_memcpy(held, htop(WED_AT), LocalWed, 2) /\ id' = NextCounter(held)
  BY DEF IInv, LoadWed, Start, Counters
<1>2. HostOffset' = HostOffset /\ HostOutput' = HostOutput
  BY <1>1 DEF HostOffset, HostOutput
<1>3. Control' /\ Wed'
  BY <1>1, <1>2, HostUntouched DEF PC
<1>4. Counters' /\ pending'[id'] = Moves(htop(WED_AT), LocalWed, 2)
  BY <1>1, OneTransfer
<1>5. Transfer'
  <2>1. Flow(pending', mem', id', htop(WED_AT), LocalWed, 2)
    BY <1>4, FlowStarts, HostAddresses, Bounds DEF HostWindow
  <2> QED BY <1>1, <2>1 DEF Transfer
<1>6. Data'
  BY <1>1 DEF IInv, Data, HasPattern
<1> QED BY <1>3, <1>4, <1>5, <1>6 DEF IInv

LEMMA WritePatternStep == IInv /\ WritePattern => IInv'
<1> SUFFICES ASSUME IInv, WritePattern PROVE IInv'
  OBVIOUS
<1>1. /\ pc = "write" /\ pc' = "destroy" /\ UNCHANGED << hostVars, mem >>
      /\ pending[id] = {} /\ Release(id) = {}
      /\ plp_dma_memcpy(Release(id), Buff, ddr_base + mem[LocalWed], BUFF_SIZE)
      /\ id' = NextCounter(Release(id))
  BY DEF IInv, WritePattern, WaitAndStart, Waited, Release, address, Counters
<1>2. HostOffset' = HostOffset /\ HostOutput' = HostOutput
  BY <1>1 DEF HostOffset, HostOutput
<1>3. mem[LocalWed] = HostOffset /\ mem[LocalWed + 1] = HostOutput
  <2>1. \A i \in 0 .. 1 : mem[LocalWed + i] = mem[htop(WED_AT) + i]
    BY <1>1, FlowOver DEF IInv, Transfer
  <2>2. LocalWed + 0 = LocalWed /\ htop(WED_AT) + 0 = htop(WED_AT)
    BY HostAddresses, Bounds DEF HostWindow
  <2> QED BY <2>1, <2>2, HostAddresses DEF HostOffset, HostOutput
<1>4. Control' /\ Wed'
  BY <1>1, <1>2, HostUntouched DEF PC
<1>5. Counters' /\ pending'[id'] = Moves(Buff, ddr_base + HostOffset, BUFF_SIZE)
  BY <1>1, <1>3, OneTransfer
<1>6. Transfer'
  <2>1. Flow(pending', mem', id', Buff, ddr_base + HostOffset, BUFF_SIZE)
    BY <1>1, <1>5, FlowStarts, Named, Bounds
  <2> QED BY <1>1, <1>2, <2>1 DEF Transfer
<1>7. Data'
  BY <1>1, <1>2, <1>3 DEF IInv, Data, HasPattern
<1> QED BY <1>4, <1>5, <1>6, <1>7 DEF IInv

LEMMA DestroyStep == IInv /\ Destroy => IInv'
<1> SUFFICES ASSUME IInv, Destroy PROVE IInv'
  OBVIOUS
<1>1. /\ mem' = [a \in Addr |-> IF a \in Buff .. Buff + BUFF_SIZE - 1 THEN FFFFFFFF ELSE mem[a]]
      /\ pc = "destroy" /\ pc' = "read_back" /\ UNCHANGED << hostVars, id, pending >>
      /\ pending[id] = {} /\ held' = {}
  <2>1. \A a \in DOMAIN [a \in Buff .. Buff + BUFF_SIZE - 1 |-> FFFFFFFF] :
          a \in Buff .. Buff + BUFF_SIZE - 1
    OBVIOUS
  <2> QED BY <2>1 DEF IInv, Destroy, Store, Waited, Release, Counters
<1>2. /\ Agree(mem, mem', HostWindow) /\ mem' = [a \in Addr |-> mem'[a]]
      /\ Agree(mem, mem', ddr_base .. HOST_WINDOW - 1)
      /\ Agree(mem, mem', {LocalWed, LocalWed + 1, LocalAnswer})
  <2>1. \A a \in Addr : a \notin Buff .. Buff + BUFF_SIZE - 1 => mem'[a] = mem[a]
    BY <1>1
  <2>2. mem' = [a \in Addr |-> mem'[a]]
    BY <1>1
  <2>3. Agree(mem, mem', HostWindow)
    BY <2>1, Bounds DEF Agree, HostWindow
  <2>4. Agree(mem, mem', ddr_base .. HOST_WINDOW - 1)
    BY <2>1, Bounds DEF Agree
  <2>5. Agree(mem, mem', {LocalWed, LocalWed + 1, LocalAnswer})
    BY <2>1, Bounds DEF Agree
  <2> QED BY <2>2, <2>3, <2>4, <2>5
<1>3. HostOffset' = HostOffset /\ HostOutput' = HostOutput
  BY <1>2, HostAddresses DEF Agree, HostOffset, HostOutput
<1>4. Control' /\ Wed'
  BY <1>1, <1>3, HostUntouched DEF PC
<1>5. Counters'
  BY <1>1 DEF IInv, Counters
<1>6. Transfer'
  BY <1>1 DEF Transfer
<1>7. HasPattern(mem', ddr_base + HostOffset)
  <2>1. \A i \in 0 .. BUFF_SIZE - 1 : mem[(ddr_base + HostOffset) + i] = mem[Buff + i]
    BY <1>1 DEF IInv, Transfer, Flow
  <2>2. HasPattern(mem, ddr_base + HostOffset)
    BY <1>1, <2>1 DEF IInv, Data, HasPattern
  <2>3. HostOffset \in OFFSETS /\ ddr_base + HostOffset \in Nat
    BY <1>1, Named
  <2>4. Agree(mem, mem', Block(ddr_base + HostOffset, BUFF_SIZE))
    BY <1>2, <2>3, Dram DEF Agree
  <2> QED BY <2>2, <2>3, <2>4, PatternKept
<1>8. Data'
  BY <1>1, <1>2, <1>3, <1>7 DEF IInv, Data, Agree
<1> QED BY <1>4, <1>5, <1>6, <1>8 DEF IInv

LEMMA ReadBackStep == IInv /\ ReadBack => IInv'
<1> SUFFICES ASSUME IInv, ReadBack PROVE IInv'
  OBVIOUS
<1>1. /\ pc = "read_back" /\ pc' = "answer" /\ UNCHANGED << hostVars, mem >> /\ held = {}
      /\ mem[LocalWed] = HostOffset
      /\ plp_dma_memcpy(held, ddr_base + HostOffset, Buff, BUFF_SIZE) /\ id' = NextCounter(held)
  BY DEF IInv, ReadBack, Start, address, Counters, Data
<1>2. HostOffset' = HostOffset /\ HostOutput' = HostOutput
  BY <1>1 DEF HostOffset, HostOutput
<1>3. Control' /\ Wed'
  BY <1>1, <1>2, HostUntouched DEF PC
<1>4. Counters' /\ pending'[id'] = Moves(ddr_base + HostOffset, Buff, BUFF_SIZE)
  BY <1>1, OneTransfer
<1>5. Transfer'
  <2>1. Flow(pending', mem', id', ddr_base + HostOffset, Buff, BUFF_SIZE)
    BY <1>4 DEF Flow, Moves
  <2> QED BY <1>1, <1>2, <2>1 DEF Transfer
<1>6. Data'
  BY <1>1, <1>2 DEF IInv, Data, HasPattern
<1> QED BY <1>3, <1>4, <1>5, <1>6 DEF IInv

LEMMA AnswerStep == IInv /\ Answer => IInv'
<1> SUFFICES ASSUME IInv, Answer PROVE IInv'
  OBVIOUS
<1>1. /\ pc = "answer" /\ pc' = "finish" /\ UNCHANGED << hostVars, mem >>
      /\ pending[id] = {} /\ Release(id) = {}
      /\ mem[LocalWed + 1] = HostOutput
      /\ plp_dma_memcpy(Release(id), LocalAnswer, htop(HostOutput), 1)
      /\ id' = NextCounter(Release(id))
  BY DEF IInv, Answer, WaitAndStart, Waited, Release, Counters, Data
<1>2. HostOffset' = HostOffset /\ HostOutput' = HostOutput
  BY <1>1 DEF HostOffset, HostOutput
<1>3. Control' /\ Wed'
  BY <1>1, <1>2, HostUntouched DEF PC
<1>4. Counters' /\ pending'[id'] = Moves(LocalAnswer, htop(HostOutput), 1)
  BY <1>1, OneTransfer
<1>5. Transfer'
  <2>1. Flow(pending', mem', id', LocalAnswer, htop(HostOutput), 1)
    BY <1>1, <1>4, FlowStarts, Named, Bounds DEF HostWindow
  <2> QED BY <1>1, <1>2, <2>1 DEF Transfer
<1>6. HasPattern(mem, Buff)
  <2>1. \A i \in 0 .. BUFF_SIZE - 1 : mem[Buff + i] = mem[(ddr_base + HostOffset) + i]
    BY <1>1 DEF IInv, Transfer, Flow
  <2> QED BY <1>1, <2>1 DEF IInv, Data, HasPattern
<1>7. Data'
  BY <1>1, <1>2, <1>6 DEF IInv, Data, HasPattern
<1> QED BY <1>3, <1>4, <1>5, <1>7 DEF IInv

LEMMA FinishStep == IInv /\ Finish => IInv'
<1> SUFFICES ASSUME IInv, Finish PROVE IInv'
  OBVIOUS
<1>1. /\ pc = "finish" /\ pc' = "over" /\ job' = "over" /\ job = "running"
      /\ UNCHANGED << host, owned, id, mem, pending >>
      /\ pending[id] = {} /\ held' = {}
  BY DEF IInv, Finish, Waited, Release, Counters, Control
<1>2. HostOffset' = HostOffset /\ HostOutput' = HostOutput
  BY <1>1 DEF HostOffset, HostOutput
<1>3. Control' /\ Wed'
  BY <1>1, <1>2 DEF IInv, Control, PC, Wed, Filled
<1>4. Counters' /\ Transfer'
  BY <1>1 DEF IInv, Counters, Transfer
<1>5. mem[htop(HostOutput)] = BABEFACE
  <2>1. mem[htop(HostOutput) + 0] = mem[LocalAnswer + 0]
    BY <1>1 DEF IInv, Transfer, Flow
  <2>2. htop(HostOutput) + 0 = htop(HostOutput) /\ LocalAnswer + 0 = LocalAnswer
    BY <1>1, Named, Bounds DEF HostWindow
  <2> QED BY <1>1, <2>1, <2>2 DEF IInv, Data
<1>6. Data'
  BY <1>1, <1>2, <1>5 DEF IInv, Data, HasPattern
<1> QED BY <1>3, <1>4, <1>6 DEF IInv

-----------------------------------------------------------------------------
(* The engine's step.                                                      *)

\* The counter that moves is the job's, and the step writes one address of the
\* block its transfer goes to.
LEMMA EngineMoves ==
  ASSUME IInv, Move, NEW from \in Nat, NEW to \in Nat, NEW n \in Nat,
         Flow(pending, mem, id, from, to, n),
         Block(from, n) \cup Block(to, n) \subseteq Addr,
         Block(from, n) \cap Block(to, n) = {}
  PROVE  /\ Counters' /\ mem' = [a \in Addr |-> mem'[a]]
         /\ Flow(pending', mem', id', from, to, n)
         /\ Agree(mem, mem', Addr \ Block(to, n))
         /\ pc \in {"write", "destroy", "answer", "finish"}
<1>1. PICK c \in Counter : \E move \in pending[c] :
        /\ mem' = [mem EXCEPT ![move[2]] = mem[move[1]]]
        /\ pending' = [pending EXCEPT ![c] = @ \ {move}]
  BY DEF Move, DmaMove
<1>2. PICK move \in pending[c] :
        /\ mem' = [mem EXCEPT ![move[2]] = mem[move[1]]]
        /\ pending' = [pending EXCEPT ![c] = @ \ {move}]
  BY <1>1
<1>3. /\ pending = [d \in Counter |-> pending[d]] /\ mem = [a \in Addr |-> mem[a]]
      /\ c = id /\ held = {id} /\ pc \in {"write", "destroy", "answer", "finish"}
      /\ UNCHANGED << hostVars, pc, id, held >>
  BY <1>2 DEF IInv, Counters, Data, Move, DmaMove
<1>4. move[1] \in Block(from, n) /\ move[2] \in Block(to, n)
  BY <1>3, FlowEnds
<1>5. mem'[move[2]] = mem[move[1]] /\ Agree(mem, mem', Addr \ {move[2]})
  BY <1>2, <1>3, <1>4 DEF Agree
<1>6. DOMAIN mem = Addr /\ pending'[id] = pending[id] \ {move}
  BY <1>2, <1>3
<1>7. Flow(pending', mem', id, from, to, n)
  <2>1. /\ move \in pending[id] /\ Agree(mem, mem', DOMAIN mem \ {move[2]})
        /\ Block(from, n) \cup Block(to, n) \subseteq DOMAIN mem
    BY <1>3, <1>5, <1>6
  <2> QED BY <1>5, <1>6, <2>1, FlowMoves
<1>8. Counters'
  BY <1>2, <1>3 DEF IInv, Counters
<1>9. mem' = [a \in Addr |-> mem'[a]]
  BY <1>2, <1>3
<1>10. Agree(mem, mem', Addr \ Block(to, n))
  BY <1>4, <1>5 DEF Agree
<1> QED BY <1>3, <1>7, <1>8, <1>9, <1>10

LEMMA MoveStep == IInv /\ Move => IInv'
<1> SUFFICES ASSUME IInv, Move PROVE IInv'
  OBVIOUS
<1>1. UNCHANGED << hostVars, pc, id, held >>
  BY DEF Move, DmaMove
<1>2. pc \in {"write", "destroy", "answer", "finish"}
  BY DEF IInv, Counters, Move, DmaMove
<1>3. /\ Filled /\ HostOffset \in OFFSETS /\ ddr_base + HostOffset \in Nat
      /\ htop(HostOutput) \in HostWindow
      /\ htop(HostOutput) # htop(WED_AT) /\ htop(HostOutput) # htop(WED_AT + 1)
  BY <1>2, Named, HostAddresses
<1>4. /\ HostWindow \subseteq Addr /\ \A a \in HostWindow : Block(a, 1) = {a}
      /\ Block(LocalAnswer, 1) = {LocalAnswer} /\ LocalAnswer \in Addr
      /\ Block(Buff, BUFF_SIZE) \subseteq Addr /\ Block(LocalWed, 2) \subseteq Addr
      /\ Block(LocalWed, 2) = {LocalWed, LocalWed + 1}
      /\ Block(htop(WED_AT), 2) = {htop(WED_AT), htop(WED_AT + 1)}
  BY Bounds, HostAddresses DEF Block, HostWindow
<1>5. Block(ddr_base + HostOffset, BUFF_SIZE) \subseteq ddr_base .. HOST_WINDOW - 1
  BY <1>3, Dram
<1>6. /\ \A a \in Block(Buff, BUFF_SIZE) : a < LocalWed
      /\ \A a \in Block(ddr_base + HostOffset, BUFF_SIZE) :
           a \in Addr /\ LocalAnswer < a /\ a < HOST_WINDOW
      /\ \A a \in HostWindow : ~ (a < HOST_WINDOW) /\ LocalAnswer < a
      /\ \A a \in {LocalWed, LocalWed + 1} :
           a < LocalAnswer /\ ~ (a < LocalWed) /\ a \notin HostWindow
      /\ ~ (LocalAnswer < LocalAnswer) /\ ~ (LocalAnswer < LocalWed)
  BY <1>5, Bounds DEF Block, HostWindow
<1>7. CASE pc = "write"
  <2>1. Flow(pending, mem, id, htop(WED_AT), LocalWed, 2)
    BY <1>7 DEF IInv, Transfer
  <2>2. /\ Counters' /\ mem' = [a \in Addr |-> mem'[a]]
        /\ Flow(pending', mem', id', htop(WED_AT), LocalWed, 2)
        /\ Agree(mem, mem', Addr \ Block(LocalWed, 2))
    <3>1. /\ Block(htop(WED_AT), 2) \cup Block(LocalWed, 2) \subseteq Addr
          /\ Block(htop(WED_AT), 2) \cap Block(LocalWed, 2) = {}
      BY <1>4, <1>6, HostAddresses
    <3>2. htop(WED_AT) \in Nat /\ LocalWed \in Nat
      BY HostAddresses, Bounds DEF HostWindow
    <3> QED BY <2>1, <3>1, <3>2, EngineMoves
  <2>3. HostOffset' = HostOffset /\ HostOutput' = HostOutput
    BY <2>2, <1>4, <1>6, HostAddresses DEF Agree, HostOffset, HostOutput
  <2>4. HasPattern(mem', Buff) /\ mem'[LocalAnswer] = mem[LocalAnswer]
    <3>1. Agree(mem, mem', Block(Buff, BUFF_SIZE))
      BY <2>2, <1>4, <1>6 DEF Agree
    <3>2. HasPattern(mem, Buff)
      BY <1>7 DEF IInv, Data
    <3>3. mem'[LocalAnswer] = mem[LocalAnswer]
      BY <2>2, <1>4, <1>6 DEF Agree
    <3> QED BY <3>1, <3>2, <3>3, PatternKept, Bounds
  <2>5. Control' /\ Wed'
    BY <1>1, <1>7, <2>3, HostUntouched DEF PC
  <2>6. Transfer' /\ Data'
    BY <1>1, <1>7, <2>2, <2>3, <2>4 DEF IInv, Transfer, Data
  <2> QED BY <2>2, <2>5, <2>6 DEF IInv
<1>8. CASE pc = "destroy"
  <2>1. Flow(pending, mem, id, Buff, ddr_base + HostOffset, BUFF_SIZE)
    BY <1>8 DEF IInv, Transfer
  <2>2. /\ Counters' /\ mem' = [a \in Addr |-> mem'[a]]
        /\ Flow(pending', mem', id', Buff, ddr_base + HostOffset, BUFF_SIZE)
        /\ Agree(mem, mem', Addr \ Block(ddr_base + HostOffset, BUFF_SIZE))
    <3>1. /\ Block(Buff, BUFF_SIZE) \cup Block(ddr_base + HostOffset, BUFF_SIZE) \subseteq Addr
          /\ Block(Buff, BUFF_SIZE) \cap Block(ddr_base + HostOffset, BUFF_SIZE) = {}
      BY <1>4, <1>6, Bounds, <1>5
    <3>2. Buff \in Nat /\ BUFF_SIZE \in Nat
      BY Bounds
    <3> QED BY <2>1, <3>1, <3>2, <1>3, EngineMoves
  <2>3. HostOffset' = HostOffset /\ HostOutput' = HostOutput
    BY <2>2, <1>4, <1>6, HostAddresses DEF Agree, HostOffset, HostOutput
  <2>4. HasPattern(mem', Buff) /\ Agree(mem, mem', {LocalWed, LocalWed + 1, LocalAnswer})
    <3>1. Agree(mem, mem', Block(Buff, BUFF_SIZE))
      BY <2>2, <1>4, <1>6, <1>5, Bounds DEF Agree
    <3>2. HasPattern(mem, Buff)
      BY <1>8 DEF IInv, Data
    <3>3. Agree(mem, mem', {LocalWed, LocalWed + 1, LocalAnswer})
      BY <2>2, <1>4, <1>6, <1>5, Bounds DEF Agree
    <3> QED BY <3>1, <3>2, <3>3, PatternKept, Bounds
  <2>5. Control' /\ Wed'
    BY <1>1, <1>8, <2>3, HostUntouched DEF PC
  <2>6. Transfer'
    BY <1>1, <1>8, <2>2, <2>3 DEF Transfer
  <2>7. Data'
    BY <1>1, <1>8, <2>2, <2>3, <2>4 DEF IInv, Data, Agree
  <2> QED BY <2>2, <2>5, <2>6, <2>7 DEF IInv
<1>9. CASE pc = "answer"
  <2>1. Flow(pending, mem, id, ddr_base + HostOffset, Buff, BUFF_SIZE)
    BY <1>9 DEF IInv, Transfer
  <2>2. /\ Counters' /\ mem' = [a \in Addr |-> mem'[a]]
        /\ Flow(pending', mem', id', ddr_base + HostOffset, Buff, BUFF_SIZE)
        /\ Agree(mem, mem', Addr \ Block(Buff, BUFF_SIZE))
    <3>1. /\ Block(ddr_base + HostOffset, BUFF_SIZE) \cup Block(Buff, BUFF_SIZE) \subseteq Addr
          /\ Block(ddr_base + HostOffset, BUFF_SIZE) \cap Block(Buff, BUFF_SIZE) = {}
      BY <1>4, <1>6, Bounds, <1>5
    <3>2. Buff \in Nat /\ BUFF_SIZE \in Nat
      BY Bounds
    <3> QED BY <2>1, <3>1, <3>2, <1>3, EngineMoves
  <2>3. HostOffset' = HostOffset /\ HostOutput' = HostOutput
    BY <2>2, <1>4, <1>6, HostAddresses, Bounds DEF Agree, HostOffset, HostOutput, HostWindow
  <2>4. /\ HasPattern(mem', ddr_base + HostOffset)
        /\ Agree(mem, mem', {LocalWed, LocalWed + 1, LocalAnswer})
    <3>1. Agree(mem, mem', Block(ddr_base + HostOffset, BUFF_SIZE))
      BY <2>2, <1>4, <1>6, <1>5, Bounds DEF Agree
    <3>2. HasPattern(mem, ddr_base + HostOffset)
      BY <1>9 DEF IInv, Data
    <3>3. Agree(mem, mem', {LocalWed, LocalWed + 1, LocalAnswer})
      BY <2>2, <1>4, <1>6 DEF Agree
    <3> QED BY <3>1, <3>2, <3>3, PatternKept, <1>3
  <2>5. Control' /\ Wed'
    BY <1>1, <1>9, <2>3, HostUntouched DEF PC
  <2>6. Transfer'
    BY <1>1, <1>9, <2>2, <2>3 DEF Transfer
  <2>7. Data'
    BY <1>1, <1>9, <2>2, <2>3, <2>4 DEF IInv, Data, Agree
  <2> QED BY <2>2, <2>5, <2>6, <2>7 DEF IInv
<1>10. CASE pc = "finish"
  <2>1. Flow(pending, mem, id, LocalAnswer, htop(HostOutput), 1)
    BY <1>10 DEF IInv, Transfer
  <2>2. /\ Counters' /\ mem' = [a \in Addr |-> mem'[a]]
        /\ Flow(pending', mem', id', LocalAnswer, htop(HostOutput), 1)
        /\ Agree(mem, mem', Addr \ {htop(HostOutput)})
    <3>1. /\ Block(LocalAnswer, 1) \cup Block(htop(HostOutput), 1) \subseteq Addr
          /\ Block(LocalAnswer, 1) \cap Block(htop(HostOutput), 1) = {}
      BY <1>3, <1>4, <1>6
    <3>2. LocalAnswer \in Nat /\ htop(HostOutput) \in Nat
      BY <1>3, Bounds DEF HostWindow
    <3> QED BY <2>1, <3>1, <3>2, <1>3, <1>4, EngineMoves
  <2>3. HostOffset' = HostOffset /\ HostOutput' = HostOutput
    BY <2>2, <1>3, <1>4, HostAddresses DEF Agree, HostOffset, HostOutput
  <2>4. /\ HasPattern(mem', ddr_base + HostOffset) /\ HasPattern(mem', Buff)
        /\ Agree(mem, mem', {LocalWed, LocalWed + 1, LocalAnswer})
    <3>1. Agree(mem, mem', Block(ddr_base + HostOffset, BUFF_SIZE))
      BY <2>2, <1>3, <1>6 DEF Agree
    <3>2. Agree(mem, mem', Block(Buff, BUFF_SIZE))
      BY <2>2, <1>3, <1>4, Bounds DEF Agree, Block, HostWindow
    <3>3. HasPattern(mem, ddr_base + HostOffset) /\ HasPattern(mem, Buff)
      BY <1>10 DEF IInv, Data
    <3>4. Agree(mem, mem', {LocalWed, LocalWed + 1, LocalAnswer})
      BY <2>2, <1>3, Bounds DEF Agree, HostWindow
    <3> QED BY <3>1, <3>2, <3>3, <3>4, PatternKept, <1>3, Bounds
  <2>5. Control' /\ Wed'
    BY <1>1, <1>10, <2>3, HostUntouched DEF PC
  <2>6. Transfer'
    BY <1>1, <1>10, <2>2, <2>3 DEF Transfer
  <2>7. Data'
    BY <1>1, <1>10, <2>2, <2>3, <2>4 DEF IInv, Data, Agree
  <2> QED BY <2>2, <2>5, <2>6, <2>7 DEF IInv
<1> QED BY <1>2, <1>7, <1>8, <1>9, <1>10

-----------------------------------------------------------------------------
(* The theorems.                                                           *)

LEMMA StepIInv == IInv /\ [Next]_vars => IInv'
<1> SUFFICES ASSUME IInv, [Next]_vars PROVE IInv'
  OBVIOUS
<1>1. CASE FillWed
  BY <1>1, FillWedStep
<1>2. CASE HostMoves
  BY <1>2, HostMovesStep
<1>3. CASE Job
  BY <1>3, FillStep, LoadWedStep, WritePatternStep, DestroyStep, ReadBackStep, AnswerStep,
     FinishStep DEF Job
<1>4. CASE Move
  BY <1>4, MoveStep
<1>5. CASE UNCHANGED vars
  BY <1>5 DEF vars, hostVars, IInv, Control, Wed, Filled, Counters, Transfer, Data, Flow,
              HasPattern, HostOffset, HostOutput
<1> QED BY <1>1, <1>2, <1>3, <1>4, <1>5 DEF Next, Stopped

\* Wherever the job is, what its transfers carry is what the host asked for:
\* the invariant of main of rw/pulp/test.c and its host.
THEOREM JobInvariant == Spec => []IInv
<1>1. Init => IInv
  BY InitIInv
<1>2. IInv /\ [Next]_vars => IInv'
  BY StepIInv
<1> QED BY <1>1, <1>2, PTL DEF Spec

\* Once main has waited for its read back, the destroyed buffer and the external
\* memory hold the pattern, for any size of the buffer and any offset.
THEOREM PatternIsBack == Spec => []PatternComesBack
<1>1. ASSUME IInv PROVE PatternComesBack
  <2>1. Buff \in Int
    BY Bounds
  <2> QED BY <1>1, <2>1 DEF IInv, Data, HasPattern, HostOffset, PatternComesBack
<1> QED BY <1>1, JobInvariant, PTL

\* Main of the host and main of the job between them: the WED stays as it was
\* filled and, while the job runs, nothing but the answer reaches the host.
KeepsHostMemory ==
  \A a \in HOST_WINDOW .. 2 * HOST_WINDOW - 1 :
    mem'[a] # mem[a] =>
      \/ host = "load" /\ a \in {htop(WED_AT), htop(WED_AT + 1)}
      \/ job = "running" /\ a = htop(mem[htop(WED_AT + 1)])

LEMMA LocalStores ==
  ASSUME IInv, NEW writes, DOMAIN writes \subseteq Addr \ HostWindow, Store(writes)
  PROVE  KeepsHostMemory
<1>1. \A a \in Addr : a \notin DOMAIN writes => mem'[a] = mem[a]
  BY DEF Store
<1> QED BY <1>1, Bounds DEF KeepsHostMemory, HostWindow

LEMMA EngineKeepsHost == IInv /\ Move => KeepsHostMemory
<1> SUFFICES ASSUME IInv, Move PROVE KeepsHostMemory
  OBVIOUS
<1>1. PICK c \in Counter : \E move \in pending[c] :
        /\ mem' = [mem EXCEPT ![move[2]] = mem[move[1]]]
        /\ pending' = [pending EXCEPT ![c] = @ \ {move}]
  BY DEF Move, DmaMove
<1>2. PICK move \in pending[c] : mem' = [mem EXCEPT ![move[2]] = mem[move[1]]]
  BY <1>1
<1>3. /\ c = id /\ pc \in {"write", "destroy", "answer", "finish"}
      /\ mem = [a \in Addr |-> mem[a]]
  BY <1>2 DEF IInv, Counters, Data
<1>4. \A a \in Addr : a # move[2] => mem'[a] = mem[a]
  BY <1>2, <1>3
<1>5. HostWindow \subseteq Addr
  BY Bounds DEF HostWindow
<1>6. /\ HostOffset \in OFFSETS /\ ddr_base + HostOffset \in Nat
      /\ htop(HostOutput) \in HostWindow
  BY <1>3, Named
<1>7. CASE pc = "finish"
  <2>1. job = "running"
    BY <1>7 DEF IInv, Control
  <2>2. Flow(pending, mem, c, LocalAnswer, htop(HostOutput), 1)
    BY <1>3, <1>7 DEF IInv, Transfer
  <2>3. move[2] = htop(HostOutput)
    <3>1. move[2] \in Block(htop(HostOutput), 1)
      BY <2>2, <1>6, FlowEnds, Bounds DEF HostWindow
    <3> QED BY <3>1, <1>6, Bounds DEF Block, HostWindow
  <2> QED BY <2>1, <2>3, <1>4, <1>5 DEF KeepsHostMemory, HostOutput, HostWindow
<1>8. CASE pc # "finish"
  <2>1. move[2] \notin HostWindow
    <3>1. CASE pc = "write"
      <4>1. Flow(pending, mem, c, htop(WED_AT), LocalWed, 2)
        BY <1>3, <3>1 DEF IInv, Transfer
      <4>2. htop(WED_AT) \in Int /\ LocalWed \in Int
        BY HostAddresses, Bounds DEF HostWindow
      <4>3. move[2] \in Block(LocalWed, 2)
        BY <4>1, <4>2, FlowEnds
      <4> QED BY <4>3, Bounds DEF Block, HostWindow
    <3>2. CASE pc = "destroy"
      <4>1. Flow(pending, mem, c, Buff, ddr_base + HostOffset, BUFF_SIZE)
        BY <1>3, <3>2 DEF IInv, Transfer
      <4>2. move[2] \in Block(ddr_base + HostOffset, BUFF_SIZE)
        BY <4>1, <1>6, Bounds, FlowEnds
      <4> QED BY <4>2, <1>6, Dram, Bounds DEF HostWindow
    <3>3. CASE pc = "answer"
      <4>1. Flow(pending, mem, c, ddr_base + HostOffset, Buff, BUFF_SIZE)
        BY <1>3, <3>3 DEF IInv, Transfer
      <4>2. move[2] \in Block(Buff, BUFF_SIZE)
        BY <4>1, <1>6, Bounds, FlowEnds
      <4> QED BY <4>2, Bounds DEF Block, HostWindow
    <3> QED BY <1>3, <1>8, <3>1, <3>2, <3>3
  <2> QED BY <2>1, <1>4, <1>5 DEF KeepsHostMemory, HostWindow
<1> QED BY <1>7, <1>8

LEMMA StepKeepsHost == IInv /\ [Next]_vars => KeepsHostMemory
<1> SUFFICES ASSUME IInv, [Next]_vars PROVE KeepsHostMemory
  OBVIOUS
<1>1. CASE FillWed
  <2>1. host = "load"
    BY <1>1 DEF FillWed, Load
  <2>2. \A a \in Addr : a \notin {htop(WED_AT), htop(WED_AT + 1)} => mem'[a] = mem[a]
    BY <1>1 DEF FillWed, Store
  <2> QED BY <2>1, <2>2, Bounds DEF KeepsHostMemory
<1>2. CASE HostMoves
  BY <1>2 DEF HostMoves, KeepsHostMemory
<1>3. CASE Fill
  <2>1. Buff .. LocalAnswer \subseteq Addr \ HostWindow
    BY Bounds DEF HostWindow
  <2> QED BY <1>3, <2>1, LocalStores DEF Fill
<1>4. CASE Destroy
  <2>1. Buff .. Buff + BUFF_SIZE - 1 \subseteq Addr \ HostWindow
    BY Bounds DEF HostWindow
  <2> QED BY <1>4, <2>1, LocalStores DEF Destroy
<1>5. CASE LoadWed \/ WritePattern \/ ReadBack \/ Answer \/ Finish
  BY <1>5 DEF LoadWed, WritePattern, ReadBack, Answer, Finish, Start, WaitAndStart,
              KeepsHostMemory
<1>6. CASE Move
  BY <1>6, EngineKeepsHost
<1>7. CASE UNCHANGED vars
  BY <1>7 DEF vars, KeepsHostMemory
<1> QED BY <1>1, <1>2, <1>3, <1>4, <1>5, <1>6, <1>7 DEF Next, Job, Stopped

\* Host memory changes only when main of the host fills the WED and where the
\* job's answer goes, whatever the sizes and the offset.
THEOREM HostIsLeftAlone == Spec => HostMemoryKept
<1>1. IInv /\ [Next]_vars => [KeepsHostMemory]_vars
  BY StepKeepsHost
<1>2. Spec => [][KeepsHostMemory]_vars
  BY <1>1, JobInvariant, PTL DEF Spec
<1> QED BY <1>2 DEF HostMemoryKept, KeepsHostMemory

-----------------------------------------------------------------------------
(* The safety part of Offload.  That an answer does come is liveness.      *)

\* What Offload sees of a state.
Question == IF Phase \in {"idle", "refused"} THEN NoOffset ELSE mem[htop(WED_AT)]
AnswerRead == IF Phase = "answered" THEN mem[htop(OUTPUT_AT)] ELSE 0

\* A step of the job or of the engine is none of Offload's.
LEMMA NoPromiseStep ==
  ASSUME IInv, KeepsHostMemory, UNCHANGED << host, owned >>
  PROVE  UNCHANGED << Phase, Question, AnswerRead >>
<1>1. Phase' = Phase
  BY DEF Phase
<1>2. CASE Phase \in {"idle", "refused"}
  BY <1>1, <1>2 DEF Question, AnswerRead
<1>3. CASE Phase \notin {"idle", "refused"}
  <2>1. Filled /\ host # "load" /\ job # "none"
    BY <1>3 DEF IInv, Control, Phase, Filled
  <2>2. mem'[htop(WED_AT)] = mem[htop(WED_AT)]
    <3>1. HostOutput \in {0, OUTPUT_AT}
      BY <2>1 DEF IInv, Wed
    <3> QED BY <2>1, <3>1, HostAddresses DEF KeepsHostMemory, HostOutput, HostWindow
  <2>3. Phase = "answered" => mem'[htop(OUTPUT_AT)] = mem[htop(OUTPUT_AT)]
    <3>1. Phase = "answered" => job # "running"
      BY DEF IInv, Control, Phase
    <3> QED BY <2>1, <3>1, HostAddresses DEF KeepsHostMemory, HostWindow
  <2> QED BY <1>1, <2>2, <2>3 DEF Question, AnswerRead
<1> QED BY <1>2, <1>3

\* Every step of the host that is seen is one of Offload's.
LEMMA HostKeepsPromise ==
  ASSUME IInv, HostMoves
  PROVE  Promise!Next \/ UNCHANGED << Phase, Question, AnswerRead >>
<1>1. mem' = mem
  BY DEF HostMoves
<1>2. CASE Usage
  BY <1>1, <1>2 DEF Usage, Phase, Question, AnswerRead, Promise!Next, Promise!Refuse
<1>3. CASE LoadFails \/ OpenFails \/ LaunchFails
  BY <1>1, <1>3 DEF LoadFails, OpenFails, LaunchFails, Phase, Promise!Next, Promise!Refuse
<1>4. CASE Open
  BY <1>1, <1>4 DEF Open, Phase, Question, AnswerRead
<1>5. CASE Launch
  <2>1. mem[htop(WED_AT)] \in OFFSETS
    BY <1>5 DEF Launch, IInv, Wed, Filled, HostOffset
  <2> QED BY <1>1, <1>5, <2>1 DEF Launch, Phase, Promise!Next, Promise!Ask
<1>6. CASE WaitAll
  <2>1. "output" \in owned => mem[htop(OUTPUT_AT)] = BABEFACE
    BY <1>6 DEF WaitAll, IInv, Control, Wed, Data
  <2> QED BY <1>1, <1>6, <2>1 DEF WaitAll, Phase, Promise!Next, Promise!Reply, Promise!Lose
<1>7. CASE Report
  BY <1>1, <1>7 DEF Report, Phase, Question, AnswerRead
<1> QED BY <1>2, <1>3, <1>4, <1>5, <1>6, <1>7 DEF HostMoves, HostStep

LEMMA StepKeepsPromise ==
  ASSUME IInv, [Next]_vars
  PROVE  Promise!Next \/ UNCHANGED << Phase, Question, AnswerRead >>
<1>1. KeepsHostMemory
  BY StepKeepsHost
<1>2. CASE FillWed
  BY <1>2 DEF FillWed, Load, Phase, Question, AnswerRead
<1>3. CASE HostMoves
  BY <1>3, HostKeepsPromise
<1>4. CASE Job \/ Move \/ UNCHANGED vars
  <2>1. UNCHANGED << host, owned >>
    BY <1>4 DEF Job, Fill, LoadWed, WritePattern, Destroy, ReadBack, Answer, Finish, Start,
                WaitAndStart, Move, vars, hostVars
  <2> QED BY <1>1, <2>1, NoPromiseStep
<1> QED BY <1>2, <1>3, <1>4 DEF Next, Stopped

\* The host, the job and the engine keep the safety part of Offload: what the
\* host reads when its launch returns is the answer to the offset it asked for,
\* and a host that found no memory is given none.
THEOREM PromiseIsKept == Spec => Promise!Init /\ [][Promise!Next]_(Promise!offloadVars)
<1>1. Init => Promise!Init
  BY DEF Init, HostInit, Phase, Promise!Init
<1>2. ASSUME IInv, [Next]_vars PROVE [Promise!Next]_(Promise!offloadVars)
  BY <1>2, StepKeepsPromise DEF Question, AnswerRead, Promise!offloadVars
<1> QED BY <1>1, <1>2, JobInvariant, PTL DEF Spec
=============================================================================
