----------------------------- MODULE SaDdrSniffer -----------------------------
(***************************************************************************)
(* chips/oprecompkw/sa/ddr/sniffer/test.c: read the start of every         *)
(* SPY_SHIFT-th unit of the first SPY_LIMIT units of the external memory,  *)
(* and dump it.  Address base is 1; 0 is the buffer in local memory.       *)
(***************************************************************************)
EXTENDS DmaEngine

CONSTANTS SPY_SHIFT,  \* 1 MiB in the code
          SPY_LIMIT   \* 256 MiB in the code

SnifferAssumption ==
  NB_COUNTERS \in Nat \ {0} /\ SPY_SHIFT \in Nat \ {0} /\ SPY_LIMIT \in Nat \ {0} /\ SPY_LIMIT % SPY_SHIFT = 0

VARIABLES pc,       \* where main is
          id,       \* the counter of its last transfer
          address,  \* the next spying point
          turns,    \* chunks dumped
          dumped    \* the last of them

vars == << pc, id, address, turns, dumped, mem, pending, held >>

Buff == 0
base == 1

\* What is in the memory: each address has a chunk of its own.
Chunk(a) == a

TypeOK ==
  /\ pc \in {"begin", "wait", "dump", "exit_0"}
  /\ id \in Counter
  /\ address \in base .. base + SPY_LIMIT
  /\ turns \in 0 .. SPY_LIMIT
  /\ dumped \in 0 .. base + SPY_LIMIT
  /\ held \subseteq Counter

Init ==
  /\ pc = "begin" /\ id = 0 /\ address = base /\ turns = 0 /\ dumped = 0
  /\ DmaInit([a \in 0 .. base + SPY_LIMIT |-> IF a = Buff THEN 0 ELSE Chunk(a)])

-----------------------------------------------------------------------------
Read ==
  /\ pc = "begin"
  /\ plp_dma_memcpy(held, address, Buff, 1)
  /\ id' = NextCounter(held)
  /\ pc' = "wait"
  /\ UNCHANGED << address, turns, dumped, mem >>

\* Mutant: the transfer is not waited for.
Wait_NoWait ==
  /\ pc = "wait"
  /\ held' = Release(id)
  /\ pc' = "dump"
  /\ UNCHANGED << id, address, turns, dumped, mem, pending >>

Wait ==
  /\ pc = "wait"
  /\ Waited(id) /\ held' = Release(id)
  /\ pc' = "dump"
  /\ UNCHANGED << id, address, turns, dumped, mem, pending >>

\* Dump what was read, move on to the next point, and stop at the limit.
Dump ==
  /\ pc = "dump"
  /\ dumped' = mem[Buff] /\ turns' = turns + 1
  /\ address' = address + SPY_SHIFT
  /\ pc' = IF address' - base < SPY_LIMIT THEN "begin" ELSE "exit_0"
  /\ UNCHANGED << id, mem, pending, held >>

Main == Read \/ Wait \/ Dump

Move == DmaMove /\ UNCHANGED << pc, id, address, turns, dumped >>

Stopped == pc = "exit_0" /\ UNCHANGED vars

-----------------------------------------------------------------------------
\* test.c:28-30: "The first request addresses the external memory base
\* address, then the address is incremented by 1MiB each time until it reaches
\* 256MiB from the base": the n-th chunk dumped is the one at the n-th point, and
\* there are as many as points below the limit.
DumpsEveryPoint ==
  /\ turns > 0 => dumped = Chunk(base + (turns - 1) * SPY_SHIFT)
  /\ pc = "exit_0" => turns * SPY_SHIFT = SPY_LIMIT /\ held = {}
=============================================================================
