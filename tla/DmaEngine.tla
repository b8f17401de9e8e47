------------------------------ MODULE DmaEngine ------------------------------
(***************************************************************************)
(* The DMA engine behind plp_dma_memcpy and plp_dma_wait, as the example   *)
(* programs use it.  It is not part of the repository, so this module is   *)
(* external.  A call to plp_dma_memcpy takes a free counter, queues its    *)
(* moves and returns the counter at once; the engine makes the moves one   *)
(* by one, those of all transfers in any order; plp_dma_wait returns when  *)
(* the counter has none left, and frees it.  An address stands for a unit  *)
(* of memory the program moves as a whole: a row, a buffer, a field.       *)
(***************************************************************************)
EXTENDS Integers, FiniteSets

CONSTANT NB_COUNTERS  \* transfers the engine can keep apart

ASSUME CounterAssumption == NB_COUNTERS \in Nat \ {0}

Counter == 0 .. NB_COUNTERS - 1

VARIABLES mem,        \* contents of every address
          pending,    \* for each counter, the moves <<source, destination>> left
          held        \* counters handed out and not waited for

Moves(from, to, n) == {<< from + i, to + i >> : i \in 0 .. n - 1}

\* The counter the engine hands out when those of `used' are taken.
NextCounter(used) == CHOOSE c \in Counter \ used : \A d \in Counter \ used : c <= d

\* Without a free counter the call does not return.
plp_dma_memcpy(used, from, to, n) ==
  /\ Counter \ used # {}
  /\ pending' = [pending EXCEPT ![NextCounter(used)] = Moves(from, to, n)]
  /\ held' = used \cup {NextCounter(used)}

\* plp_dma_wait(c) returns in a state where Waited(c), with c free again.
Waited(c)  == pending[c] = {}
Release(c) == held \ {c}

DmaInit(contents) ==
  /\ mem = contents
  /\ pending = [c \in Counter |-> {}]
  /\ held = {}

\* One move of one transfer.
DmaMove ==
  \E c \in Counter : \E move \in pending[c] :
    /\ mem' = [mem EXCEPT ![move[2]] = mem[move[1]]]
    /\ pending' = [pending EXCEPT ![c] = @ \ {move}]
    /\ UNCHANGED held

InFlight == UNION {pending[c] : c \in Counter}
=============================================================================
