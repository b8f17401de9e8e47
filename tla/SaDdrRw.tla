-------------------------------- MODULE SaDdrRw --------------------------------
(***************************************************************************)
(* chips/oprecompkw/sa/ddr/rw/test.c: the stand-alone version of ddr/rw.   *)
(* It has no host, and waits for the read back only.  Addresses are words: *)
(* the buffer in L1 at 0, the external memory after it.                    *)
(***************************************************************************)
EXTENDS DmaEngine

CONSTANT BUFF_SIZE   \* words of the buffer: 1024

VARIABLES pc, id

vars == << pc, id, mem, pending, held >>

Buff    == 0
address == BUFF_SIZE
Addr    == 0 .. 2 * BUFF_SIZE - 1
Words   == Buff .. Buff + BUFF_SIZE - 1

EFBEADDE == 1
FECABABE == 2
FFFFFFFF == 3
Pattern(i) == IF i % 2 = 1 THEN FECABABE ELSE EFBEADDE

Init ==
  /\ pc = "write" /\ id = 0
  /\ DmaInit([a \in Addr |-> IF a \in Words THEN Pattern(a - Buff) ELSE 0])

Write ==
  /\ pc = "write"
  /\ plp_dma_memcpy(held, Buff, address, BUFF_SIZE)
  /\ id' = NextCounter(held)
  /\ pc' = "destroy"
  /\ UNCHANGED mem

Destroy ==
  /\ pc = "destroy"
  /\ mem' = [a \in Addr |-> IF a \in Words THEN FFFFFFFF ELSE mem[a]]
  /\ pc' = "read_back"
  /\ UNCHANGED << id, pending, held >>

ReadBack ==
  /\ pc = "read_back"
  /\ plp_dma_memcpy(held, address, Buff, BUFF_SIZE)
  /\ id' = NextCounter(held)
  /\ pc' = "wait"
  /\ UNCHANGED mem

Wait ==
  /\ pc = "wait"
  /\ Waited(id) /\ held' = Release(id)
  /\ pc' = "over"
  /\ UNCHANGED << id, mem, pending >>

Move == DmaMove /\ UNCHANGED << pc, id >>

Stopped == pc = "over" /\ InFlight = {} /\ UNCHANGED vars

Next == Write \/ Destroy \/ ReadBack \/ Wait \/ Move \/ Stopped

Spec == Init /\ [][Next]_vars

-----------------------------------------------------------------------------
\* test.c:23-24: the core "writes a pattern (alternating 0xbebacafe,
\* 0xdeadbeef) into the external memory and then reads it back": at the end
\* the buffer, destroyed in between, holds the pattern.
PatternComesBack ==
  pc = "over" => \A i \in 0 .. BUFF_SIZE - 1 : mem[Buff + i] = Pattern(i)
=============================================================================
