------------------------------ MODULE DmaLemmas ------------------------------
(***************************************************************************)
(* What the proofs about programs on the DMA engine rely on: which counter *)
(* a transfer gets, and what a transfer in flight has done so far.         *)
(***************************************************************************)
EXTENDS DmaEngine, TLAPS, WellFoundedInduction

\* The n addresses from `first' on.
Block(first, n) == first .. first + n - 1

\* Memories M and N agree on the addresses S.
Agree(M, N, S) == \A a \in S : N[a] = M[a]

\* The transfer of n units on counter c: what the engine has still to move, of
\* what P holds of the transfer, is not in memory M yet, and the rest is.
Flow(P, M, c, from, to, n) ==
  /\ P[c] \subseteq Moves(from, to, n)
  /\ \A i \in 0 .. n - 1 : << from + i, to + i >> \in P[c] \/ M[to + i] = M[from + i]

-----------------------------------------------------------------------------
(* Counters.                                                               *)

LowerPairs == {pair \in Nat \X Nat : pair[1] < pair[2]}

LEMMA LowerWellFounded == IsWellFoundedOn(LowerPairs, Nat)
BY NatLessThanWellFounded DEF OpToRel, LowerPairs

LEMMA LeastNatural ==
  ASSUME NEW S \in SUBSET Nat, S # {}
  PROVE  \E c \in S : \A d \in S : c <= d
<1>1. PICK c \in S : \A d \in S : ~ (<< d, c >> \in LowerPairs)
  BY LowerWellFounded, WFMin
<1>2. \A d \in S : ~ (d < c)
  BY <1>1 DEF LowerPairs
<1> QED BY <1>2

\* A transfer gets a counter that was free.
LEMMA NextIsFree ==
  ASSUME NEW used, Counter \ used # {}
  PROVE  NextCounter(used) \in Counter \ used
<1>1. Counter \ used \in SUBSET Nat
  BY CounterAssumption DEF Counter
<1>2. \E c \in Counter \ used : \A d \in Counter \ used : c <= d
  BY <1>1, LeastNatural
<1> QED BY <1>2 DEF NextCounter

\* What plp_dma_memcpy does to the counters.
LEMMA MemcpyTakes ==
  ASSUME NEW used, NEW from, NEW to, NEW n, plp_dma_memcpy(used, from, to, n),
         pending = [c \in Counter |-> pending[c]]
  PROVE  /\ NextCounter(used) \in Counter \ used
         /\ held' = used \cup {NextCounter(used)}
         /\ pending'[NextCounter(used)] = Moves(from, to, n)
         /\ \A c \in Counter \ {NextCounter(used)} : pending'[c] = pending[c]
         /\ pending' = [c \in Counter |-> pending'[c]]
<1>1. NextCounter(used) \in Counter \ used
  BY NextIsFree DEF plp_dma_memcpy
<1> QED BY <1>1 DEF plp_dma_memcpy

-----------------------------------------------------------------------------
(* Transfers.                                                              *)

\* A move of a transfer goes from its source block to its target block.
LEMMA MoveEnds ==
  ASSUME NEW from \in Int, NEW to \in Int, NEW n \in Nat, NEW move \in Moves(from, to, n)
  PROVE  \E i \in 0 .. n - 1 :
           /\ move = << from + i, to + i >>
           /\ from + i \in Block(from, n) /\ to + i \in Block(to, n)
<1>1. PICK i \in 0 .. n - 1 : move = << from + i, to + i >>
  BY DEF Moves
<1>2. from + i \in Block(from, n) /\ to + i \in Block(to, n)
  BY DEF Block
<1> QED BY <1>1, <1>2

LEMMA FlowEnds ==
  ASSUME NEW P, NEW M, NEW c, NEW from \in Int, NEW to \in Int, NEW n \in Nat,
         Flow(P, M, c, from, to, n), NEW move \in P[c]
  PROVE  /\ move[1] \in Block(from, n) /\ move[2] \in Block(to, n)
         /\ \E i \in Nat : move = << from + i, to + i >>
<1>1. move \in Moves(from, to, n)
  BY DEF Flow
<1>2. PICK i \in 0 .. n - 1 :
        /\ move = << from + i, to + i >>
        /\ from + i \in Block(from, n) /\ to + i \in Block(to, n)
  BY <1>1, MoveEnds
<1> QED BY <1>2

\* A transfer that has just been queued.
LEMMA FlowStarts ==
  ASSUME NEW P, NEW M, NEW c, NEW from \in Int, NEW to \in Int, NEW n \in Nat,
         P[c] = Moves(from, to, n)
  PROVE  Flow(P, M, c, from, to, n)
BY DEF Flow, Moves

\* A step that does not touch the transfer or its two blocks.
LEMMA FlowKept ==
  ASSUME NEW P, NEW M, NEW Q, NEW N, NEW c,
         NEW from \in Int, NEW to \in Int, NEW n \in Nat,
         Flow(P, M, c, from, to, n), Q[c] = P[c],
         Agree(M, N, Block(from, n)), Agree(M, N, Block(to, n))
  PROVE  Flow(Q, N, c, from, to, n)
<1>1. \A i \in 0 .. n - 1 : /\ from + i \in Block(from, n) /\ to + i \in Block(to, n)
  BY DEF Block
<1>2. \A i \in 0 .. n - 1 : N[from + i] = M[from + i] /\ N[to + i] = M[to + i]
  BY <1>1 DEF Agree
<1> QED BY <1>2 DEF Flow

\* A step that changes no memory, and not the transfer.
LEMMA FlowSame ==
  ASSUME NEW P, NEW M, NEW Q, NEW c, NEW d, NEW from, NEW to, NEW n,
         Flow(P, M, c, from, to, n), Q[d] = P[c]
  PROVE  Flow(Q, M, d, from, to, n)
BY DEF Flow

\* The engine makes one move of the transfer.
LEMMA FlowMoves ==
  ASSUME NEW P, NEW M, NEW Q, NEW N, NEW c,
         NEW from \in Int, NEW to \in Int, NEW n \in Nat,
         Flow(P, M, c, from, to, n),
         NEW move \in P[c], Q[c] = P[c] \ {move},
         N[move[2]] = M[move[1]], Agree(M, N, DOMAIN M \ {move[2]}),
         Block(from, n) \cup Block(to, n) \subseteq DOMAIN M,
         Block(from, n) \cap Block(to, n) = {}
  PROVE  Flow(Q, N, c, from, to, n)
<1>1. PICK k \in 0 .. n - 1 : /\ move = << from + k, to + k >>
                              /\ to + k \in Block(to, n)
  BY MoveEnds DEF Flow
<1>2. ASSUME NEW i \in 0 .. n - 1
      PROVE  << from + i, to + i >> \in Q[c] \/ N[to + i] = N[from + i]
  <2>1. from + i \in Block(from, n) /\ to + i \in Block(to, n)
    BY DEF Block
  <2>2. N[from + i] = M[from + i]
    BY <1>1, <2>1 DEF Agree
  <2>3. CASE i = k
    BY <1>1, <2>2, <2>3
  <2>4. CASE i # k
    <3>1. to + i # to + k
      BY <2>4
    <3>2. N[to + i] = M[to + i]
      BY <1>1, <2>1, <3>1 DEF Agree
    <3>3. << from + i, to + i >> # move
      BY <1>1, <3>1
    <3> QED BY <2>2, <3>2, <3>3 DEF Flow
  <2> QED BY <2>3, <2>4
<1>3. Q[c] \subseteq Moves(from, to, n)
  BY DEF Flow
<1> QED BY <1>2, <1>3 DEF Flow

\* A transfer that has been waited for.
LEMMA FlowOver ==
  ASSUME NEW P, NEW M, NEW c, NEW from, NEW to, NEW n,
         Flow(P, M, c, from, to, n), P[c] = {}
  PROVE  \A i \in 0 .. n - 1 : M[to + i] = M[from + i]
BY DEF Flow
=============================================================================
