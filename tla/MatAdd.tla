-------------------------------- MODULE MatAdd --------------------------------
(***************************************************************************)
(* chips/oprecompkw/matadd/pulp: the addition of two matrices that do not  *)
(* fit in L1, tile by tile.  While the cores add one tile, the DMA brings  *)
(* the next one into the other half of each double buffer and takes the    *)
(* previous sum out.  An address is a matrix row: rows 0 .. 6*TILE_ROWS-1  *)
(* are L1_Memory, the three matrices follow.                               *)
(***************************************************************************)
EXTENDS DmaEngine

CONSTANTS TILES,      \* tiles of a matrix: 6 in the code
          TILE_ROWS,  \* rows of a tile but the last: 18
          LAST_ROWS,  \* rows of the last tile: 10
          MAT_W,      \* columns: 100
          NB_PE,      \* cores of the cluster, a power of two
          NB_ITER,    \* calls of MatADD: 2000
          USE_TLM_MEM \* the build option that fixes the matrices' addresses

ASSUME MatAddAssumption ==
  /\ TILES \in Nat /\ TILES >= 2
  /\ LAST_ROWS \in Nat /\ LAST_ROWS > 0
  /\ TILE_ROWS \in Nat /\ TILE_ROWS >= LAST_ROWS
  /\ MAT_W \in Nat /\ MAT_W > 0
  /\ NB_PE \in Nat \ {0} /\ \E k \in 0 .. NB_PE : NB_PE = 2 ^ k
  /\ NB_ITER \in Nat /\ NB_ITER > 0
  /\ USE_TLM_MEM \in BOOLEAN

MAT_H == (TILES - 1) * TILE_ROWS + LAST_ROWS
Core  == 0 .. NB_PE - 1
Row   == 0 .. MAT_H - 1
Col   == 0 .. MAT_W - 1

\* L1_Memory: two tiles each of In1, In2 and Out.
L1_In1(half) == half * TILE_ROWS
L1_In2(half) == 2 * TILE_ROWS + half * TILE_ROWS
L1_Out(half) == 4 * TILE_ROWS + half * TILE_ROWS
L1_Rows      == 6 * TILE_ROWS

Int1 == L1_Rows
Int2 == L1_Rows + MAT_H
Out  == L1_Rows + 2 * MAT_H
Addr == 0 .. L1_Rows + 3 * MAT_H - 1

VARIABLES
  pc,                     \* where MatADD is
  iter,                   \* the loop of main
  T0Ind,                  \* the tile; T0Ind_Total has the same value throughout
  N_In1, SN_In1,          \* row and number of rows of the next tile of In1
  N_In2, SN_In2,          \* the same for In2
  C_Out, SC_Out, SP_Out,  \* row, rows of this tile of Out, rows of the previous
  DmaR_Evt1, DmaR_Evt2, DmaW_Evt1,
  working                 \* cores still in MatSumPar

tileVars == << T0Ind, N_In1, SN_In1, N_In2, SN_In2, C_Out, SC_Out, SP_Out >>
evtVars  == << DmaR_Evt1, DmaR_Evt2, DmaW_Evt1 >>
dmaVars  == << mem, pending, held >>
vars     == << pc, iter, tileVars, evtVars, working, dmaVars >>

\* Numbers that no other pair of rows adds up to.
In1Value(row) == 2 * MAT_H * (row + 1)
In2Value(row) == row + 1

InitialMem ==
  [a \in Addr |-> [c \in Col |->
     IF a \in Int1 .. Int2 - 1 THEN In1Value(a - Int1)
     ELSE IF a \in Int2 .. Out - 1 THEN In2Value(a - Int2) ELSE 0]]

Init ==
  /\ pc = "alloc" /\ iter = 0
  /\ T0Ind = 0 /\ N_In1 = 0 /\ SN_In1 = 0 /\ N_In2 = 0 /\ SN_In2 = 0
  /\ C_Out = 0 /\ SC_Out = 0 /\ SP_Out = 0
  /\ DmaR_Evt1 = 0 /\ DmaR_Evt2 = 0 /\ DmaW_Evt1 = 0
  /\ working = {}
  /\ DmaInit(InitialMem)

-----------------------------------------------------------------------------
(* main: the allocations, any of which may fail.  The check of the four    *)
(* pointers is compiled out with USE_TLM_MEM, where a NULL L1_Memory goes  *)
(* on to MatADD: the model stops there.                                    *)
Alloc ==
  /\ pc = "alloc"
  /\ pc' \in {"in1", IF USE_TLM_MEM THEN "null_l1" ELSE "failed"}
  /\ UNCHANGED << iter, tileVars, evtVars, working, dmaVars >>

-----------------------------------------------------------------------------
(* MatADD.  Last and NextLast are the loop's T0Ind_Last and T0Ind_NextLast. *)

Last     == T0Ind = TILES - 1
NextLast == T0Ind + 1 = TILES - 1

\* Mutant: the last tile is as long as the others.
RowsNext_FullLast == IF Last THEN 0 ELSE TILE_ROWS

RowsNext == IF Last THEN 0 ELSE IF NextLast THEN LAST_ROWS ELSE TILE_ROWS

PrologIn1 ==
  /\ pc = "in1"
  /\ plp_dma_memcpy(held, Int1, L1_In1(0), TILE_ROWS)
  /\ DmaR_Evt1' = NextCounter(held)
  /\ N_In1' = 0
  /\ pc' = "in2"
  /\ UNCHANGED << iter, T0Ind, SN_In1, N_In2, SN_In2, C_Out, SC_Out, SP_Out,
                  DmaR_Evt2, DmaW_Evt1, working, mem >>

PrologIn2 ==
  /\ pc = "in2"
  /\ plp_dma_memcpy(held, Int2, L1_In2(0), TILE_ROWS)
  /\ DmaR_Evt2' = NextCounter(held)
  /\ N_In2' = 0
  /\ C_Out' = 0 /\ SC_Out' = TILE_ROWS /\ SP_Out' = 0
  /\ T0Ind' = 0
  /\ pc' = "wait1"
  /\ UNCHANGED << iter, N_In1, SN_In1, SN_In2, DmaR_Evt1, DmaW_Evt1, working, mem >>

\* Mutant: the next tile goes to the half the cores are about to read.
ReadIn1_SameHalf ==
  /\ pc = "wait1"
  /\ Waited(DmaR_Evt1)
  /\ N_In1' = IF Last THEN N_In1 ELSE N_In1 + TILE_ROWS
  /\ SN_In1' = RowsNext
  /\ IF SN_In1' # 0
       THEN /\ plp_dma_memcpy(Release(DmaR_Evt1), Int1 + N_In1', L1_In1(T0Ind % 2), SN_In1')
            /\ DmaR_Evt1' = NextCounter(Release(DmaR_Evt1))
       ELSE held' = Release(DmaR_Evt1) /\ UNCHANGED << pending, DmaR_Evt1 >>
  /\ pc' = "wait2"
  /\ UNCHANGED << iter, T0Ind, N_In2, SN_In2, C_Out, SC_Out, SP_Out,
                  DmaR_Evt2, DmaW_Evt1, working, mem >>

\* A tile of In1 has arrived: have the next one brought to the other half.
ReadIn1 ==
  /\ pc = "wait1"
  /\ Waited(DmaR_Evt1)
  /\ N_In1' = IF Last THEN N_In1 ELSE N_In1 + TILE_ROWS
  /\ SN_In1' = RowsNext
  /\ IF SN_In1' # 0
       THEN /\ plp_dma_memcpy(Release(DmaR_Evt1), Int1 + N_In1',
                              L1_In1((T0Ind + 1) % 2), SN_In1')
            /\ DmaR_Evt1' = NextCounter(Release(DmaR_Evt1))
       ELSE held' = Release(DmaR_Evt1) /\ UNCHANGED << pending, DmaR_Evt1 >>
  /\ pc' = "wait2"
  /\ UNCHANGED << iter, T0Ind, N_In2, SN_In2, C_Out, SC_Out, SP_Out,
                  DmaR_Evt2, DmaW_Evt1, working, mem >>

\* Mutant: In2 is brought to the buffer of In1.
ReadIn2_WrongBuffer ==
  /\ pc = "wait2"
  /\ Waited(DmaR_Evt2)
  /\ N_In2' = IF Last THEN N_In2 ELSE N_In2 + TILE_ROWS
  /\ SN_In2' = RowsNext
  /\ IF SN_In2' # 0
       THEN /\ plp_dma_memcpy(Release(DmaR_Evt2), Int2 + N_In2',
                              L1_In1((T0Ind + 1) % 2), SN_In2')
            /\ DmaR_Evt2' = NextCounter(Release(DmaR_Evt2))
       ELSE held' = Release(DmaR_Evt2) /\ UNCHANGED << pending, DmaR_Evt2 >>
  /\ pc' = "fork"
  /\ UNCHANGED << iter, T0Ind, N_In1, SN_In1, C_Out, SC_Out, SP_Out,
                  DmaR_Evt1, DmaW_Evt1, working, mem >>

ReadIn2 ==
  /\ pc = "wait2"
  /\ Waited(DmaR_Evt2)
  /\ N_In2' = IF Last THEN N_In2 ELSE N_In2 + TILE_ROWS
  /\ SN_In2' = RowsNext
  /\ IF SN_In2' # 0
       THEN /\ plp_dma_memcpy(Release(DmaR_Evt2), Int2 + N_In2',
                              L1_In2((T0Ind + 1) % 2), SN_In2')
            /\ DmaR_Evt2' = NextCounter(Release(DmaR_Evt2))
       ELSE held' = Release(DmaR_Evt2) /\ UNCHANGED << pending, DmaR_Evt2 >>
  /\ pc' = "fork"
  /\ UNCHANGED << iter, T0Ind, N_In1, SN_In1, C_Out, SC_Out, SP_Out,
                  DmaR_Evt1, DmaW_Evt1, working, mem >>

\* KerArg0 and rt_team_fork: the kernel runs on every core.
H == IF Last THEN LAST_ROWS ELSE TILE_ROWS

Fork ==
  /\ pc = "fork"
  /\ working' = Core
  /\ pc' = "team"
  /\ UNCHANGED << iter, tileVars, evtVars, dmaVars >>

-----------------------------------------------------------------------------
(* MatSumPar: core id adds a vertical strip of the tile.  NB_PE is a power *)
(* of two, so the shift and the mask of ChunkSize divide by it.            *)

ChunkSize(X) == (X \div NB_PE) + (IF X % NB_PE # 0 THEN 1 ELSE 0)

FirstCol(id) == id * ChunkSize(MAT_W)
LastCol(id)  == IF FirstCol(id) + ChunkSize(MAT_W) > MAT_W THEN MAT_W
                ELSE FirstCol(id) + ChunkSize(MAT_W)
Strip(id)    == FirstCol(id) .. LastCol(id) - 1

MatSumPar(id) ==
  /\ id \in working
  /\ LET half == T0Ind % 2
     IN  mem' = [a \in Addr |->
           IF a - L1_Out(half) \in 0 .. H - 1
             THEN LET i == a - L1_Out(half)
                  IN  [j \in Col |-> IF j \in Strip(id)
                        THEN mem[L1_In1(half) + i][j] + mem[L1_In2(half) + i][j]
                        ELSE mem[a][j]]
             ELSE mem[a]]
  /\ working' = working \ {id}
  /\ UNCHANGED << pc, iter, tileVars, evtVars, pending, held >>

\* The join of the team; then the sum goes out, once the previous one has gone.
WriteOut ==
  /\ pc = "team" /\ working = {}
  /\ SP_Out # 0 => Waited(DmaW_Evt1)
  /\ LET used == IF SP_Out # 0 THEN Release(DmaW_Evt1) ELSE held
     IN  /\ plp_dma_memcpy(used, L1_Out(T0Ind % 2), Out + C_Out, SC_Out)
         /\ DmaW_Evt1' = NextCounter(used)
  /\ SP_Out' = SC_Out
  /\ SC_Out' = RowsNext
  /\ C_Out' = IF Last THEN C_Out ELSE C_Out + TILE_ROWS
  /\ T0Ind' = T0Ind + 1
  /\ pc' = IF Last THEN "epilog" ELSE "wait1"
  /\ UNCHANGED << iter, N_In1, SN_In1, N_In2, SN_In2, DmaR_Evt1, DmaR_Evt2, working, mem >>

\* Mutant: the last transfer is not waited for.
Epilog_NoWait ==
  /\ pc = "epilog"
  /\ iter' = iter + 1
  /\ pc' = IF iter + 1 = NB_ITER THEN "return" ELSE "in1"
  /\ UNCHANGED << tileVars, evtVars, working, mem, pending, held >>

Epilog ==
  /\ pc = "epilog"
  /\ Waited(DmaW_Evt1)
  /\ held' = Release(DmaW_Evt1)
  /\ iter' = iter + 1
  /\ pc' = IF iter + 1 = NB_ITER THEN "return" ELSE "in1"
  /\ UNCHANGED << tileVars, evtVars, working, mem, pending >>

-----------------------------------------------------------------------------
Move == DmaMove /\ UNCHANGED << pc, iter, tileVars, evtVars, working >>

Finished == pc \in {"return", "failed", "null_l1"} /\ pending = [c \in Counter |-> {}] /\ UNCHANGED vars

MatADD == \/ PrologIn1 \/ PrologIn2 \/ ReadIn1 \/ ReadIn2 \/ Fork \/ WriteOut \/ Epilog

Next == Alloc \/ MatADD \/ (\E id \in Core : MatSumPar(id)) \/ Move \/ Finished

\* The program, each core and the engine go on while they can.
Spec == /\ Init /\ [][Next]_vars
        /\ WF_vars(Alloc) /\ WF_vars(MatADD) /\ WF_vars(Move)
        /\ \A id \in Core : WF_vars(MatSumPar(id))

-----------------------------------------------------------------------------
Sources(moves)      == {move[1] : move \in moves}
Destinations(moves) == {move[2] : move \in moves}
Rows(first, n)      == first .. first + n - 1

\* While a core adds a tile, no transfer in flight writes the tile's inputs or
\* touches its output: the halves of the double buffers never meet.
HalvesApart ==
  LET half  == T0Ind % 2
      input == Rows(L1_In1(half), H) \cup Rows(L1_In2(half), H)
      sum   == Rows(L1_Out(half), H)
  IN  working # {} =>
        /\ Destinations(InFlight) \cap (input \cup sum) = {}
        /\ Sources(InFlight) \cap sum = {}

\* No two moves in flight write the same address, and none reads what another
\* writes: the result does not depend on the order the engine picks.
NoDmaRace ==
  \A m, n \in InFlight : /\ m[2] = n[2] => m = n
                         /\ m[1] # n[2]

\* When MatADD has returned, the whole of Out is the sum, nothing is in flight
\* and every counter is free for the next call.
SumOnReturn ==
  pc \in {"in1", "return"} /\ iter > 0 =>
    /\ \A r \in Row, c \in Col : mem[Out + r][c] = In1Value(r) + In2Value(r)
    /\ InFlight = {} /\ held = {}

\* Every transfer stays in its double buffer on one side and in its matrix on
\* the other, the short last tile included.
TransfersInPlace ==
  \A m \in InFlight :
     \/ m[1] \in Rows(Int1, MAT_H) /\ m[2] \in Rows(L1_In1(0), 2 * TILE_ROWS)
     \/ m[1] \in Rows(Int2, MAT_H) /\ m[2] \in Rows(L1_In2(0), 2 * TILE_ROWS)
     \/ m[1] \in Rows(L1_Out(0), 2 * TILE_ROWS) /\ m[2] \in Rows(Out, MAT_H)

-----------------------------------------------------------------------------
(* The size of the blocks main gives MatADD, in bytes: without USE_TLM_MEM *)
(* it is rt_alloc(..., MAT_SIZE), where MAT_SIZE counts elements; with it  *)
(* the matrices are 0x100000 bytes apart.                                  *)
MAT_SIZE   == MAT_W * MAT_H
BlockBytes == IF USE_TLM_MEM THEN 1048576 ELSE MAT_SIZE
IntBytes   == 4

\* MatAddKernels.c:34,42,50: the three arguments have a "Total Size" of
\* W * H * 4 bytes (40000), so every row a transfer names lies in the block
\* main allocated.
RowsInBlocks ==
  \A m \in InFlight, base \in {Int1, Int2, Out} :
    \A a \in {m[1], m[2]} \cap base .. base + MAT_H - 1 :
       (a - base + 1) * MAT_W * IntBytes <= BlockBytes
=============================================================================
