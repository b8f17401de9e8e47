----------------------------- MODULE MatAdd_proofs -----------------------------
(***************************************************************************)
(* The tiled matrix addition with any number of tiles, rows, columns,      *)
(* cores and iterations: no two transfers meet, none meets the cores, and  *)
(* what is in Out when MatADD returns is the sum.                          *)
(*                                                                         *)
(* The argument follows three transfers, one for each matrix, by the tile  *)
(* each of them carries.  While one is in flight its source is left alone, *)
(* so that what has arrived equals what was sent (Flow); a tile that has   *)
(* been waited for is whole, and stays so because the next one goes to     *)
(* the other half of the buffer.                                           *)
(***************************************************************************)
EXTENDS MatAddOffload, DmaLemmas

\* Tile t: its first row, how many it has, and its half of a double buffer.
Start(t)    == t * TILE_ROWS
TileRows(t) == IF t = TILES - 1 THEN LAST_ROWS ELSE TILE_ROWS
Half(t)     == t % 2
Tile        == 0 .. TILES - 1

\* Which transfers are on their way, or done and not waited for.
InLoop   == pc \in {"wait1", "wait2", "fork", "team"}
Reading1 == pc \in {"in2", "wait1"} \/ (pc \in {"wait2", "fork", "team"} /\ ~Last)
Reading2 == pc \in {"wait1", "wait2"} \/ (pc \in {"fork", "team"} /\ ~Last)
Writing  == pc = "epilog" \/ (InLoop /\ T0Ind # 0)

\* The tiles they carry; the one of Out is T0Ind - 1.
Tile1 == IF pc = "in2" THEN 0 ELSE IF pc = "wait1" THEN T0Ind ELSE T0Ind + 1
Tile2 == IF pc \in {"wait1", "wait2"} THEN T0Ind ELSE T0Ind + 1

\* Rows of the matrices and of their sum.
In1Row(r) == [c \in Col |-> In1Value(r)]
In2Row(r) == [c \in Col |-> In2Value(r)]
SumRow(r) == [c \in Col |-> In1Value(r) + In2Value(r)]

\* Of memory M: In1 and In2 are as main made them; tile t of In1, of In2 or of
\* the sum is in L1; the cores D have added their strips of it; the sum is in
\* the first n rows of Out.
Inputs(M)       == \A r \in Row : M[Int1 + r] = In1Row(r) /\ M[Int2 + r] = In2Row(r)
Loaded1(M, t)   == \A i \in 0 .. TileRows(t) - 1 : M[L1_In1(Half(t)) + i] = In1Row(Start(t) + i)
Loaded2(M, t)   == \A i \in 0 .. TileRows(t) - 1 : M[L1_In2(Half(t)) + i] = In2Row(Start(t) + i)
Summed(M, t)    == \A i \in 0 .. TileRows(t) - 1 : M[L1_Out(Half(t)) + i] = SumRow(Start(t) + i)
Added(M, t, D)  == \A i \in 0 .. TileRows(t) - 1, id \in D : \A j \in Strip(id) \cap Col :
                      M[L1_Out(Half(t)) + i][j] = SumRow(Start(t) + i)[j]
OutIsSum(M, n)  == \A r \in Row : r < n => M[Out + r] = SumRow(r)

PC == {"alloc", "in1", "in2", "wait1", "wait2", "fork", "team", "epilog",
       "return", "failed", "null_l1"}

Control ==
  /\ pc \in PC /\ iter \in Nat /\ T0Ind \in Nat
  /\ InLoop => T0Ind \in Tile
  /\ pc = "epilog" => T0Ind = TILES
  /\ working \in SUBSET Core /\ (working # {} => pc = "team")
  /\ pc = "alloc" => iter = 0
  /\ Reading1 => N_In1 = Start(Tile1)
  /\ Reading2 => N_In2 = Start(Tile2)
  /\ InLoop => /\ C_Out = Start(T0Ind) /\ SC_Out = TileRows(T0Ind)
               /\ SP_Out = IF T0Ind = 0 THEN 0 ELSE TILE_ROWS

\* Each transfer has a counter of its own, and no other counter is in use.
Counters ==
  /\ held = (IF Reading1 THEN {DmaR_Evt1} ELSE {}) \cup (IF Reading2 THEN {DmaR_Evt2} ELSE {})
              \cup (IF Writing THEN {DmaW_Evt1} ELSE {})
  /\ held \subseteq Counter
  /\ Reading1 /\ Reading2 => DmaR_Evt1 # DmaR_Evt2
  /\ Reading1 /\ Writing => DmaR_Evt1 # DmaW_Evt1
  /\ Reading2 /\ Writing => DmaR_Evt2 # DmaW_Evt1
  /\ pending = [c \in Counter |-> pending[c]]
  /\ \A c \in Counter \ held : pending[c] = {}

\* The transfers of tile t.
Flow1(P, M, c, t) == Flow(P, M, c, Int1 + Start(t), L1_In1(Half(t)), TileRows(t))
Flow2(P, M, c, t) == Flow(P, M, c, Int2 + Start(t), L1_In2(Half(t)), TileRows(t))
FlowW(P, M, c, t) == Flow(P, M, c, L1_Out(Half(t)), Out + Start(t), TileRows(t))

Transfers ==
  /\ Reading1 => Flow1(pending, mem, DmaR_Evt1, Tile1)
  /\ Reading2 => Flow2(pending, mem, DmaR_Evt2, Tile2)
  /\ Writing  => FlowW(pending, mem, DmaW_Evt1, T0Ind - 1)

Data ==
  /\ mem \in [Addr -> [Col -> Int]]
  /\ Inputs(mem)
  /\ pc \in {"wait2", "fork", "team"} => Loaded1(mem, T0Ind)
  /\ pc \in {"fork", "team"} => Loaded2(mem, T0Ind)
  /\ pc = "team" => Added(mem, T0Ind, Core \ working)
  /\ Writing => Summed(mem, T0Ind - 1) /\ OutIsSum(mem, Start(T0Ind - 1))
  /\ pc \in {"in1", "return"} /\ iter > 0 => OutIsSum(mem, MAT_H)

IInv == Control /\ Counters /\ Transfers /\ Data

-----------------------------------------------------------------------------
(* Tiles and the memory map.                                               *)

LEMMA ConstFacts ==
  /\ TILES \in Nat /\ TILES >= 2 /\ TILES - 1 \in Tile /\ 0 \in Tile /\ 0 # TILES - 1
  /\ TILE_ROWS \in Nat /\ TILE_ROWS > 0
  /\ LAST_ROWS \in Nat /\ LAST_ROWS > 0 /\ LAST_ROWS <= TILE_ROWS
  /\ MAT_H \in Nat /\ MAT_H > 0
BY MatAddAssumption DEF MAT_H, Tile

\* A tile lies in its matrix; the next one begins where it ends and goes to the
\* other half of the buffer.
LEMMA TileFacts ==
  ASSUME NEW t \in Tile
  PROVE  /\ t \in Nat /\ Start(t) \in Nat /\ TileRows(t) \in 1 .. TILE_ROWS
         /\ Half(t) \in {0, 1}
         /\ Start(t) + TileRows(t) <= MAT_H
         /\ t = TILES - 1 => Start(t) + TileRows(t) = MAT_H /\ TileRows(t) = LAST_ROWS
         /\ t # TILES - 1 => /\ t + 1 \in Tile /\ TileRows(t) = TILE_ROWS
                             /\ Start(t + 1) = Start(t) + TILE_ROWS
                             /\ Half(t + 1) # Half(t)
<1>1. /\ t \in Nat /\ t <= TILES - 1 /\ Start(t) \in Nat /\ TileRows(t) \in 1 .. TILE_ROWS
      /\ Half(t) \in {0, 1}
  BY ConstFacts DEF Tile, Start, TileRows, Half
<1>2. CASE t = TILES - 1
  BY <1>1, <1>2, ConstFacts DEF Start, TileRows, MAT_H
<1>3. CASE t # TILES - 1
  <2>1. t + 1 \in Tile /\ TileRows(t) = TILE_ROWS /\ Half(t + 1) # Half(t)
    BY <1>1, <1>3, ConstFacts DEF Tile, TileRows, Half
  <2>2. Start(t + 1) = Start(t) + TILE_ROWS
    BY <1>1, ConstFacts DEF Start
  <2>3. Start(t + 1) <= (TILES - 1) * TILE_ROWS
    BY <1>1, <1>3, ConstFacts DEF Start
  <2>4. Start(t) + TileRows(t) <= MAT_H
    <3>1. (TILES - 1) * TILE_ROWS \in Nat BY ConstFacts
    <3> HIDE DEF Start
    <3> QED BY <1>1, <2>1, <2>2, <2>3, <3>1, ConstFacts DEF MAT_H
  <2> QED BY <1>1, <1>3, <2>1, <2>2, <2>4
<1> QED BY <1>2, <1>3

LEMMA FirstTile == Start(0) = 0 /\ TileRows(0) = TILE_ROWS /\ Half(0) = 0
BY ConstFacts DEF Start, TileRows, Half

\* How many rows the code takes for the next tile.
LEMMA NextRows ==
  ASSUME T0Ind \in Tile
  PROVE  /\ Last => RowsNext = 0
         /\ ~Last => RowsNext = TileRows(T0Ind + 1) /\ RowsNext # 0
BY ConstFacts DEF RowsNext, Last, NextLast, TileRows, Tile

\* The matrices and the halves of the buffers.
Area(base) == Block(base, MAT_H)
Buf1(h)    == Block(L1_In1(h), TILE_ROWS)
Buf2(h)    == Block(L1_In2(h), TILE_ROWS)
BufO(h)    == Block(L1_Out(h), TILE_ROWS)

LEMMA Bases ==
  /\ Int1 \in Nat /\ Int2 \in Nat /\ Out \in Nat
  /\ \A h \in {0, 1} : L1_In1(h) \in Nat /\ L1_In2(h) \in Nat /\ L1_Out(h) \in Nat
BY ConstFacts DEF Int1, Int2, Out, L1_Rows, L1_In1, L1_In2, L1_Out

LEMMA InMemory ==
  /\ Area(Int1) \subseteq Addr /\ Area(Int2) \subseteq Addr /\ Area(Out) \subseteq Addr
  /\ \A h \in {0, 1} : Buf1(h) \subseteq Addr /\ Buf2(h) \subseteq Addr /\ BufO(h) \subseteq Addr
<1>1. Area(Int1) \subseteq Addr /\ Area(Int2) \subseteq Addr /\ Area(Out) \subseteq Addr
  BY ConstFacts DEF Area, Block, Addr, Int1, Int2, Out, L1_Rows
<1>2. ASSUME NEW h \in {0, 1}
      PROVE  Buf1(h) \subseteq Addr /\ Buf2(h) \subseteq Addr /\ BufO(h) \subseteq Addr
  <2>1. CASE h = 0
    BY <2>1, ConstFacts DEF Buf1, Buf2, BufO, Block, Addr, L1_Rows, L1_In1, L1_In2, L1_Out
  <2>2. CASE h = 1
    BY <2>2, ConstFacts DEF Buf1, Buf2, BufO, Block, Addr, L1_Rows, L1_In1, L1_In2, L1_Out
  <2> QED BY <2>1, <2>2
<1> QED BY <1>1, <1>2

\* None of the nine meets another.
LEMMA MemoryMap ==
  /\ Area(Int1) \cap Area(Int2) = {} /\ Area(Int1) \cap Area(Out) = {}
  /\ Area(Int2) \cap Area(Out) = {}
  /\ \A base \in {Int1, Int2, Out}, h \in {0, 1} :
       Area(base) \cap Buf1(h) = {} /\ Area(base) \cap Buf2(h) = {} /\ Area(base) \cap BufO(h) = {}
  /\ \A g, h \in {0, 1} :
       /\ Buf1(g) \cap Buf2(h) = {} /\ Buf1(g) \cap BufO(h) = {} /\ Buf2(g) \cap BufO(h) = {}
       /\ g # h => Buf1(g) \cap Buf1(h) = {} /\ Buf2(g) \cap Buf2(h) = {} /\ BufO(g) \cap BufO(h) = {}
<1>1. /\ Area(Int1) \cap Area(Int2) = {} /\ Area(Int1) \cap Area(Out) = {}
      /\ Area(Int2) \cap Area(Out) = {}
  BY ConstFacts DEF Area, Block, Int1, Int2, Out, L1_Rows
<1>2. \A h \in {0, 1} : /\ Buf1(h) \subseteq 0 .. 2 * TILE_ROWS - 1
                        /\ Buf2(h) \subseteq 2 * TILE_ROWS .. 4 * TILE_ROWS - 1
                        /\ BufO(h) \subseteq 4 * TILE_ROWS .. 6 * TILE_ROWS - 1
  <2> TAKE h \in {0, 1}
  <2>1. CASE h = 0 BY <2>1, ConstFacts DEF Buf1, Buf2, BufO, Block, L1_In1, L1_In2, L1_Out
  <2>2. CASE h = 1 BY <2>2, ConstFacts DEF Buf1, Buf2, BufO, Block, L1_In1, L1_In2, L1_Out
  <2> QED BY <2>1, <2>2
<1>3. \A base \in {Int1, Int2, Out} : \A a \in Area(base) : a \in Int /\ a >= 6 * TILE_ROWS
  BY ConstFacts DEF Area, Block, Int1, Int2, Out, L1_Rows
<1>4. \A base \in {Int1, Int2, Out}, h \in {0, 1} :
       Area(base) \cap Buf1(h) = {} /\ Area(base) \cap Buf2(h) = {} /\ Area(base) \cap BufO(h) = {}
  BY <1>2, <1>3, ConstFacts
<1>5. ASSUME NEW g \in {0, 1}, NEW h \in {0, 1}
      PROVE  Buf1(g) \cap Buf2(h) = {} /\ Buf1(g) \cap BufO(h) = {} /\ Buf2(g) \cap BufO(h) = {}
  BY <1>2, ConstFacts
<1>6. /\ Buf1(0) \cap Buf1(1) = {} /\ Buf2(0) \cap Buf2(1) = {} /\ BufO(0) \cap BufO(1) = {}
  BY ConstFacts DEF Buf1, Buf2, BufO, Block, L1_In1, L1_In2, L1_Out
<1> QED BY <1>1, <1>4, <1>5, <1>6

\* The blocks of a tile lie in its matrix and in its half of the buffer.
LEMMA TileBlocks ==
  ASSUME NEW t \in Tile
  PROVE  /\ Block(Int1 + Start(t), TileRows(t)) \subseteq Area(Int1)
         /\ Block(Int2 + Start(t), TileRows(t)) \subseteq Area(Int2)
         /\ Block(Out + Start(t), TileRows(t)) \subseteq Area(Out)
         /\ Block(L1_In1(Half(t)), TileRows(t)) \subseteq Buf1(Half(t))
         /\ Block(L1_In2(Half(t)), TileRows(t)) \subseteq Buf2(Half(t))
         /\ Block(L1_Out(Half(t)), TileRows(t)) \subseteq BufO(Half(t))
         /\ \A i \in 0 .. TileRows(t) - 1 :
              /\ Start(t) + i \in Row
              /\ Int1 + (Start(t) + i) = (Int1 + Start(t)) + i
              /\ Int2 + (Start(t) + i) = (Int2 + Start(t)) + i
              /\ Out + (Start(t) + i) = (Out + Start(t)) + i
<1>1. /\ Start(t) \in Nat /\ TileRows(t) \in 1 .. TILE_ROWS /\ Half(t) \in {0, 1}
      /\ Start(t) + TileRows(t) <= MAT_H
  BY TileFacts
<1>2. \A base \in Nat : Block(base + Start(t), TileRows(t)) \subseteq Area(base)
  BY <1>1, ConstFacts DEF Block, Area
<1>3. \A base \in Nat : Block(base, TileRows(t)) \subseteq Block(base, TILE_ROWS)
  BY <1>1, ConstFacts DEF Block
<1>4. \A i \in 0 .. TileRows(t) - 1 :
        /\ Start(t) + i \in Row
        /\ \A base \in Nat : base + (Start(t) + i) = (base + Start(t)) + i
  BY <1>1, ConstFacts DEF Row
<1> QED BY <1>1, <1>2, <1>3, <1>4, Bases DEF Buf1, Buf2, BufO

-----------------------------------------------------------------------------
(* A tile that has arrived, and what leaves it alone.                      *)

\* Waiting for a tile of an input: it is all there.
LEMMA Arrives1 ==
  ASSUME NEW P, NEW M, NEW c, NEW t \in Tile,
         Inputs(M), Flow1(P, M, c, t), P[c] = {}
  PROVE  Loaded1(M, t)
<1>1. \A i \in 0 .. TileRows(t) - 1 : M[L1_In1(Half(t)) + i] = M[(Int1 + Start(t)) + i]
  BY FlowOver DEF Flow1
<1> QED BY <1>1, TileBlocks DEF Loaded1, Inputs

LEMMA Arrives2 ==
  ASSUME NEW P, NEW M, NEW c, NEW t \in Tile,
         Inputs(M), Flow2(P, M, c, t), P[c] = {}
  PROVE  Loaded2(M, t)
<1>1. \A i \in 0 .. TileRows(t) - 1 : M[L1_In2(Half(t)) + i] = M[(Int2 + Start(t)) + i]
  BY FlowOver DEF Flow2
<1> QED BY <1>1, TileBlocks DEF Loaded2, Inputs

\* Waiting for a tile of the sum: Out is right as far as that tile goes.
LEMMA Departs ==
  ASSUME NEW P, NEW M, NEW c, NEW t \in Tile,
         FlowW(P, M, c, t), P[c] = {}, Summed(M, t), OutIsSum(M, Start(t))
  PROVE  OutIsSum(M, Start(t) + TileRows(t))
<1>1. \A i \in 0 .. TileRows(t) - 1 : M[(Out + Start(t)) + i] = M[L1_Out(Half(t)) + i]
  BY FlowOver DEF FlowW
<1>2. \A i \in 0 .. TileRows(t) - 1 : M[Out + (Start(t) + i)] = SumRow(Start(t) + i)
  BY <1>1, TileBlocks DEF Summed
<1>3. ASSUME NEW r \in Row, r < Start(t) + TileRows(t), ~ (r < Start(t))
      PROVE  M[Out + r] = SumRow(r)
  <2>1. r - Start(t) \in 0 .. TileRows(t) - 1 /\ r = Start(t) + (r - Start(t))
    BY <1>3, TileFacts, ConstFacts DEF Row
  <2> QED BY <1>2, <2>1
<1> QED BY <1>3, TileFacts, ConstFacts DEF OutIsSum

\* A step that leaves the inputs, a half of a buffer or the rows of Out alone.
LEMMA Keeps ==
  ASSUME NEW M, NEW N, NEW t \in Tile
  PROVE  /\ Inputs(M) /\ Agree(M, N, Area(Int1)) /\ Agree(M, N, Area(Int2)) => Inputs(N)
         /\ Loaded1(M, t) /\ Agree(M, N, Buf1(Half(t))) => Loaded1(N, t)
         /\ Loaded2(M, t) /\ Agree(M, N, Buf2(Half(t))) => Loaded2(N, t)
         /\ Summed(M, t) /\ Agree(M, N, BufO(Half(t))) => Summed(N, t)
         /\ \A D : Added(M, t, D) /\ Agree(M, N, BufO(Half(t))) => Added(N, t, D)
         /\ \A n : OutIsSum(M, n) /\ Agree(M, N, Area(Out)) => OutIsSum(N, n)
<1>1. /\ \A r \in Row : /\ Int1 + r \in Area(Int1) /\ Int2 + r \in Area(Int2)
                         /\ Out + r \in Area(Out)
      /\ \A i \in 0 .. TileRows(t) - 1 : /\ L1_In1(Half(t)) + i \in Buf1(Half(t))
                                         /\ L1_In2(Half(t)) + i \in Buf2(Half(t))
                                         /\ L1_Out(Half(t)) + i \in BufO(Half(t))
  BY TileFacts, ConstFacts, Bases DEF Row, Area, Buf1, Buf2, BufO, Block
<1>2. Inputs(M) /\ Agree(M, N, Area(Int1)) /\ Agree(M, N, Area(Int2)) => Inputs(N)
  BY <1>1 DEF Inputs, Agree
<1>3. Loaded1(M, t) /\ Agree(M, N, Buf1(Half(t))) => Loaded1(N, t)
  BY <1>1 DEF Loaded1, Agree
<1>4. Loaded2(M, t) /\ Agree(M, N, Buf2(Half(t))) => Loaded2(N, t)
  BY <1>1 DEF Loaded2, Agree
<1>5. Summed(M, t) /\ Agree(M, N, BufO(Half(t))) => Summed(N, t)
  BY <1>1 DEF Summed, Agree
<1>6. \A D : Added(M, t, D) /\ Agree(M, N, BufO(Half(t))) => Added(N, t, D)
  BY <1>1 DEF Added, Agree
<1>7. \A n : OutIsSum(M, n) /\ Agree(M, N, Area(Out)) => OutIsSum(N, n)
  BY <1>1 DEF OutIsSum, Agree
<1> QED BY <1>2, <1>3, <1>4, <1>5, <1>6, <1>7

\* The strips of the cores are the whole width.
LEMMA StripsCover ==
  ASSUME NEW j \in Col
  PROVE  \E id \in Core : j \in Strip(id) \cap Col
<1> DEFINE chunk == ChunkSize(MAT_W)
           id == j \div chunk
<1>1. chunk \in Nat \ {0} /\ NB_PE * chunk >= MAT_W
  BY MatAddAssumption DEF ChunkSize
<1> HIDE DEF chunk
<1>2. id \in Nat /\ id * chunk <= j /\ j < id * chunk + chunk
  BY <1>1, MatAddAssumption DEF Col
<1>3. id < NB_PE
  BY <1>1, <1>2, MatAddAssumption DEF Col
<1>4. j \in Strip(id)
  BY <1>1, <1>2, MatAddAssumption DEF Strip, FirstCol, LastCol, Col, chunk
<1> QED BY <1>2, <1>3, <1>4, MatAddAssumption DEF Core

\* When every core has added its strip of a tile, the tile is the sum.
LEMMA AllAdded ==
  ASSUME NEW M \in [Addr -> [Col -> Int]], NEW t \in Tile, Added(M, t, Core)
  PROVE  Summed(M, t)
<1> SUFFICES ASSUME NEW i \in 0 .. TileRows(t) - 1
             PROVE  M[L1_Out(Half(t)) + i] = SumRow(Start(t) + i)
  BY DEF Summed
<1>1. L1_Out(Half(t)) + i \in Addr
  <2>1. Half(t) \in {0, 1} /\ L1_Out(Half(t)) \in Nat /\ TileRows(t) \in Nat
    BY TileFacts, Bases
  <2>2. L1_Out(Half(t)) + i \in Block(L1_Out(Half(t)), TileRows(t))
    BY <2>1 DEF Block
  <2> QED BY <2>1, <2>2, TileBlocks, InMemory
<1>2. \A j \in Col : M[L1_Out(Half(t)) + i][j] = SumRow(Start(t) + i)[j]
  BY StripsCover DEF Added
<1> QED BY <1>1, <1>2 DEF SumRow

-----------------------------------------------------------------------------
(* The steps.                                                              *)

USE DEF InLoop, Reading1, Reading2, Writing, Tile1, Tile2

LEMMA InitIInv == Init => IInv
<1> SUFFICES ASSUME Init PROVE IInv
  OBVIOUS
<1>1. Control
  BY DEF Init, Control, PC
<1>2. Counters
  BY DEF Init, DmaInit, Counters
<1>3. Transfers
  BY DEF Init, Transfers
<1>4. Data
  <2>1. mem = InitialMem /\ pc = "alloc"
    BY DEF Init, DmaInit
  <2>2. InitialMem \in [Addr -> [Col -> Int]]
    BY ConstFacts DEF InitialMem, In1Value, In2Value, Addr, Int1, Int2, Out, L1_Rows
  <2>3. ASSUME NEW r \in Row
        PROVE  InitialMem[Int1 + r] = In1Row(r) /\ InitialMem[Int2 + r] = In2Row(r)
    <3>1. /\ Int1 + r \in Addr /\ Int1 + r \in Int1 .. Int2 - 1 /\ (Int1 + r) - Int1 = r
          /\ Int2 + r \in Addr /\ Int2 + r \in Int2 .. Out - 1 /\ (Int2 + r) - Int2 = r
          /\ ~ (Int2 + r \in Int1 .. Int2 - 1)
      BY ConstFacts DEF Row, Addr, Int1, Int2, Out, L1_Rows
    <3> QED BY <3>1 DEF InitialMem, In1Row, In2Row
  <2> QED BY <2>1, <2>2, <2>3 DEF Data, Inputs
<1> QED BY <1>1, <1>2, <1>3, <1>4 DEF IInv

LEMMA AllocStep == IInv /\ Alloc => IInv'
<1> SUFFICES ASSUME IInv, Alloc PROVE IInv'
  OBVIOUS
<1>1. Control'
  BY DEF IInv, Alloc, Control, PC, tileVars
<1>2. Counters'
  BY DEF IInv, Alloc, Counters, evtVars, dmaVars
<1>3. Transfers'
  BY DEF IInv, Alloc, Transfers
<1>4. Data'
  BY DEF IInv, Alloc, Control, Data, Inputs, dmaVars
<1> QED BY <1>1, <1>2, <1>3, <1>4 DEF IInv

LEMMA PrologIn1Step == IInv /\ PrologIn1 => IInv'
<1> SUFFICES ASSUME IInv, PrologIn1 PROVE IInv'
  OBVIOUS
<1>1. Control'
  BY FirstTile DEF IInv, PrologIn1, Control, PC
<1>2. /\ DmaR_Evt1' \in Counter \ held /\ held' = held \cup {DmaR_Evt1'}
      /\ pending'[DmaR_Evt1'] = Moves(Int1, L1_In1(0), TILE_ROWS)
      /\ \A c \in Counter \ {DmaR_Evt1'} : pending'[c] = pending[c]
      /\ pending' = [c \in Counter |-> pending'[c]]
  BY MemcpyTakes DEF IInv, PrologIn1, Counters
<1>3. Counters'
  BY <1>2 DEF IInv, PrologIn1, Counters
<1>4. Transfers'
  <2>1. Flow1(pending', mem', DmaR_Evt1', 0)
    BY <1>2, FlowStarts, FirstTile, Bases, ConstFacts DEF Flow1
  <2> QED BY <2>1 DEF PrologIn1, Transfers
<1>5. Data'
  BY DEF IInv, PrologIn1, Control, Data, Inputs
<1> QED BY <1>1, <1>3, <1>4, <1>5 DEF IInv

LEMMA PrologIn2Step == IInv /\ PrologIn2 => IInv'
<1> SUFFICES ASSUME IInv, PrologIn2 PROVE IInv'
  OBVIOUS
<1>1. Control'
  BY FirstTile, ConstFacts DEF IInv, PrologIn2, Control, PC
<1>2. /\ DmaR_Evt2' \in Counter \ held /\ held' = held \cup {DmaR_Evt2'}
      /\ pending'[DmaR_Evt2'] = Moves(Int2, L1_In2(0), TILE_ROWS)
      /\ \A c \in Counter \ {DmaR_Evt2'} : pending'[c] = pending[c]
      /\ pending' = [c \in Counter |-> pending'[c]]
  BY MemcpyTakes DEF IInv, PrologIn2, Counters
<1>3. Counters'
  BY <1>2 DEF IInv, PrologIn2, Counters
<1>4. Transfers'
  <2>1. Flow1(pending', mem', DmaR_Evt1', 0)
    BY <1>2, FlowSame DEF IInv, PrologIn2, Transfers, Counters, Flow1
  <2>2. Flow2(pending', mem', DmaR_Evt2', 0)
    BY <1>2, FlowStarts, FirstTile, Bases, ConstFacts DEF Flow2
  <2> QED BY <2>1, <2>2 DEF PrologIn2, Transfers
<1>5. Data'
  BY DEF IInv, PrologIn2, Control, Data, Inputs
<1> QED BY <1>1, <1>3, <1>4, <1>5 DEF IInv

LEMMA ReadIn1Step == IInv /\ ReadIn1 => IInv'
<1> SUFFICES ASSUME IInv, ReadIn1 PROVE IInv'
  OBVIOUS
<1>1. /\ pc = "wait1" /\ pc' = "wait2" /\ T0Ind \in Tile /\ T0Ind' = T0Ind /\ mem' = mem
      /\ pending[DmaR_Evt1] = {} /\ (T0Ind + 1) % 2 = Half(T0Ind + 1)
      /\ pending = [c \in Counter |-> pending[c]]
  BY DEF IInv, ReadIn1, Control, Counters, Waited, Half
<1>2. Loaded1(mem, T0Ind)
  BY <1>1, Arrives1 DEF IInv, Transfers, Data
<1>3. Data'
  BY <1>1, <1>2 DEF IInv, ReadIn1, Data, Inputs
<1>4. CASE Last
  <2>1. held' = held \ {DmaR_Evt1} /\ pending' = pending /\ Last'
    BY <1>1, <1>4, NextRows DEF ReadIn1, Release, Last
  <2>2. Control'
    BY <1>1, <1>4, <2>1 DEF IInv, ReadIn1, Control, PC
  <2>3. Counters'
    BY <1>1, <1>4, <2>1 DEF IInv, ReadIn1, Counters
  <2>4. Transfers'
    BY <1>1, <1>4, <2>1 DEF IInv, ReadIn1, Transfers
  <2> QED BY <1>3, <2>2, <2>3, <2>4 DEF IInv
<1>5. CASE ~Last
  <2>1. /\ T0Ind + 1 \in Tile /\ Start(T0Ind + 1) = Start(T0Ind) + TILE_ROWS
        /\ RowsNext = TileRows(T0Ind + 1) /\ RowsNext # 0 /\ ~Last'
        /\ N_In1' = Start(T0Ind + 1)
    BY <1>1, <1>5, NextRows, TileFacts DEF IInv, ReadIn1, Control, Last
  <2>2. plp_dma_memcpy(Release(DmaR_Evt1), Int1 + Start(T0Ind + 1),
                       L1_In1(Half(T0Ind + 1)), TileRows(T0Ind + 1))
        /\ DmaR_Evt1' = NextCounter(Release(DmaR_Evt1))
    BY <1>1, <2>1 DEF ReadIn1
  <2>3. /\ DmaR_Evt1' \in Counter \ Release(DmaR_Evt1)
        /\ held' = Release(DmaR_Evt1) \cup {DmaR_Evt1'}
        /\ pending'[DmaR_Evt1'] =
             Moves(Int1 + Start(T0Ind + 1), L1_In1(Half(T0Ind + 1)), TileRows(T0Ind + 1))
        /\ \A c \in Counter \ {DmaR_Evt1'} : pending'[c] = pending[c]
        /\ pending' = [c \in Counter |-> pending'[c]]
    BY <1>1, <2>2, MemcpyTakes
  <2>4. Control'
    BY <1>1, <1>5, <2>1 DEF IInv, ReadIn1, Control, PC
  <2>5. Counters'
    BY <1>1, <1>5, <2>1, <2>3 DEF IInv, ReadIn1, Counters, Release
  <2>6. Transfers'
    <3>1. Flow1(pending', mem', DmaR_Evt1', T0Ind + 1)
      BY <2>1, <2>3, FlowStarts, TileFacts, Bases, ConstFacts DEF Flow1
    <3>2. Flow2(pending', mem', DmaR_Evt2', T0Ind)
      BY <1>1, <1>5, <2>3, FlowSame DEF IInv, ReadIn1, Transfers, Counters, Release, Flow2
    <3>3. T0Ind # 0 => FlowW(pending', mem', DmaW_Evt1', T0Ind - 1)
      BY <1>1, <1>5, <2>3, FlowSame DEF IInv, ReadIn1, Transfers, Counters, Release, FlowW
    <3> QED BY <1>1, <1>5, <2>1, <3>1, <3>2, <3>3 DEF ReadIn1, Transfers
  <2> QED BY <1>3, <2>4, <2>5, <2>6 DEF IInv
<1> QED BY <1>4, <1>5

LEMMA ReadIn2Step == IInv /\ ReadIn2 => IInv'
<1> SUFFICES ASSUME IInv, ReadIn2 PROVE IInv'
  OBVIOUS
<1>1. /\ pc = "wait2" /\ pc' = "fork" /\ T0Ind \in Tile /\ T0Ind' = T0Ind /\ mem' = mem
      /\ pending[DmaR_Evt2] = {} /\ (T0Ind + 1) % 2 = Half(T0Ind + 1)
      /\ pending = [c \in Counter |-> pending[c]]
  BY DEF IInv, ReadIn2, Control, Counters, Waited, Half
<1>2. Loaded2(mem, T0Ind)
  BY <1>1, Arrives2 DEF IInv, Transfers, Data
<1>3. Data'
  BY <1>1, <1>2 DEF IInv, ReadIn2, Data, Inputs
<1>4. CASE Last
  <2>1. held' = held \ {DmaR_Evt2} /\ pending' = pending /\ Last'
    BY <1>1, <1>4, NextRows DEF ReadIn2, Release, Last
  <2>2. Control'
    BY <1>1, <1>4, <2>1 DEF IInv, ReadIn2, Control, PC
  <2>3. Counters'
    BY <1>1, <1>4, <2>1 DEF IInv, ReadIn2, Counters
  <2>4. Transfers'
    BY <1>1, <1>4, <2>1 DEF IInv, ReadIn2, Transfers
  <2> QED BY <1>3, <2>2, <2>3, <2>4 DEF IInv
<1>5. CASE ~Last
  <2>1. /\ T0Ind + 1 \in Tile /\ Start(T0Ind + 1) = Start(T0Ind) + TILE_ROWS
        /\ RowsNext = TileRows(T0Ind + 1) /\ RowsNext # 0 /\ ~Last'
        /\ N_In2' = Start(T0Ind + 1)
    BY <1>1, <1>5, NextRows, TileFacts DEF IInv, ReadIn2, Control, Last
  <2>2. plp_dma_memcpy(Release(DmaR_Evt2), Int2 + Start(T0Ind + 1),
                       L1_In2(Half(T0Ind + 1)), TileRows(T0Ind + 1))
        /\ DmaR_Evt2' = NextCounter(Release(DmaR_Evt2))
    BY <1>1, <2>1 DEF ReadIn2
  <2>3. /\ DmaR_Evt2' \in Counter \ Release(DmaR_Evt2)
        /\ held' = Release(DmaR_Evt2) \cup {DmaR_Evt2'}
        /\ pending'[DmaR_Evt2'] =
             Moves(Int2 + Start(T0Ind + 1), L1_In2(Half(T0Ind + 1)), TileRows(T0Ind + 1))
        /\ \A c \in Counter \ {DmaR_Evt2'} : pending'[c] = pending[c]
        /\ pending' = [c \in Counter |-> pending'[c]]
    BY <1>1, <2>2, MemcpyTakes
  <2>4. Control'
    BY <1>1, <1>5, <2>1 DEF IInv, ReadIn2, Control, PC
  <2>5. Counters'
    BY <1>1, <1>5, <2>1, <2>3 DEF IInv, ReadIn2, Counters, Release
  <2>6. Transfers'
    <3>1. Flow2(pending', mem', DmaR_Evt2', T0Ind + 1)
      BY <2>1, <2>3, FlowStarts, TileFacts, Bases, ConstFacts DEF Flow2
    <3>2. Flow1(pending', mem', DmaR_Evt1', T0Ind + 1)
      BY <1>1, <1>5, <2>3, FlowSame DEF IInv, ReadIn2, Transfers, Counters, Release, Flow1
    <3>3. T0Ind # 0 => FlowW(pending', mem', DmaW_Evt1', T0Ind - 1)
      BY <1>1, <1>5, <2>3, FlowSame DEF IInv, ReadIn2, Transfers, Counters, Release, FlowW
    <3> QED BY <1>1, <1>5, <2>1, <3>1, <3>2, <3>3 DEF ReadIn2, Transfers
  <2> QED BY <1>3, <2>4, <2>5, <2>6 DEF IInv
<1> QED BY <1>4, <1>5

LEMMA ForkStep == IInv /\ Fork => IInv'
<1> SUFFICES ASSUME IInv, Fork PROVE IInv'
  OBVIOUS
<1>1. Control'
  BY DEF IInv, Fork, Control, PC, tileVars, Last
<1>2. Counters'
  BY DEF IInv, Fork, Counters, tileVars, evtVars, dmaVars, Last
<1>3. Transfers'
  BY DEF IInv, Fork, Transfers, tileVars, evtVars, dmaVars, Last
<1>4. Data'
  BY DEF IInv, Fork, Data, Inputs, Added, tileVars, dmaVars
<1> QED BY <1>1, <1>2, <1>3, <1>4 DEF IInv

\* The tile of Out before tile t is as long as any but the last.
LEMMA Previous ==
  ASSUME NEW t \in Tile, t # 0
  PROVE  /\ t - 1 \in Tile /\ (t - 1) + 1 = t
         /\ Start(t - 1) + TileRows(t - 1) = Start(t)
<1>1. t - 1 \in Tile /\ (t - 1) + 1 = t /\ t - 1 # TILES - 1
  BY ConstFacts DEF Tile
<1>2. Start((t - 1) + 1) = Start(t - 1) + TILE_ROWS /\ TileRows(t - 1) = TILE_ROWS
  BY <1>1, TileFacts
<1> QED BY <1>1, <1>2

LEMMA WriteOutStep == IInv /\ WriteOut => IInv'
<1> SUFFICES ASSUME IInv, WriteOut PROVE IInv'
  OBVIOUS
<1> DEFINE used == IF SP_Out # 0 THEN Release(DmaW_Evt1) ELSE held
<1>1. /\ pc = "team" /\ T0Ind \in Tile /\ T0Ind' = T0Ind + 1 /\ T0Ind' - 1 = T0Ind
      /\ mem' = mem /\ working = {} /\ working' = {} /\ T0Ind % 2 = Half(T0Ind)
      /\ (SP_Out # 0 <=> T0Ind # 0) /\ C_Out = Start(T0Ind) /\ SC_Out = TileRows(T0Ind)
      /\ T0Ind # 0 => pending[DmaW_Evt1] = {}
      /\ pending = [c \in Counter |-> pending[c]]
  BY ConstFacts DEF IInv, WriteOut, Control, Counters, Waited, Half, Tile
<1>2. plp_dma_memcpy(used, L1_Out(Half(T0Ind)), Out + Start(T0Ind), TileRows(T0Ind))
      /\ DmaW_Evt1' = NextCounter(used)
  BY <1>1 DEF WriteOut
<1>3. /\ DmaW_Evt1' \in Counter \ used /\ held' = used \cup {DmaW_Evt1'}
      /\ pending'[DmaW_Evt1'] = Moves(L1_Out(Half(T0Ind)), Out + Start(T0Ind), TileRows(T0Ind))
      /\ \A c \in Counter \ {DmaW_Evt1'} : pending'[c] = pending[c]
      /\ pending' = [c \in Counter |-> pending'[c]]
  <2> HIDE DEF used
  <2> QED BY <1>1, <1>2, MemcpyTakes
<1>4. /\ Last => pc' = "epilog"
      /\ ~Last => /\ pc' = "wait1" /\ T0Ind + 1 \in Tile
                  /\ Start(T0Ind + 1) = Start(T0Ind) + TILE_ROWS
                  /\ TileRows(T0Ind) = TILE_ROWS /\ RowsNext = TileRows(T0Ind + 1)
  BY <1>1, NextRows, TileFacts DEF WriteOut, Last
<1>5. Control'
  BY <1>1, <1>4, ConstFacts DEF IInv, WriteOut, Control, PC, Last, Tile
<1>6. used = IF Last THEN {} ELSE {DmaR_Evt1, DmaR_Evt2}
  <2>1. CASE T0Ind = 0
    BY <1>1, <2>1 DEF IInv, Counters
  <2>2. CASE T0Ind # 0
    BY <1>1, <2>2 DEF IInv, Counters, Release
  <2> QED BY <2>1, <2>2
<1>7. /\ Counter \ held \subseteq Counter \ used /\ \A c \in Counter \ used : pending[c] = {}
      /\ used \subseteq Counter
      /\ ~Last => DmaR_Evt1 # DmaR_Evt2
      /\ DmaR_Evt1' = DmaR_Evt1 /\ DmaR_Evt2' = DmaR_Evt2
  BY <1>1, <1>6 DEF IInv, Counters, WriteOut, Release
<1> HIDE DEF used
<1>8. Counters'
  <2>1. CASE Last
    BY <1>1, <1>3, <1>4, <1>6, <1>7, <2>1 DEF Counters
  <2>2. CASE ~Last
    BY <1>1, <1>3, <1>4, <1>6, <1>7, <2>2, ConstFacts DEF Counters, Tile
  <2> QED BY <2>1, <2>2
<1>9. Transfers'
  <2>1. FlowW(pending', mem', DmaW_Evt1', T0Ind)
    BY <1>1, <1>3, FlowStarts, TileFacts, Bases, ConstFacts DEF FlowW
  <2>2. ~Last => Flow1(pending', mem', DmaR_Evt1', T0Ind')
    BY <1>1, <1>3, <1>6, <1>7, FlowSame DEF IInv, Transfers, Flow1
  <2>3. ~Last => Flow2(pending', mem', DmaR_Evt2', T0Ind')
    BY <1>1, <1>3, <1>6, <1>7, FlowSame DEF IInv, Transfers, Flow2
  <2> QED BY <1>1, <1>4, <2>1, <2>2, <2>3 DEF Transfers
<1>10. Data'
  <2>1. Summed(mem, T0Ind)
    <3>1. Added(mem, T0Ind, Core)
      BY <1>1 DEF IInv, Data, Added
    <3> QED BY <1>1, <3>1, AllAdded DEF IInv, Data
  <2>2. OutIsSum(mem, Start(T0Ind))
    <3>1. CASE T0Ind = 0
      BY <3>1, FirstTile DEF OutIsSum, Row
    <3>2. CASE T0Ind # 0
      <4>1. T0Ind - 1 \in Tile /\ Start(T0Ind - 1) + TileRows(T0Ind - 1) = Start(T0Ind)
        BY <1>1, <3>2, Previous
      <4> QED BY <1>1, <3>2, <4>1, Departs DEF IInv, Transfers, Data
    <3> QED BY <3>1, <3>2
  <2> QED BY <1>1, <1>4, <2>1, <2>2 DEF IInv, Data, Inputs
<1> QED BY <1>5, <1>8, <1>9, <1>10 DEF IInv

LEMMA EpilogStep == IInv /\ Epilog => IInv'
<1> SUFFICES ASSUME IInv, Epilog PROVE IInv'
  OBVIOUS
<1>1. /\ pc = "epilog" /\ T0Ind - 1 = TILES - 1 /\ mem' = mem /\ pending' = pending
      /\ pc' \in {"in1", "return"} /\ iter' \in Nat
  BY ConstFacts DEF IInv, Epilog, Control
<1>2. Control'
  BY <1>1 DEF IInv, Epilog, Control, PC, tileVars
<1>3. Counters'
  BY <1>1 DEF IInv, Epilog, Counters, Waited, Release
<1>4. Transfers'
  BY <1>1 DEF Transfers
<1>5. OutIsSum(mem, MAT_H)
  <2>1. TILES - 1 \in Tile /\ Start(TILES - 1) + TileRows(TILES - 1) = MAT_H
    BY ConstFacts, TileFacts
  <2> QED BY <1>1, <2>1, Departs DEF IInv, Epilog, Waited, Transfers, Data
<1>6. Data'
  BY <1>1, <1>5 DEF IInv, Data, Inputs
<1> QED BY <1>2, <1>3, <1>4, <1>6 DEF IInv

-----------------------------------------------------------------------------
(* The cores and the engine.                                               *)

\* The tiles in flight; the one the cores read is in the other half.
LEMMA TilesInFlight ==
  ASSUME Control
  PROVE  /\ Reading1 => Tile1 \in Tile
         /\ Reading2 => Tile2 \in Tile
         /\ Writing => T0Ind - 1 \in Tile
         /\ InLoop => T0Ind \in Tile
         /\ pc \in {"wait2", "fork", "team"} /\ Reading1 => Half(Tile1) # Half(T0Ind)
         /\ pc \in {"fork", "team"} /\ Reading2 => Half(Tile2) # Half(T0Ind)
         /\ InLoop /\ Writing => Half(T0Ind - 1) # Half(T0Ind)
<1>1. InLoop => T0Ind \in Tile
  BY DEF Control
<1>2. InLoop /\ ~Last => T0Ind + 1 \in Tile /\ Half(T0Ind + 1) # Half(T0Ind)
  BY <1>1, TileFacts DEF Last
<1>3. InLoop /\ Writing => T0Ind - 1 \in Tile /\ Half(T0Ind - 1) # Half(T0Ind)
  BY <1>1, ConstFacts DEF Tile, Half
<1>4. pc = "epilog" => T0Ind - 1 \in Tile
  BY ConstFacts DEF Control
<1> QED BY <1>1, <1>2, <1>3, <1>4, ConstFacts

\* What a step that writes only S leaves alone.
LEMMA Elsewhere ==
  ASSUME NEW M, NEW N, NEW S, NEW R, Agree(M, N, Addr \ S), R \subseteq Addr, R \cap S = {}
  PROVE  Agree(M, N, R)
BY DEF Agree

\* A transfer whose matrix and half of a buffer are left alone.
LEMMA TransferKept ==
  ASSUME NEW P, NEW M, NEW Q, NEW N, NEW c, NEW t \in Tile, Q[c] = P[c]
  PROVE  /\ Flow1(P, M, c, t) /\ Agree(M, N, Area(Int1)) /\ Agree(M, N, Buf1(Half(t)))
              => Flow1(Q, N, c, t)
         /\ Flow2(P, M, c, t) /\ Agree(M, N, Area(Int2)) /\ Agree(M, N, Buf2(Half(t)))
              => Flow2(Q, N, c, t)
         /\ FlowW(P, M, c, t) /\ Agree(M, N, BufO(Half(t))) /\ Agree(M, N, Area(Out))
              => FlowW(Q, N, c, t)
<1>1. /\ Int1 + Start(t) \in Int /\ Int2 + Start(t) \in Int /\ Out + Start(t) \in Int
      /\ L1_In1(Half(t)) \in Int /\ L1_In2(Half(t)) \in Int /\ L1_Out(Half(t)) \in Int
      /\ TileRows(t) \in Nat
  BY TileFacts, Bases, ConstFacts
<1>2. \A R, S : Agree(M, N, S) /\ R \subseteq S => Agree(M, N, R)
  BY DEF Agree
<1>3. Flow1(P, M, c, t) /\ Agree(M, N, Area(Int1)) /\ Agree(M, N, Buf1(Half(t)))
        => Flow1(Q, N, c, t)
  BY <1>1, <1>2, TileBlocks, FlowKept DEF Flow1
<1>4. Flow2(P, M, c, t) /\ Agree(M, N, Area(Int2)) /\ Agree(M, N, Buf2(Half(t)))
        => Flow2(Q, N, c, t)
  BY <1>1, <1>2, TileBlocks, FlowKept DEF Flow2
<1>5. FlowW(P, M, c, t) /\ Agree(M, N, BufO(Half(t))) /\ Agree(M, N, Area(Out))
        => FlowW(Q, N, c, t)
  BY <1>1, <1>2, TileBlocks, FlowKept DEF FlowW
<1> QED BY <1>3, <1>4, <1>5

\* A core writes nothing but the tile's half of the buffer of Out.
LEMMA MatSumParWrites ==
  ASSUME IInv, NEW id \in Core, MatSumPar(id)
  PROVE  /\ mem' \in [Addr -> [Col -> Int]]
         /\ Agree(mem, mem', Addr \ BufO(Half(T0Ind)))
         /\ \A i \in 0 .. TileRows(T0Ind) - 1, j \in Col :
              mem'[L1_Out(Half(T0Ind)) + i][j] =
                IF j \in Strip(id) THEN SumRow(Start(T0Ind) + i)[j]
                ELSE mem[L1_Out(Half(T0Ind)) + i][j]
<1> DEFINE half == Half(T0Ind)
           out  == L1_Out(half)
<1>1. /\ pc = "team" /\ T0Ind \in Tile /\ T0Ind % 2 = half /\ H = TileRows(T0Ind)
      /\ mem \in [Addr -> [Col -> Int]]
      /\ Loaded1(mem, T0Ind) /\ Loaded2(mem, T0Ind)
  BY DEF IInv, MatSumPar, Control, Data, Half, H, Last, TileRows
<1>2. /\ half \in {0, 1} /\ out \in Nat /\ L1_In1(half) \in Nat /\ L1_In2(half) \in Nat
      /\ TileRows(T0Ind) \in 1 .. TILE_ROWS
      /\ Buf1(half) \subseteq Addr /\ Buf2(half) \subseteq Addr /\ BufO(half) \subseteq Addr
  BY <1>1, TileFacts, Bases, InMemory
<1>3. mem' = [a \in Addr |->
        IF a - out \in 0 .. TileRows(T0Ind) - 1
          THEN [j \in Col |-> IF j \in Strip(id)
                 THEN mem[L1_In1(half) + (a - out)][j] + mem[L1_In2(half) + (a - out)][j]
                 ELSE mem[a][j]]
          ELSE mem[a]]
  BY <1>1 DEF MatSumPar
<1>4. \A i \in 0 .. TileRows(T0Ind) - 1 :
        /\ L1_In1(half) + i \in Addr /\ L1_In2(half) + i \in Addr /\ out + i \in Addr
        /\ (out + i) - out = i /\ out + i \in BufO(half)
  <2> HIDE DEF half
  <2> QED BY <1>2, ConstFacts DEF Buf1, Buf2, BufO, Block
<1>5. mem' \in [Addr -> [Col -> Int]]
  <2> HIDE DEF half, out
  <2> QED BY <1>1, <1>3, <1>4
<1>6. \A a \in Addr \ BufO(half) : a - out \notin 0 .. TileRows(T0Ind) - 1
  BY <1>2, ConstFacts DEF BufO, Block, Addr, L1_Rows
<1>7. Agree(mem, mem', Addr \ BufO(half))
  BY <1>3, <1>6 DEF Agree
<1>8. ASSUME NEW i \in 0 .. TileRows(T0Ind) - 1, NEW j \in Col
      PROVE  mem'[out + i][j] = IF j \in Strip(id) THEN SumRow(Start(T0Ind) + i)[j]
                                ELSE mem[out + i][j]
  <2>1. /\ mem[L1_In1(half) + i] = In1Row(Start(T0Ind) + i)
        /\ mem[L1_In2(half) + i] = In2Row(Start(T0Ind) + i)
    BY <1>1 DEF Loaded1, Loaded2
  <2>2. mem'[out + i] = [k \in Col |-> IF k \in Strip(id)
          THEN mem[L1_In1(half) + i][k] + mem[L1_In2(half) + i][k] ELSE mem[out + i][k]]
    <3> HIDE DEF out, half
    <3> QED BY <1>3, <1>4
  <2> QED BY <2>1, <2>2 DEF In1Row, In2Row, SumRow
<1> QED BY <1>5, <1>7, <1>8

LEMMA MatSumParStep == ASSUME IInv, NEW id \in Core, MatSumPar(id) PROVE IInv'
<1>1. /\ pc = "team" /\ T0Ind \in Tile /\ UNCHANGED << pc, iter, tileVars, evtVars, pending, held >>
      /\ working' = working \ {id} /\ id \in working /\ Last' = Last
      /\ UNCHANGED << Reading1, Reading2, Writing, Tile1, Tile2 >>
  BY DEF IInv, MatSumPar, Control, tileVars, Last
<1>2. /\ mem' \in [Addr -> [Col -> Int]]
      /\ Agree(mem, mem', Addr \ BufO(Half(T0Ind)))
  BY MatSumParWrites
<1>3. /\ Agree(mem, mem', Area(Int1)) /\ Agree(mem, mem', Area(Int2))
      /\ Agree(mem, mem', Area(Out))
      /\ \A h \in {0, 1} : /\ Agree(mem, mem', Buf1(h)) /\ Agree(mem, mem', Buf2(h))
                           /\ h # Half(T0Ind) => Agree(mem, mem', BufO(h))
  BY <1>1, <1>2, TileFacts, InMemory, MemoryMap, Elsewhere
<1>4. Control'
  BY <1>1 DEF IInv, Control, tileVars
<1>5. Counters'
  BY <1>1 DEF IInv, Counters, evtVars
<1>6. Transfers'
  <2>1. Reading1 => Flow1(pending', mem', DmaR_Evt1', Tile1)
    BY <1>1, <1>3, TilesInFlight, TileFacts, TransferKept DEF IInv, Transfers, evtVars
  <2>2. Reading2 => Flow2(pending', mem', DmaR_Evt2', Tile2)
    BY <1>1, <1>3, TilesInFlight, TileFacts, TransferKept DEF IInv, Transfers, evtVars
  <2>3. Writing => FlowW(pending', mem', DmaW_Evt1', T0Ind - 1)
    BY <1>1, <1>3, TilesInFlight, TileFacts, TransferKept DEF IInv, Transfers, evtVars
  <2> QED BY <1>1, <2>1, <2>2, <2>3 DEF Transfers, tileVars
<1>7. Data'
  <2>1. Inputs(mem') /\ Loaded1(mem', T0Ind) /\ Loaded2(mem', T0Ind)
    BY <1>1, <1>3, TileFacts, Keeps DEF IInv, Data
  <2>2. Added(mem', T0Ind, Core \ working')
    BY <1>1, MatSumParWrites DEF IInv, Data, Added
  <2>3. Writing => Summed(mem', T0Ind - 1) /\ OutIsSum(mem', Start(T0Ind - 1))
    BY <1>1, <1>3, TilesInFlight, TileFacts, Keeps DEF IInv, Data
  <2> QED BY <1>1, <1>2, <2>1, <2>2, <2>3 DEF Data, tileVars
<1> QED BY <1>4, <1>5, <1>6, <1>7 DEF IInv

\* Where a move of a transfer of tile t begins and ends.
LEMMA TileMoves ==
  ASSUME NEW P, NEW M, NEW c, NEW t \in Tile, NEW move \in P[c]
  PROVE  /\ Flow1(P, M, c, t) => move[1] \in Area(Int1) /\ move[2] \in Buf1(Half(t))
         /\ Flow2(P, M, c, t) => move[1] \in Area(Int2) /\ move[2] \in Buf2(Half(t))
         /\ FlowW(P, M, c, t) => /\ move[1] \in BufO(Half(t)) /\ move[2] \in Area(Out)
                                 /\ move[2] >= Out + Start(t)
<1>1. /\ Int1 + Start(t) \in Int /\ Int2 + Start(t) \in Int /\ Out + Start(t) \in Int
      /\ L1_In1(Half(t)) \in Int /\ L1_In2(Half(t)) \in Int /\ L1_Out(Half(t)) \in Int
      /\ TileRows(t) \in Nat
  BY TileFacts, Bases, ConstFacts
<1>2. Flow1(P, M, c, t) => move[1] \in Area(Int1) /\ move[2] \in Buf1(Half(t))
  BY <1>1, FlowEnds, TileBlocks DEF Flow1
<1>3. Flow2(P, M, c, t) => move[1] \in Area(Int2) /\ move[2] \in Buf2(Half(t))
  BY <1>1, FlowEnds, TileBlocks DEF Flow2
<1>4. ASSUME FlowW(P, M, c, t)
      PROVE  /\ move[1] \in BufO(Half(t)) /\ move[2] \in Area(Out) /\ move[2] >= Out + Start(t)
  <2>1. move[1] \in Block(L1_Out(Half(t)), TileRows(t)) /\ move[2] \in Block(Out + Start(t), TileRows(t))
    BY <1>1, <1>4, FlowEnds DEF FlowW
  <2>2. move[2] >= Out + Start(t)
    BY <1>1, <2>1 DEF Block
  <2> QED BY <2>1, <2>2, TileBlocks
<1> QED BY <1>2, <1>3, <1>4

\* The engine makes a move of a transfer of tile t.
LEMMA TransferMoves ==
  ASSUME NEW P, NEW M, NEW Q, NEW N, NEW c, NEW t \in Tile,
         NEW move \in P[c], Q[c] = P[c] \ {move},
         DOMAIN M = Addr, N[move[2]] = M[move[1]], Agree(M, N, Addr \ {move[2]})
  PROVE  /\ Flow1(P, M, c, t) => Flow1(Q, N, c, t)
         /\ Flow2(P, M, c, t) => Flow2(Q, N, c, t)
         /\ FlowW(P, M, c, t) => FlowW(Q, N, c, t)
<1>1. /\ Int1 + Start(t) \in Int /\ Int2 + Start(t) \in Int /\ Out + Start(t) \in Int
      /\ L1_In1(Half(t)) \in Int /\ L1_In2(Half(t)) \in Int /\ L1_Out(Half(t)) \in Int
      /\ TileRows(t) \in Nat /\ Half(t) \in {0, 1}
  BY TileFacts, Bases, ConstFacts
<1>2. /\ Area(Int1) \cup Buf1(Half(t)) \subseteq Addr /\ Area(Int1) \cap Buf1(Half(t)) = {}
      /\ Area(Int2) \cup Buf2(Half(t)) \subseteq Addr /\ Area(Int2) \cap Buf2(Half(t)) = {}
      /\ BufO(Half(t)) \cup Area(Out) \subseteq Addr /\ BufO(Half(t)) \cap Area(Out) = {}
  BY <1>1, InMemory, MemoryMap
<1>3. \A A, B, R, S : A \subseteq R /\ B \subseteq S /\ R \cup S \subseteq Addr /\ R \cap S = {}
        => A \cup B \subseteq Addr /\ A \cap B = {}
  OBVIOUS
<1>4. Flow1(P, M, c, t) => Flow1(Q, N, c, t)
  <2>1. /\ Block(Int1 + Start(t), TileRows(t)) \cup Block(L1_In1(Half(t)), TileRows(t)) \subseteq Addr
        /\ Block(Int1 + Start(t), TileRows(t)) \cap Block(L1_In1(Half(t)), TileRows(t)) = {}
    BY <1>2, <1>3, TileBlocks
  <2> QED BY <1>1, <2>1, FlowMoves DEF Flow1
<1>5. Flow2(P, M, c, t) => Flow2(Q, N, c, t)
  <2>1. /\ Block(Int2 + Start(t), TileRows(t)) \cup Block(L1_In2(Half(t)), TileRows(t)) \subseteq Addr
        /\ Block(Int2 + Start(t), TileRows(t)) \cap Block(L1_In2(Half(t)), TileRows(t)) = {}
    BY <1>2, <1>3, TileBlocks
  <2> QED BY <1>1, <2>1, FlowMoves DEF Flow2
<1>6. FlowW(P, M, c, t) => FlowW(Q, N, c, t)
  <2>1. /\ Block(L1_Out(Half(t)), TileRows(t)) \cup Block(Out + Start(t), TileRows(t)) \subseteq Addr
        /\ Block(L1_Out(Half(t)), TileRows(t)) \cap Block(Out + Start(t), TileRows(t)) = {}
    BY <1>2, <1>3, TileBlocks
  <2> QED BY <1>1, <2>1, FlowMoves DEF FlowW
<1> QED BY <1>4, <1>5, <1>6

LEMMA MoveStep == IInv /\ Move => IInv'
<1> SUFFICES ASSUME IInv, Move PROVE IInv'
  OBVIOUS
<1>1. PICK c \in Counter : \E move \in pending[c] :
        /\ mem' = [mem EXCEPT ![move[2]] = mem[move[1]]]
        /\ pending' = [pending EXCEPT ![c] = @ \ {move}]
        /\ held' = held
  BY DEF Move, DmaMove
<1>2. PICK move \in pending[c] :
        /\ mem' = [mem EXCEPT ![move[2]] = mem[move[1]]]
        /\ pending' = [pending EXCEPT ![c] = @ \ {move}]
        /\ held' = held
  BY <1>1
<1>3. /\ UNCHANGED << pc, iter, tileVars, evtVars, working, held >>
      /\ UNCHANGED << Last, Reading1, Reading2, Writing, Tile1, Tile2 >>
  BY <1>2 DEF Move, tileVars, Last
<1>4. /\ DOMAIN mem = Addr
      /\ move[2] \in Addr => mem'[move[2]] = mem[move[1]]
      /\ Agree(mem, mem', Addr \ {move[2]})
      /\ pending'[c] = pending[c] \ {move}
      /\ \A d \in Counter \ {c} : pending'[d] = pending[d]
      /\ pending' = [d \in Counter |-> pending'[d]]
  BY <1>2 DEF IInv, Data, Counters, Agree
<1>5. /\ Reading1 => DmaR_Evt1 \in Counter
      /\ Reading2 => DmaR_Evt2 \in Counter
      /\ Writing => DmaW_Evt1 \in Counter
      /\ c \in held
  BY <1>2 DEF IInv, Counters
<1>6. /\ Reading1 => /\ Tile1 \in Tile /\ Half(Tile1) \in {0, 1}
                     /\ Flow1(pending, mem, DmaR_Evt1, Tile1)
      /\ Reading2 => /\ Tile2 \in Tile /\ Half(Tile2) \in {0, 1}
                     /\ Flow2(pending, mem, DmaR_Evt2, Tile2)
      /\ Writing => /\ T0Ind - 1 \in Tile /\ Half(T0Ind - 1) \in {0, 1}
                    /\ FlowW(pending, mem, DmaW_Evt1, T0Ind - 1)
  BY TilesInFlight, TileFacts DEF IInv, Transfers
<1>7. /\ Reading1 /\ c # DmaR_Evt1 => pending'[DmaR_Evt1] = pending[DmaR_Evt1]
      /\ Reading2 /\ c # DmaR_Evt2 => pending'[DmaR_Evt2] = pending[DmaR_Evt2]
      /\ Writing /\ c # DmaW_Evt1 => pending'[DmaW_Evt1] = pending[DmaW_Evt1]
      /\ Reading1 /\ Reading2 => DmaR_Evt1 # DmaR_Evt2
      /\ Reading1 /\ Writing => DmaR_Evt1 # DmaW_Evt1
      /\ Reading2 /\ Writing => DmaR_Evt2 # DmaW_Evt1
  BY <1>4, <1>5 DEF IInv, Counters
<1>8. ASSUME move[2] \in Addr, NEW t \in Tile
      PROVE  /\ Flow1(pending, mem, c, t) => Flow1(pending', mem', c, t)
             /\ Flow2(pending, mem, c, t) => Flow2(pending', mem', c, t)
             /\ FlowW(pending, mem, c, t) => FlowW(pending', mem', c, t)
  <2>1. mem'[move[2]] = mem[move[1]]
    BY <1>4, <1>8
  <2> QED BY <1>4, <2>1, TransferMoves
<1> HIDE DEF Reading1, Reading2, Writing, Tile1, Tile2
<1>9. Control' /\ Counters'
  <2>1. Control'
    BY <1>3 DEF IInv, Control, tileVars, InLoop
  <2>2. Counters'
    BY <1>3, <1>4, <1>5 DEF IInv, Counters, evtVars
  <2> QED BY <2>1, <2>2
<1>10. CASE Reading1 /\ c = DmaR_Evt1
  <2>1. /\ Tile1 \in Tile /\ Half(Tile1) \in {0, 1}
        /\ move[1] \in Area(Int1) /\ move[2] \in Buf1(Half(Tile1))
    BY <1>10, TilesInFlight, TileFacts, TileMoves DEF IInv, Transfers
  <2>2. move[1] \in Addr /\ move[2] \in Addr
    BY <2>1, InMemory
  <2>3. /\ Agree(mem, mem', Area(Int1)) /\ Agree(mem, mem', Area(Int2))
        /\ Agree(mem, mem', Area(Out))
        /\ \A h \in {0, 1} : /\ Agree(mem, mem', Buf2(h)) /\ Agree(mem, mem', BufO(h))
                             /\ h # Half(Tile1) => Agree(mem, mem', Buf1(h))
    BY <1>4, <2>1, InMemory, MemoryMap DEF Agree
  <2>4. mem' \in [Addr -> [Col -> Int]]
    BY <1>2, <2>2 DEF IInv, Data
  <2>5. Transfers'
    <3>1. Flow1(pending', mem', DmaR_Evt1, Tile1)
      BY <1>6, <1>10, <1>8, <2>2
    <3>2. Reading2 => Flow2(pending', mem', DmaR_Evt2, Tile2)
      BY <1>10, <1>6, <1>7, <2>3, TransferKept
    <3>3. Writing => FlowW(pending', mem', DmaW_Evt1, T0Ind - 1)
      BY <1>10, <1>6, <1>7, <2>3, TransferKept
    <3> QED BY <1>3, <3>1, <3>2, <3>3 DEF Transfers, evtVars, tileVars
  <2>6. Data'
    <3>1. Inputs(mem')
      BY <2>1, <2>3, Keeps DEF IInv, Data
    <3>2. pc \in {"wait2", "fork", "team"} => Loaded1(mem', T0Ind)
      BY <1>10, <2>3, TilesInFlight, TileFacts, Keeps DEF IInv, Data
    <3>3. pc \in {"fork", "team"} => Loaded2(mem', T0Ind)
      BY <1>10, <2>3, TilesInFlight, TileFacts, Keeps DEF IInv, Data
    <3>4. pc = "team" => Added(mem', T0Ind, Core \ working)
      BY <2>3, TilesInFlight, TileFacts, Keeps DEF IInv, Data
    <3>5. Writing => Summed(mem', T0Ind - 1) /\ OutIsSum(mem', Start(T0Ind - 1))
      BY <2>3, TilesInFlight, TileFacts, Keeps DEF IInv, Data
    <3> QED BY <1>3, <1>10, <2>4, <3>1, <3>2, <3>3, <3>4, <3>5 DEF Data, tileVars, Reading1, Reading2, Writing, InLoop
  <2> QED BY <1>9, <2>5, <2>6 DEF IInv
<1>11. CASE Reading2 /\ c = DmaR_Evt2
  <2>1. /\ Tile2 \in Tile /\ Half(Tile2) \in {0, 1}
        /\ move[1] \in Area(Int2) /\ move[2] \in Buf2(Half(Tile2))
    BY <1>11, TilesInFlight, TileFacts, TileMoves DEF IInv, Transfers
  <2>2. move[1] \in Addr /\ move[2] \in Addr
    BY <2>1, InMemory
  <2>3. /\ Agree(mem, mem', Area(Int1)) /\ Agree(mem, mem', Area(Int2))
        /\ Agree(mem, mem', Area(Out))
        /\ \A h \in {0, 1} : /\ Agree(mem, mem', Buf1(h)) /\ Agree(mem, mem', BufO(h))
                             /\ h # Half(Tile2) => Agree(mem, mem', Buf2(h))
    BY <1>4, <2>1, InMemory, MemoryMap DEF Agree
  <2>4. mem' \in [Addr -> [Col -> Int]]
    BY <1>2, <2>2 DEF IInv, Data
  <2>5. Transfers'
    <3>1. Flow2(pending', mem', DmaR_Evt2, Tile2)
      BY <1>6, <1>11, <1>8, <2>2
    <3>2. Reading1 => Flow1(pending', mem', DmaR_Evt1, Tile1)
      BY <1>11, <1>6, <1>7, <2>3, TransferKept
    <3>3. Writing => FlowW(pending', mem', DmaW_Evt1, T0Ind - 1)
      BY <1>11, <1>6, <1>7, <2>3, TransferKept
    <3> QED BY <1>3, <3>1, <3>2, <3>3 DEF Transfers, evtVars, tileVars
  <2>6. Data'
    <3>1. Inputs(mem')
      BY <2>1, <2>3, Keeps DEF IInv, Data
    <3>2. pc \in {"wait2", "fork", "team"} => Loaded1(mem', T0Ind)
      BY <1>11, <2>3, TilesInFlight, TileFacts, Keeps DEF IInv, Data
    <3>3. pc \in {"fork", "team"} => Loaded2(mem', T0Ind)
      BY <1>11, <2>3, TilesInFlight, TileFacts, Keeps DEF IInv, Data
    <3>4. pc = "team" => Added(mem', T0Ind, Core \ working)
      BY <2>3, TilesInFlight, TileFacts, Keeps DEF IInv, Data
    <3>5. Writing => Summed(mem', T0Ind - 1) /\ OutIsSum(mem', Start(T0Ind - 1))
      BY <2>3, TilesInFlight, TileFacts, Keeps DEF IInv, Data
    <3> QED BY <1>3, <1>11, <2>4, <3>1, <3>2, <3>3, <3>4, <3>5 DEF Data, tileVars, Reading1, Reading2, Writing, InLoop
  <2> QED BY <1>9, <2>5, <2>6 DEF IInv
<1>12. CASE Writing /\ c = DmaW_Evt1
  <2>1. /\ T0Ind - 1 \in Tile /\ Half(T0Ind - 1) \in {0, 1} /\ Start(T0Ind - 1) \in Nat
        /\ move[1] \in BufO(Half(T0Ind - 1)) /\ move[2] \in Area(Out)
        /\ move[2] >= Out + Start(T0Ind - 1)
    BY <1>12, TilesInFlight, TileFacts, TileMoves DEF IInv, Transfers
  <2>2. move[1] \in Addr /\ move[2] \in Addr
    BY <2>1, InMemory
  <2>3. /\ Agree(mem, mem', Area(Int1)) /\ Agree(mem, mem', Area(Int2))
        /\ \A h \in {0, 1} : /\ Agree(mem, mem', Buf1(h)) /\ Agree(mem, mem', Buf2(h))
                             /\ Agree(mem, mem', BufO(h))
    BY <1>4, <2>1, InMemory, MemoryMap DEF Agree
  <2>4. mem' \in [Addr -> [Col -> Int]]
    BY <1>2, <2>2 DEF IInv, Data
  <2>5. Transfers'
    <3>1. FlowW(pending', mem', DmaW_Evt1, T0Ind - 1)
      BY <1>6, <1>12, <1>8, <2>2
    <3>2. Reading1 => Flow1(pending', mem', DmaR_Evt1, Tile1)
      BY <1>12, <1>6, <1>7, <2>3, TransferKept
    <3>3. Reading2 => Flow2(pending', mem', DmaR_Evt2, Tile2)
      BY <1>12, <1>6, <1>7, <2>3, TransferKept
    <3> QED BY <1>3, <3>1, <3>2, <3>3 DEF Transfers, evtVars, tileVars
  <2>6. Data'
    <3>1. Inputs(mem')
      BY <2>1, <2>3, Keeps DEF IInv, Data
    <3>2. /\ pc \in {"wait2", "fork", "team"} => Loaded1(mem', T0Ind)
          /\ pc \in {"fork", "team"} => Loaded2(mem', T0Ind)
          /\ pc = "team" => Added(mem', T0Ind, Core \ working)
      BY <2>3, TilesInFlight, TileFacts, Keeps DEF IInv, Data
    <3>3. Summed(mem', T0Ind - 1)
      BY <1>12, <2>1, <2>3, Keeps DEF IInv, Data
    <3>4. OutIsSum(mem', Start(T0Ind - 1))
      <4>1. ASSUME NEW r \in Row, r < Start(T0Ind - 1)
            PROVE  mem'[Out + r] = mem[Out + r]
        <5>1. Out + r \in Area(Out) /\ Out + r < move[2]
          BY <2>1, <4>1, Bases, ConstFacts DEF Row, Area, Block
        <5>2. Out + r \in Addr /\ Out + r # move[2]
          BY <2>1, <5>1, Bases, InMemory, ConstFacts DEF Area, Block, Row
        <5> QED BY <1>4, <5>2 DEF Agree
      <4> QED BY <1>12, <4>1 DEF IInv, Data, OutIsSum
    <3> QED BY <1>3, <1>12, <2>4, <3>1, <3>2, <3>3, <3>4 DEF Data, tileVars, Reading1, Reading2, Writing, InLoop
  <2> QED BY <1>9, <2>5, <2>6 DEF IInv
<1>13. (Reading1 /\ c = DmaR_Evt1) \/ (Reading2 /\ c = DmaR_Evt2) \/ (Writing /\ c = DmaW_Evt1)
  BY <1>5 DEF IInv, Counters
<1> QED BY <1>10, <1>11, <1>12, <1>13

-----------------------------------------------------------------------------
(* The invariant holds, for the job alone and under its host.              *)

LEMMA NextStep == IInv /\ [Next]_vars => IInv'
<1> SUFFICES ASSUME IInv, [Next]_vars PROVE IInv'
  OBVIOUS
<1>1. CASE UNCHANGED vars
  <2>1. Control'
    BY <1>1 DEF IInv, Control, vars, tileVars, Last
  <2>2. Counters'
    BY <1>1 DEF IInv, Counters, vars, tileVars, evtVars, dmaVars, Last
  <2>3. Transfers'
    BY <1>1 DEF IInv, Transfers, vars, tileVars, evtVars, dmaVars, Last
  <2>4. Data'
    BY <1>1 DEF IInv, Data, vars, tileVars, dmaVars
  <2> QED BY <2>1, <2>2, <2>3, <2>4 DEF IInv
<1>2. CASE \E id \in Core : MatSumPar(id)
  BY <1>2, MatSumParStep
<1> QED
  BY <1>1, <1>2, AllocStep, PrologIn1Step, PrologIn2Step, ReadIn1Step, ReadIn2Step, ForkStep,
     WriteOutStep, EpilogStep, MoveStep
  DEF Next, MatADD, Finished

\* The inductive invariant of MatADD, whatever is fair: control, counters,
\* transfers and data are as IInv says in every state.
THEOREM Inductive == Init /\ [][Next]_vars => []IInv
BY InitIInv, NextStep, PTL

\* Under the host every step is one of the job or leaves its variables alone.
LEMMA OffloadSteps == [OffloadNext]_offloadVars => [Next]_vars
BY DEF OffloadNext, offloadVars, HostMoves, JobEnds, Runs, Stopped, Next

\* main and MatADD, alone or launched by the host, keep IInv.
THEOREM JobInvariant == Spec \/ OffloadSpec => []IInv
<1>1. Spec => []IInv
  BY Inductive, PTL DEF Spec
<1>2. OffloadSpec => []IInv
  <2>1. OffloadInit => Init
    BY DEF OffloadInit
  <2> QED BY <2>1, OffloadSteps, Inductive, PTL DEF OffloadSpec
<1> QED BY <1>1, <1>2, PTL

-----------------------------------------------------------------------------
(* What follows from it.                                                   *)

HIDE DEF InLoop, Reading1, Reading2, Writing, Tile1, Tile2

\* Which of the three transfers a move in flight belongs to.
LEMMA InFlightMoves ==
  ASSUME IInv, NEW m \in InFlight
  PROVE  \/ /\ Reading1 /\ Tile1 \in Tile
            /\ m[1] \in Area(Int1) /\ m[2] \in Buf1(Half(Tile1))
            /\ \E i \in Nat : m = << (Int1 + Start(Tile1)) + i, L1_In1(Half(Tile1)) + i >>
         \/ /\ Reading2 /\ Tile2 \in Tile
            /\ m[1] \in Area(Int2) /\ m[2] \in Buf2(Half(Tile2))
            /\ \E i \in Nat : m = << (Int2 + Start(Tile2)) + i, L1_In2(Half(Tile2)) + i >>
         \/ /\ Writing /\ T0Ind - 1 \in Tile
            /\ m[1] \in BufO(Half(T0Ind - 1)) /\ m[2] \in Area(Out)
            /\ \E i \in Nat : m = << L1_Out(Half(T0Ind - 1)) + i, (Out + Start(T0Ind - 1)) + i >>
<1>1. PICK c \in Counter : m \in pending[c]
  BY DEF InFlight
<1>2. \A t \in Tile :
        /\ Int1 + Start(t) \in Int /\ Int2 + Start(t) \in Int /\ Out + Start(t) \in Int
        /\ L1_In1(Half(t)) \in Int /\ L1_In2(Half(t)) \in Int /\ L1_Out(Half(t)) \in Int
        /\ TileRows(t) \in Nat
  BY TileFacts, Bases, ConstFacts
<1>3. \A from, to \in Int, n \in Nat :
        Flow(pending, mem, c, from, to, n) => \E i \in Nat : m = << from + i, to + i >>
  BY <1>1 DEF Flow, Moves
<1>4. CASE Reading1 /\ c = DmaR_Evt1
  <2>1. Tile1 \in Tile /\ Flow1(pending, mem, c, Tile1)
    BY <1>4, TilesInFlight DEF IInv, Transfers
  <2>2. \E i \in Nat : m = << (Int1 + Start(Tile1)) + i, L1_In1(Half(Tile1)) + i >>
    <3>1. /\ Flow(pending, mem, c, Int1 + Start(Tile1), L1_In1(Half(Tile1)), TileRows(Tile1))
          /\ Int1 + Start(Tile1) \in Int /\ L1_In1(Half(Tile1)) \in Int /\ TileRows(Tile1) \in Nat
      BY <1>2, <2>1 DEF Flow1
    <3> QED BY <1>3, <3>1
  <2>3. m[1] \in Area(Int1) /\ m[2] \in Buf1(Half(Tile1))
    BY <1>1, <2>1, TileMoves
  <2> QED BY <1>4, <2>1, <2>2, <2>3
<1>5. CASE Reading2 /\ c = DmaR_Evt2
  <2>1. Tile2 \in Tile /\ Flow2(pending, mem, c, Tile2)
    BY <1>5, TilesInFlight DEF IInv, Transfers
  <2>2. \E i \in Nat : m = << (Int2 + Start(Tile2)) + i, L1_In2(Half(Tile2)) + i >>
    <3>1. /\ Flow(pending, mem, c, Int2 + Start(Tile2), L1_In2(Half(Tile2)), TileRows(Tile2))
          /\ Int2 + Start(Tile2) \in Int /\ L1_In2(Half(Tile2)) \in Int /\ TileRows(Tile2) \in Nat
      BY <1>2, <2>1 DEF Flow2
    <3> QED BY <1>3, <3>1
  <2>3. m[1] \in Area(Int2) /\ m[2] \in Buf2(Half(Tile2))
    BY <1>1, <2>1, TileMoves
  <2> QED BY <1>5, <2>1, <2>2, <2>3
<1>6. CASE Writing /\ c = DmaW_Evt1
  <2>1. T0Ind - 1 \in Tile /\ FlowW(pending, mem, c, T0Ind - 1)
    BY <1>6, TilesInFlight DEF IInv, Transfers
  <2>2. \E i \in Nat : m = << L1_Out(Half(T0Ind - 1)) + i, (Out + Start(T0Ind - 1)) + i >>
    <3>1. /\ Flow(pending, mem, c, L1_Out(Half(T0Ind - 1)), Out + Start(T0Ind - 1), TileRows(T0Ind - 1))
          /\ L1_Out(Half(T0Ind - 1)) \in Int /\ Out + Start(T0Ind - 1) \in Int /\ TileRows(T0Ind - 1) \in Nat
      BY <1>2, <2>1 DEF FlowW
    <3> QED BY <1>3, <3>1
  <2>3. m[1] \in BufO(Half(T0Ind - 1)) /\ m[2] \in Area(Out)
    BY <1>1, <2>1, TileMoves
  <2> QED BY <1>6, <2>1, <2>2, <2>3
<1>7. (Reading1 /\ c = DmaR_Evt1) \/ (Reading2 /\ c = DmaR_Evt2) \/ (Writing /\ c = DmaW_Evt1)
  BY <1>1 DEF IInv, Counters
<1> QED BY <1>4, <1>5, <1>6, <1>7

\* No transfer reads or writes what another writes.
LEMMA IInvNoDmaRace == IInv => NoDmaRace
<1> SUFFICES ASSUME IInv, NEW m \in InFlight, NEW n \in InFlight
             PROVE  (m[2] = n[2] => m = n) /\ m[1] # n[2]
  BY DEF NoDmaRace
<1>1. /\ Tile1 \in Tile => Half(Tile1) \in {0, 1}
      /\ Tile2 \in Tile => Half(Tile2) \in {0, 1}
      /\ T0Ind - 1 \in Tile => Half(T0Ind - 1) \in {0, 1}
  BY TileFacts
<1>2. m[1] # n[2]
  BY <1>1, InFlightMoves, MemoryMap
<1>3. ASSUME m[2] = n[2] PROVE m = n
  <2>1. \A t \in Tile : /\ Int1 + Start(t) \in Int /\ L1_In1(Half(t)) \in Int
                        /\ Int2 + Start(t) \in Int /\ L1_In2(Half(t)) \in Int
                        /\ Out + Start(t) \in Int /\ L1_Out(Half(t)) \in Int
    BY TileFacts, Bases
  <2>2. \A from, to \in Int, i, k \in Nat :
          m = << from + i, to + i >> /\ n = << from + k, to + k >> => m = n
    BY <1>3
  <2>3. CASE m[2] \in Buf1(Half(Tile1)) /\ Tile1 \in Tile
    BY <1>1, <1>3, <2>1, <2>2, <2>3, InFlightMoves, MemoryMap
  <2>4. CASE m[2] \in Buf2(Half(Tile2)) /\ Tile2 \in Tile
    BY <1>1, <1>3, <2>1, <2>2, <2>4, InFlightMoves, MemoryMap
  <2>5. CASE m[2] \in Area(Out) /\ T0Ind - 1 \in Tile
    BY <1>1, <1>3, <2>1, <2>2, <2>5, InFlightMoves, MemoryMap
  <2> QED BY <2>3, <2>4, <2>5, InFlightMoves
<1> QED BY <1>2, <1>3

LEMMA IInvHalvesApart == IInv => HalvesApart
<1> SUFFICES ASSUME IInv, working # {},
                    NEW m \in InFlight
             PROVE  /\ m[2] \notin Buf1(Half(T0Ind)) \cup Buf2(Half(T0Ind)) \cup BufO(Half(T0Ind))
                    /\ m[1] \notin BufO(Half(T0Ind))
  <2>1. ASSUME IInv, working # {}
        PROVE  /\ Rows(L1_In1(T0Ind % 2), H) \subseteq Buf1(Half(T0Ind))
               /\ Rows(L1_In2(T0Ind % 2), H) \subseteq Buf2(Half(T0Ind))
               /\ Rows(L1_Out(T0Ind % 2), H) \subseteq BufO(Half(T0Ind))
    <3>1. T0Ind \in Tile /\ H = TileRows(T0Ind) /\ T0Ind % 2 = Half(T0Ind)
      BY <2>1 DEF IInv, Control, InLoop, H, Last, TileRows, Half
    <3> QED BY <3>1, TileBlocks DEF Rows, Block
  <2> QED BY <2>1 DEF HalvesApart, Destinations, Sources
<1>1. pc = "team" /\ T0Ind \in Tile /\ Control
  BY DEF IInv, Control, InLoop
<1>2. /\ Half(T0Ind) \in {0, 1}
      /\ Reading1 => Half(Tile1) \in {0, 1} /\ Half(Tile1) # Half(T0Ind)
      /\ Reading2 => Half(Tile2) \in {0, 1} /\ Half(Tile2) # Half(T0Ind)
      /\ Writing => Half(T0Ind - 1) \in {0, 1} /\ Half(T0Ind - 1) # Half(T0Ind)
  BY <1>1, TilesInFlight, TileFacts DEF InLoop
<1> QED BY <1>2, InFlightMoves, MemoryMap

LEMMA IInvTransfersInPlace == IInv => TransfersInPlace
<1> SUFFICES ASSUME IInv, NEW m \in InFlight
             PROVE  \/ m[1] \in Area(Int1) /\ m[2] \in Rows(L1_In1(0), 2 * TILE_ROWS)
                    \/ m[1] \in Area(Int2) /\ m[2] \in Rows(L1_In2(0), 2 * TILE_ROWS)
                    \/ m[1] \in Rows(L1_Out(0), 2 * TILE_ROWS) /\ m[2] \in Area(Out)
  BY DEF TransfersInPlace, Rows, Area, Block
<1>1. \A h \in {0, 1} : /\ Buf1(h) \subseteq Rows(L1_In1(0), 2 * TILE_ROWS)
                        /\ Buf2(h) \subseteq Rows(L1_In2(0), 2 * TILE_ROWS)
                        /\ BufO(h) \subseteq Rows(L1_Out(0), 2 * TILE_ROWS)
  <2> TAKE h \in {0, 1}
  <2>1. CASE h = 0
    BY <2>1, ConstFacts DEF Buf1, Buf2, BufO, Block, Rows, L1_In1, L1_In2, L1_Out
  <2>2. CASE h = 1
    BY <2>2, ConstFacts DEF Buf1, Buf2, BufO, Block, Rows, L1_In1, L1_In2, L1_Out
  <2> QED BY <2>1, <2>2
<1> QED BY <1>1, InFlightMoves, TileFacts

LEMMA IInvSumOnReturn == IInv => SumOnReturn
<1> SUFFICES ASSUME IInv, pc \in {"in1", "return"}, iter > 0
             PROVE  /\ \A r \in Row, c \in Col : mem[Out + r][c] = In1Value(r) + In2Value(r)
                    /\ InFlight = {} /\ held = {}
  BY DEF SumOnReturn
<1>1. held = {} /\ InFlight = {}
  BY DEF IInv, Counters, InFlight, InLoop, Reading1, Reading2, Writing
<1>2. \A r \in Row : mem[Out + r] = SumRow(r)
  BY ConstFacts DEF IInv, Data, OutIsSum, Row
<1> QED BY <1>1, <1>2 DEF SumRow

\* test.c and MatAddKernels.c: two transfers in flight never meet, so that the
\* order in which the engine moves rows does not show.
THEOREM NoRace == Spec \/ OffloadSpec => []NoDmaRace
BY JobInvariant, IInvNoDmaRace, PTL

\* The cores and the transfers work on different halves of the double buffers.
THEOREM HalvesNeverMeet == Spec \/ OffloadSpec => []HalvesApart
BY JobInvariant, IInvHalvesApart, PTL

\* Every transfer stays in its buffer and in its matrix.
THEOREM StaysInPlace == Spec \/ OffloadSpec => []TransfersInPlace
BY JobInvariant, IInvTransfersInPlace, PTL

\* When MatADD has returned, Out is the sum of the matrices, whatever their
\* size, the number of tiles and of cores, and the order of the moves.
THEOREM SumIsRight == Spec \/ OffloadSpec => []SumOnReturn
BY JobInvariant, IInvSumOnReturn, PTL
-----------------------------------------------------------------------------
(* The host.                                                               *)

\* When the launch has returned, nothing the job started goes on behind the
\* host's back, and a host that succeeds leaves nothing of its own allocated:
\* the safety part of HostEnds, of main of matadd/host/test.c.
HostLeavesNothing ==
  /\ host \in {"report", "exit_0"} => InFlight = {} /\ held = {}
  /\ host = "exit_0" => owned = {}

\* What the host holds at each place, and how far the job is then.
HostInv ==
  /\ host = "usage" => owned = {}
  /\ host = "load" => owned = {"knl"}
  /\ host \in {"open", "launch", "wait", "report"} => owned = {"knl", "dev"}
  /\ host = "exit_0" => owned = {}
  /\ host \in {"report", "exit_0"} => job = "over"
  /\ host \in {"usage", "load", "open", "launch"} => job = "none"
  /\ job = "over" => pc \in {"return", "failed"}

LEMMA HostInvStep == HostInv /\ [OffloadNext]_offloadVars => HostInv'
<1> SUFFICES ASSUME HostInv, [OffloadNext]_offloadVars PROVE HostInv'
  OBVIOUS
<1>1. CASE HostStep /\ UNCHANGED vars
  BY <1>1 DEF HostInv, HostStep, Usage, LoadFails, Open, OpenFails, Launch, LaunchFails, WaitAll, vars
<1>2. CASE (LoadKernel \/ CleanUp) /\ UNCHANGED vars
  BY <1>2 DEF HostInv, LoadKernel, Load, CleanUp, vars
<1>3. CASE JobEnds
  BY <1>3 DEF HostInv, JobEnds, vars
<1>4. CASE job = "running" /\ UNCHANGED hostVars
  BY <1>4 DEF HostInv, hostVars
<1>5. CASE Move /\ UNCHANGED hostVars
  BY <1>5 DEF HostInv, hostVars, Move
<1>6. CASE UNCHANGED offloadVars
  BY <1>6 DEF HostInv, hostVars, offloadVars, vars
<1> QED BY <1>1, <1>2, <1>3, <1>4, <1>5, <1>6 DEF OffloadNext, HostMoves, Runs, Stopped

\* matadd/host: with the host, the job's transfers are over when its launch
\* returns, whatever main of the job returned, and the clean-up is complete.
THEOREM HostEndsClean == OffloadSpec => []HostLeavesNothing
<1>1. OffloadInit => HostInv
  BY DEF OffloadInit, HostInit, HostInv
<1>2. IInv /\ HostInv => HostLeavesNothing
  <2>1. IInv /\ pc \in {"return", "failed"} => InFlight = {} /\ held = {}
    BY DEF IInv, Counters, InFlight, InLoop, Reading1, Reading2, Writing
  <2> QED BY <2>1 DEF HostInv, HostLeavesNothing
<1> QED BY <1>1, <1>2, HostInvStep, JobInvariant, PTL DEF OffloadSpec
=============================================================================
