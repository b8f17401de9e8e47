--------------------------- MODULE DdrSniffer_proofs ---------------------------
(***************************************************************************)
(* The sniffer and its host, with a memory of any size and any contents,   *)
(* any points and limit, and strings of any length: the answer is right,   *)
(* and the whole keeps the safety part of what Offload promises.           *)
(*                                                                         *)
(* The scan is a search for the first hit: at each point, what has been    *)
(* read are the points before it, and no hit is among them.  The job sees  *)
(* all of this through copies: of the WED, with the end of its pattern     *)
(* replaced, and of one chunk after another.                               *)
(***************************************************************************)
EXTENDS DdrSniffer, DmaLemmas

PC == {"idle", "load", "start", "read", "compare", "found", "finish", "over"}

\* The host has filled the WED and has not given up.
Filled == host \in {"open", "launch", "wait", "report", "exit_0", "null_output"}

Control ==
  /\ pc \in PC /\ job \in {"none", "running", "over"}
  /\ pc = "idle" <=> job = "none"
  /\ pc = "over" <=> job = "over"
  /\ job # "none" => host \in {"wait", "report", "exit_0", "null_output"}
  /\ host = "wait" => job # "none"
  /\ host \in {"report", "exit_0", "null_output"} => job = "over"

\* What a host can put into a WED.
Asked ==
  /\ Wed(0) \in OFFSETS /\ Wed(1) \in SHIFTS /\ Wed(2) \in LIMITS /\ Wed(3) \in PATTERNS
  /\ Wed(4) \in {0, OUTPUT_AT}

\* calloc's block is where the WED says, or there is none and the WED says NULL.
WedInv ==
  /\ Filled => Asked
  /\ host \in {"usage", "load"} => "output" \notin owned
  /\ host \in {"open", "launch", "wait", "report"} => ("output" \in owned <=> Wed(4) = OUTPUT_AT)
  /\ host = "exit_0" => Wed(4) = OUTPUT_AT

\* The transfer that is waited for next has the only counter that is taken.
Counters ==
  /\ held = IF pc \in {"start", "compare", "finish"} THEN {id} ELSE {}
  /\ held \subseteq Counter
  /\ pending = [c \in Counter |-> pending[c]]
  /\ \A c \in Counter \ held : pending[c] = {}

Transfer ==
  /\ pc = "start"   => Flow(pending, mem, id, htop(WED_AT), LocalWed, 5)
  /\ pc = "compare" => Flow(pending, mem, id, address, Buff, 1)
  /\ pc = "finish"  => Flow(pending, mem, id, LocalMatch, htop(Wed(4)), 1)

\* The copy of the WED is the WED, but for the end of the pattern.
Memory ==
  /\ mem = [a \in Addr |-> mem[a]]
  /\ \A a \in External : mem[a] \in CHUNKS
  /\ pc \in {"read", "compare", "found", "finish"} =>
       /\ spy_shift = Wed(1) /\ spy_limit = Wed(2) /\ output = Wed(4)
       /\ pattern = Terminated(Wed(3))

\* The points where the pattern is, and what a complete scan has read and found.
Hits == {a \in Points : Begins(mem[a], Wed(3))}
Scanned(match) ==
  /\ spied = {a \in Points : \A hit \in Hits : a <= hit}
  /\ match = IF Hits # {} THEN 1 ELSE 0

Scan ==
  /\ pc \in {"idle", "load", "start"} => spied = {}
  /\ pc \in {"idle", "load", "start", "read", "compare"} => mem[LocalMatch] = 0
  /\ pc \in {"read", "compare"} => address \in Points /\ \A hit \in Hits : address <= hit
  /\ pc = "read" => spied = {a \in Points : a < address}
  /\ pc = "compare" => spied = {a \in Points : a <= address}
  /\ pc \in {"found", "finish"} => Scanned(mem[LocalMatch])
  /\ pc = "over" => Scanned(mem[htop(Wed(4))])

IInv == Control /\ WedInv /\ Counters /\ Transfer /\ Memory /\ Scan

-----------------------------------------------------------------------------
(* The memory map: local memory, external memory, host memory.             *)

HostWindow == HOST_WINDOW .. 2 * HOST_WINDOW - 1
Local      == 0 .. LocalMatch

LEMMA Bounds ==
  /\ HOST_WINDOW \in Nat /\ ddr_base \in Nat /\ 6 < ddr_base /\ 2 * ddr_base <= HOST_WINDOW
  /\ Buff = 0 /\ LocalWed = 1 /\ LocalMatch = 6
  /\ Addr = 0 .. 2 * HOST_WINDOW - 1 /\ External = ddr_base .. HOST_WINDOW - 1
BY DdrSnifferAssumption DEF Buff, LocalWed, LocalMatch, ddr_base, Addr, External

LEMMA HostAddresses ==
  /\ htop(WED_AT) \in HostWindow
  /\ \A k \in 0 .. 4 : htop(WED_AT + k) = htop(WED_AT) + k /\ htop(WED_AT + k) \in HostWindow
  /\ \A a \in {0, OUTPUT_AT} : /\ htop(a) \in HostWindow
                               /\ \A k \in 0 .. 4 : htop(a) # htop(WED_AT) + k
  /\ OUTPUT_AT # 0
<1>1. /\ HOST_WINDOW \in Nat /\ WED_AT \in Nat /\ OUTPUT_AT \in Nat
      /\ 0 < WED_AT /\ WED_AT + 5 <= OUTPUT_AT /\ OUTPUT_AT < HOST_WINDOW
  BY DdrSnifferAssumption
<1>2. \A a \in 0 .. HOST_WINDOW - 1 : htop(a) = a + HOST_WINDOW /\ htop(a) \in HostWindow
  BY <1>1 DEF htop, HostWindow
<1>3. \A k \in 0 .. 4 : WED_AT + k \in 0 .. HOST_WINDOW - 1
  BY <1>1
<1>4. WED_AT \in 0 .. HOST_WINDOW - 1 /\ \A a \in {0, OUTPUT_AT} : a \in 0 .. HOST_WINDOW - 1
  BY <1>1
<1> QED BY <1>1, <1>2, <1>3, <1>4

\* The three memories have no address in common.
LEMMA Apart ==
  /\ Local \cap External = {} /\ Local \cap HostWindow = {} /\ External \cap HostWindow = {}
  /\ Local \cup External \cup HostWindow \subseteq Addr
BY Bounds DEF Local, HostWindow

-----------------------------------------------------------------------------
(* Strings.                                                                *)

\* strncmp with the length of the pattern cut to its size compares the
\* characters before the first NUL, and nothing else.
LEMMA Matching ==
  ASSUME NEW str \in String, NEW chunk
  PROVE  SameUpTo(Terminated(str), chunk, bare_strlen(Terminated(str))) <=> Begins(chunk, str)
<1> DEFINE T == Terminated(str)
           n == bare_strlen(T)
           IsLength(k) == /\ k = PATTERN_SIZE \/ T[k] = 0
                          /\ \A i \in 0 .. k - 1 : T[i] # 0
<1>1. PATTERN_SIZE \in Nat /\ PATTERN_SIZE > 0
  BY DdrSnifferAssumption
<1>2. T[PATTERN_SIZE - 1] = 0 /\ \A i \in 0 .. PATTERN_SIZE - 2 : T[i] = str[i]
  BY <1>1 DEF Terminated, String, Index
<1> HIDE DEF T
<1>3. \E k \in 0 .. PATTERN_SIZE : IsLength(k)
  <2> DEFINE Z == {i \in 0 .. PATTERN_SIZE - 1 : T[i] = 0}
  <2>1. Z \in SUBSET Nat /\ PATTERN_SIZE - 1 \in Z
    BY <1>1, <1>2
  <2>2. PICK k \in Z : \A i \in Z : k <= i
    <3> HIDE DEF Z
    <3> QED BY <2>1, LeastNatural
  <2>3. \A i \in 0 .. k - 1 : T[i] # 0
    BY <1>1, <2>2
  <2> QED BY <1>1, <2>2, <2>3
<1>4. n \in 0 .. PATTERN_SIZE /\ IsLength(n)
  BY <1>3 DEF bare_strlen
<1> HIDE DEF n
<1>5. n <= PATTERN_SIZE - 1
  BY <1>1, <1>2, <1>4
<1>6. ASSUME SameUpTo(T, chunk, n) PROVE Begins(chunk, str)
  <2> SUFFICES ASSUME NEW i \in 0 .. PATTERN_SIZE - 2, \A j \in 0 .. i : str[j] # 0
               PROVE  chunk[i] = str[i]
    BY DEF Begins
  <2>1. i < n
    <3> SUFFICES ASSUME n <= i PROVE FALSE
      BY <1>4
    <3>1. n \in 0 .. i /\ n \in 0 .. PATTERN_SIZE - 2 /\ T[n] = 0
      BY <1>1, <1>4, <1>5
    <3> QED BY <1>2, <3>1
  <2>2. i \in 0 .. n - 1 /\ \A j \in 0 .. i - 1 : T[j] # 0
    BY <1>4, <2>1
  <2> QED BY <1>2, <1>6, <2>2 DEF SameUpTo
<1>7. ASSUME Begins(chunk, str) PROVE SameUpTo(T, chunk, n)
  <2> SUFFICES ASSUME NEW i \in 0 .. n - 1 PROVE T[i] = chunk[i]
    BY DEF SameUpTo
  <2>1. i \in 0 .. PATTERN_SIZE - 2 /\ \A j \in 0 .. i : j \in 0 .. PATTERN_SIZE - 2 /\ j \in 0 .. n - 1
    BY <1>1, <1>4, <1>5
  <2>2. \A j \in 0 .. i : str[j] # 0
    BY <1>2, <1>4, <2>1
  <2> QED BY <1>2, <1>7, <2>1, <2>2 DEF Begins
<1> QED BY <1>6, <1>7 DEF T, n

-----------------------------------------------------------------------------
(* Points.                                                                 *)

LEMMA Spacing ==
  ASSUME NEW s \in Nat, NEW m \in Nat, NEW n \in Nat
  PROVE  /\ m * s \in Nat /\ n * s \in Nat
         /\ m <= n => m * s <= n * s
         /\ m > n => m * s >= n * s + s
<1>1. m * s \in Nat /\ n * s \in Nat
  OBVIOUS
<1>2. m <= n => (n - m) * s >= 0
  OBVIOUS
<1>3. m > n => (m - n - 1) * s >= 0
  OBVIOUS
<1> QED BY <1>1, <1>2, <1>3

\* The point number n is in the external memory, the first one in any case.
IsPoint(a, n) ==
  /\ a = ddr_base + Wed(0) + n * Wed(1)
  /\ n = 0 \/ a - ddr_base < Wed(2)

LEMMA AskedNumbers ==
  ASSUME Asked
  PROVE  /\ Wed(0) \in Nat /\ Wed(0) < ddr_base
         /\ Wed(1) \in Nat /\ Wed(1) > 0
         /\ Wed(2) \in Nat /\ Wed(2) <= ddr_base
<1>1. Wed(1) \in Nat \ {0}
  BY DdrSnifferAssumption DEF Asked
<1>2. Wed(0) \in 0 .. ddr_base - 1 /\ Wed(2) \in 0 .. ddr_base
  BY DdrSnifferAssumption DEF Asked
<1> QED BY <1>1, <1>2, Bounds

LEMMA PointNumber ==
  ASSUME Asked, NEW a
  PROVE  a \in Points <=> \E n \in Nat : IsPoint(a, n)
<1> USE AskedNumbers, Bounds
<1>1. ASSUME a \in Points PROVE \E n \in Nat : IsPoint(a, n)
  <2>1. CASE a = ddr_base + Wed(0)
    <3>1. IsPoint(a, 0)
      BY <2>1 DEF IsPoint
    <3> QED BY <3>1
  <2>2. CASE a # ddr_base + Wed(0)
    <3>1. PICK n \in 1 .. ddr_base : a = ddr_base + Wed(0) + n * Wed(1) /\ a - ddr_base < Wed(2)
      BY <1>1, <2>2 DEF Points
    <3> QED BY <3>1 DEF IsPoint
  <2> QED BY <2>1, <2>2
<1>2. ASSUME NEW n \in Nat, IsPoint(a, n) PROVE a \in Points
  <2>1. CASE n = 0
    BY <1>2, <2>1 DEF IsPoint, Points
  <2>2. CASE n # 0
    <3>1. a = ddr_base + Wed(0) + n * Wed(1) /\ a - ddr_base < Wed(2)
      BY <1>2, <2>2 DEF IsPoint
    <3>2. n * Wed(1) \in Nat /\ n <= n * Wed(1)
      <4>1. n * (Wed(1) - 1) >= 0
        OBVIOUS
      <4> QED BY <4>1
    <3>3. n \in 1 .. ddr_base /\ a \in External
      BY <2>2, <3>1, <3>2
    <3> QED BY <3>1, <3>3 DEF Points
  <2> QED BY <2>1, <2>2
<1> QED BY <1>1, <1>2

LEMMA FirstPoint ==
  ASSUME Asked
  PROVE  /\ ddr_base + Wed(0) \in Points
         /\ \A a \in Points : a \in Int /\ a \in External /\ ddr_base + Wed(0) <= a
<1> USE AskedNumbers, Bounds
<1>1. ddr_base + Wed(0) \in Points
  BY DEF Points
<1>2. ASSUME NEW a \in Points PROVE a \in External /\ ddr_base + Wed(0) <= a
  <2>1. PICK n \in Nat : IsPoint(a, n)
    BY PointNumber
  <2>2. n * Wed(1) \in Nat
    OBVIOUS
  <2>3. ddr_base + Wed(0) <= a
    BY <2>1, <2>2 DEF IsPoint
  <2>4. a \in External
    BY DEF Points
  <2> QED BY <2>3, <2>4
<1> QED BY <1>1, <1>2

\* The next point is the next one asked for, or there is none.
LEMMA NextPoint ==
  ASSUME Asked, NEW p \in Points
  PROVE  /\ p + Wed(1) - ddr_base < Wed(2) =>
              /\ p + Wed(1) \in Points
              /\ \A a \in Points : a < p + Wed(1) <=> a <= p
         /\ ~(p + Wed(1) - ddr_base < Wed(2)) => \A a \in Points : a <= p
<1> DEFINE first == ddr_base + Wed(0)
           shift == Wed(1)
           limit == ddr_base + Wed(2)
<1>1. first \in Nat /\ shift \in Nat /\ shift > 0 /\ limit \in Nat /\ ddr_base \in Nat
      /\ Wed(2) \in Nat
  BY AskedNumbers, Bounds
<1>2. \A a \in Int : a - ddr_base < Wed(2) <=> a < limit
  BY <1>1
<1>3. \A a \in Points : a \in Int
  BY FirstPoint
<1>4. \A a \in Points : \E m \in Nat : a = first + m * shift /\ (m = 0 \/ a < limit)
  BY <1>2, <1>3, PointNumber DEF IsPoint
<1>5. PICK n \in Nat : p = first + n * shift
  BY <1>4
<1>6. n * shift \in Nat /\ (n + 1) * shift = n * shift + shift
  BY <1>1
<1>7. p + shift < limit => p + shift \in Points
  <2> SUFFICES ASSUME p + shift < limit PROVE p + shift \in Points
    OBVIOUS
  <2>1. p + shift = first + (n + 1) * shift /\ p + shift \in Int /\ n + 1 \in Nat
    BY <1>1, <1>3, <1>5, <1>6
  <2>2. IsPoint(p + shift, n + 1)
    BY <1>2, <2>1 DEF IsPoint
  <2> QED BY <2>1, <2>2, PointNumber
<1>8. ASSUME NEW a \in Points, a > p PROVE a >= p + shift /\ a < limit
  <2>1. PICK m \in Nat : a = first + m * shift /\ (m = 0 \/ a < limit)
    BY <1>4
  <2> HIDE DEF first, shift, limit
  <2>2. /\ m * shift \in Nat
        /\ m <= n => m * shift <= n * shift
        /\ m > n => m * shift >= n * shift + shift
    BY <1>1, Spacing
  <2> DEFINE mine == m * shift
             its  == n * shift
  <2>3. mine \in Nat /\ its \in Nat /\ (m <= n => mine <= its) /\ (m > n => mine >= its + shift)
    BY <1>6, <2>2
  <2>4. a = first + mine /\ p = first + its
    BY <1>5, <2>1
  <2> HIDE DEF mine, its
  <2>5. m > n
    BY <1>1, <1>8, <2>3, <2>4
  <2> QED BY <1>1, <2>1, <2>3, <2>4, <2>5
<1>9. p \in Int
  BY <1>3
<1> HIDE DEF shift, limit
<1>10. p + shift < limit => \A a \in Points : a < p + shift <=> a <= p
  BY <1>1, <1>3, <1>8, <1>9
<1>11. ~ (p + shift < limit) => \A a \in Points : a <= p
  BY <1>1, <1>3, <1>8, <1>9
<1>12. p + shift - ddr_base < Wed(2) <=> p + shift < limit
  BY <1>1, <1>2, <1>9
<1> QED BY <1>7, <1>10, <1>11, <1>12 DEF shift

-----------------------------------------------------------------------------
(* What a step leaves alone.                                               *)

WedBlock == Block(htop(WED_AT), 5)

\* The WED and the external memory stay, and with them the question.
QuestionKept == Agree(mem, mem', WedBlock) /\ Agree(mem, mem', External)

LEMMA WedAddresses ==
  /\ \A k \in 0 .. 4 : htop(WED_AT + k) \in WedBlock /\ htop(WED_AT + k) = htop(WED_AT) + k
  /\ \A a \in {0, OUTPUT_AT} : htop(a) \in HostWindow \ WedBlock
  /\ WedBlock \subseteq HostWindow
<1>1. htop(WED_AT) \in HostWindow /\ htop(WED_AT + 4) = htop(WED_AT) + 4 /\ htop(WED_AT + 4) \in HostWindow
  BY HostAddresses
<1>2. WedBlock = {htop(WED_AT) + k : k \in 0 .. 4}
  BY <1>1 DEF WedBlock, Block, HostWindow
<1> QED BY <1>1, <1>2, HostAddresses, Bounds DEF HostWindow

LEMMA WedSame ==
  ASSUME Agree(mem, mem', WedBlock)
  PROVE  /\ Wed(0)' = Wed(0) /\ Wed(1)' = Wed(1) /\ Wed(2)' = Wed(2) /\ Wed(3)' = Wed(3)
         /\ Wed(4)' = Wed(4) /\ (Asked' <=> Asked)
<1>1. \A k \in 0 .. 4 : mem'[htop(WED_AT + k)] = mem[htop(WED_AT + k)]
  BY WedAddresses DEF Agree
<1>2. /\ Wed(0)' = Wed(0) /\ Wed(1)' = Wed(1) /\ Wed(2)' = Wed(2) /\ Wed(3)' = Wed(3)
      /\ Wed(4)' = Wed(4)
  BY <1>1 DEF Wed
<1> QED BY <1>2 DEF Asked

LEMMA QuestionSame ==
  ASSUME QuestionKept, Asked
  PROVE  Points' = Points /\ Hits' = Hits /\ \A a \in Points : mem'[a] = mem[a]
<1>1. Points' = Points
  BY WedSame DEF Points, QuestionKept
<1>2. \A a \in Points : mem'[a] = mem[a]
  BY FirstPoint DEF QuestionKept, Agree
<1>3. Hits' = {a \in Points : Begins(mem'[a], Wed(3))}
  BY <1>1, WedSame DEF Hits, QuestionKept, Begins
<1> QED BY <1>1, <1>2, <1>3 DEF Hits

\* What the WED names while the job runs.
LEMMA Named ==
  ASSUME IInv, pc # "idle"
  PROVE  Filled /\ Asked /\ htop(Wed(4)) \in HostWindow \ WedBlock
BY WedAddresses DEF IInv, Control, WedInv, Filled, Asked

\* A step of the job that is not its last leaves the host's invariants alone.
LEMMA HostUntouched ==
  ASSUME IInv, UNCHANGED hostVars, QuestionKept,
         pc \notin {"idle", "over"}, pc' \in PC \ {"idle", "over"}
  PROVE  Control' /\ WedInv'
<1>1. Control'
  BY DEF IInv, Control, hostVars
<1>2. WedInv'
  BY WedSame DEF IInv, WedInv, Filled, hostVars, QuestionKept
<1> QED BY <1>1, <1>2

LEMMA SameMemory == mem' = mem => QuestionKept
BY DEF QuestionKept, Agree

LEMMA OneStore ==
  ASSUME mem = [a \in Addr |-> mem[a]], NEW at \in Addr, NEW value,
         mem' = [mem EXCEPT ![at] = value]
  PROVE  /\ \A a \in Addr : a # at => mem'[a] = mem[a]
         /\ mem'[at] = value /\ mem' = [a \in Addr |-> mem'[a]]
OBVIOUS

\* plp_dma_memcpy at a point where no counter is taken.
LEMMA OneTransfer ==
  ASSUME IInv, held = {}, NEW from, NEW to, NEW n,
         plp_dma_memcpy(held, from, to, n), id' = NextCounter(held),
         pc' \in {"start", "compare", "finish"}
  PROVE  Counters' /\ pending'[id'] = Moves(from, to, n)
<1>1. /\ id' \in Counter \ held /\ held' = held \cup {id'}
      /\ pending'[id'] = Moves(from, to, n)
      /\ \A c \in Counter \ {id'} : pending'[c] = pending[c]
      /\ pending' = [c \in Counter |-> pending'[c]]
  BY MemcpyTakes DEF IInv, Counters
<1>2. \A c \in Counter : pending[c] = {}
  BY DEF IInv, Counters
<1> QED BY <1>1, <1>2 DEF Counters

-----------------------------------------------------------------------------
(* The host's steps.                                                       *)

LEMMA InitIInv == Init => IInv
<1> SUFFICES ASSUME Init PROVE IInv
  OBVIOUS
<1>1. PICK chunks \in [External -> CHUNKS] :
        DmaInit([a \in Addr |-> IF a \in External THEN chunks[a]
                                ELSE IF a \in Strings THEN Empty ELSE 0])
  BY DEF Init
<1>2. /\ mem = [a \in Addr |-> mem[a]] /\ \A a \in External : mem[a] \in CHUNKS
      /\ \A a \in Local : a \notin Strings => mem[a] = 0
  BY <1>1, Apart DEF DmaInit
<1>3. LocalMatch \in Local /\ LocalMatch \notin Strings
  BY Bounds, HostAddresses DEF Local, Strings, HostWindow
<1>4. Control /\ WedInv
  BY DEF Init, HostInit, Control, PC, WedInv, Filled
<1>5. Counters /\ Transfer
  BY <1>1 DEF Init, DmaInit, Counters, Transfer
<1>6. Memory /\ Scan
  BY <1>2, <1>3 DEF Init, Memory, Scan
<1> QED BY <1>4, <1>5, <1>6 DEF IInv

LEMMA FillWedStep == IInv /\ FillWed => IInv'
<1> SUFFICES ASSUME IInv, FillWed PROVE IInv'
  OBVIOUS
<1>1. PICK offset \in OFFSETS, shift \in SHIFTS, limit \in LIMITS, str \in PATTERNS, given \in BOOLEAN :
        /\ Load(given)
        /\ mem' = [mem EXCEPT ![htop(WED_AT)] = offset, ![htop(WED_AT + 1)] = shift,
                              ![htop(WED_AT + 2)] = limit,
                              ![htop(WED_AT + 3)] = str,
                              ![htop(WED_AT + 4)] = IF given THEN OUTPUT_AT ELSE 0]
  BY DEF FillWed
<1>2. /\ pc = "idle" /\ job = "none" /\ host = "load" /\ host' = "open"
      /\ UNCHANGED << pc, id, job, address, spied, pending, held >>
  BY <1>1 DEF IInv, FillWed, Load, Control
<1>3. /\ \A a \in Addr : a \notin WedBlock => mem'[a] = mem[a]
      /\ mem' = [a \in Addr |-> mem'[a]]
  <2>1. /\ htop(WED_AT) \in WedBlock /\ htop(WED_AT + 1) \in WedBlock /\ htop(WED_AT + 2) \in WedBlock
        /\ htop(WED_AT + 3) \in WedBlock /\ htop(WED_AT + 4) \in WedBlock
    <3>1. WED_AT + 0 = WED_AT
      BY DdrSnifferAssumption
    <3> QED BY <3>1, WedAddresses
  <2>2. mem = [a \in Addr |-> mem[a]]
    BY DEF IInv, Memory
  <2> QED BY <1>1, <2>1, <2>2
<1>4. /\ Wed(0)' = offset /\ Wed(1)' = shift /\ Wed(2)' = limit /\ Wed(3)' = str
      /\ Wed(4)' = IF given THEN OUTPUT_AT ELSE 0
  <2>1. /\ htop(WED_AT + 0) = htop(WED_AT)
        /\ htop(WED_AT) \in Addr /\ htop(WED_AT + 1) \in Addr /\ htop(WED_AT + 2) \in Addr
        /\ htop(WED_AT + 3) \in Addr /\ htop(WED_AT + 4) \in Addr
    BY HostAddresses, Apart, DdrSnifferAssumption
  <2>2. /\ htop(WED_AT + 1) = htop(WED_AT) + 1 /\ htop(WED_AT + 2) = htop(WED_AT) + 2
        /\ htop(WED_AT + 3) = htop(WED_AT) + 3 /\ htop(WED_AT + 4) = htop(WED_AT) + 4
        /\ htop(WED_AT) \in Int
    BY HostAddresses, Bounds DEF HostWindow
  <2>3. mem = [a \in Addr |-> mem[a]]
    BY DEF IInv, Memory
  <2> QED BY <1>1, <2>1, <2>2, <2>3 DEF Wed
<1>5. "output" \in owned' <=> given
  BY <1>1, <1>2 DEF IInv, WedInv, Load
<1>6. Control'
  BY <1>2 DEF IInv, Control
<1>7. WedInv'
  BY <1>2, <1>4, <1>5, HostAddresses DEF WedInv, Filled, Asked
<1>8. Counters' /\ Transfer'
  BY <1>2 DEF IInv, Counters, Transfer
<1>9. Memory' /\ Scan'
  <2>1. /\ \A a \in External : a \in Addr /\ a \notin WedBlock
        /\ LocalMatch \in Addr /\ LocalMatch \notin WedBlock
    <3>1. LocalMatch \in Local
      BY Bounds DEF Local
    <3> QED BY <3>1, Apart, WedAddresses
  <2>2. Agree(mem, mem', External) /\ mem'[LocalMatch] = mem[LocalMatch]
    BY <1>3, <2>1 DEF Agree
  <2> QED BY <1>2, <1>3, <2>2 DEF IInv, Memory, Scan, Agree
<1> QED BY <1>6, <1>7, <1>8, <1>9 DEF IInv

LEMMA HostMovesStep == IInv /\ HostMoves => IInv'
<1> SUFFICES ASSUME IInv, HostMoves PROVE IInv'
  OBVIOUS
<1>1. /\ mem' = mem /\ UNCHANGED << id, address, spied, pending, held >>
      /\ Wed(0)' = Wed(0) /\ Wed(1)' = Wed(1) /\ Wed(2)' = Wed(2) /\ Wed(3)' = Wed(3)
      /\ Wed(4)' = Wed(4) /\ (Asked' <=> Asked)
  BY SameMemory, WedSame DEF HostMoves, QuestionKept
<1>2. Control' /\ (pc' = pc \/ (pc = "idle" /\ pc' = "load"))
  BY DEF IInv, HostMoves, HostStep, Usage, LoadFails, Open, OpenFails, Launch, LaunchFails,
         WaitAll, Report, Control, PC
<1>3. WedInv'
  BY <1>1 DEF IInv, HostMoves, HostStep, Usage, LoadFails, Open, OpenFails, Launch, LaunchFails,
              WaitAll, Report, WedInv, Filled
<1>4. Counters' /\ Transfer'
  BY <1>1, <1>2 DEF IInv, Counters, Transfer
<1>5. Memory'
  BY <1>1, <1>2 DEF IInv, Memory, pattern, spy_shift, spy_limit, output
<1>6. Scan'
  <2>1. CASE pc = "idle"
    BY <1>1, <1>2, <2>1 DEF IInv, Scan
  <2>2. CASE pc # "idle"
    <3>1. pc' = pc
      BY <1>2, <2>2
    <3>2. Points' = Points /\ Hits' = Hits
      BY <1>1, <2>2, Named, SameMemory, QuestionSame
    <3> QED BY <1>1, <3>1, <3>2 DEF IInv, Scan, Scanned
  <2> QED BY <2>1, <2>2
<1> QED BY <1>2, <1>3, <1>4, <1>5, <1>6 DEF IInv

-----------------------------------------------------------------------------
(* The job's steps.                                                        *)

LEMMA LoadWedStep == IInv /\ LoadWed => IInv' /\ QuestionKept
<1> SUFFICES ASSUME IInv, LoadWed PROVE IInv' /\ QuestionKept
  OBVIOUS
<1>1. /\ pc = "load" /\ pc' = "start" /\ UNCHANGED << hostVars, address, spied, mem >> /\ held = {}
      /\ plp_dma_memcpy(held, htop(WED_AT), LocalWed, 5) /\ id' = NextCounter(held)
  BY DEF IInv, LoadWed, Counters
<1>2. QuestionKept
  BY <1>1, SameMemory
<1>3. Control' /\ WedInv'
  BY <1>1, <1>2, HostUntouched DEF PC
<1>4. Counters' /\ pending'[id'] = Moves(htop(WED_AT), LocalWed, 5)
  BY <1>1, OneTransfer
<1>5. Transfer'
  <2>1. Flow(pending', mem', id', htop(WED_AT), LocalWed, 5)
    BY <1>4 DEF Flow, Moves
  <2> QED BY <1>1, <2>1 DEF Transfer
<1>6. Memory' /\ Scan'
  BY <1>1 DEF IInv, Memory, Scan
<1> QED BY <1>2, <1>3, <1>4, <1>5, <1>6 DEF IInv

LEMMA StartSpyingStep == IInv /\ StartSpying => IInv' /\ QuestionKept
<1> SUFFICES ASSUME IInv, StartSpying PROVE IInv' /\ QuestionKept
  OBVIOUS
<1>1. /\ pc = "start" /\ pc' = "read" /\ UNCHANGED << hostVars, id, spied, pending >>
      /\ pending[id] = {} /\ held' = {}
      /\ mem' = [mem EXCEPT ![LocalWed + 3] = Terminated(@)]
      /\ address' = ddr_base + spy_offset
  BY DEF IInv, StartSpying, Waited, Release, Counters
<1>2. mem = [a \in Addr |-> mem[a]] /\ \A a \in External : mem[a] \in CHUNKS
  BY DEF IInv, Memory
<1>3. /\ spy_offset = Wed(0) /\ spy_shift = Wed(1) /\ spy_limit = Wed(2)
      /\ pattern = Wed(3) /\ output = Wed(4)
  <2>1. \A k \in 0 .. 4 : mem[LocalWed + k] = mem[htop(WED_AT) + k]
    BY <1>1, FlowOver DEF IInv, Transfer
  <2>2. \A k \in 0 .. 4 : mem[LocalWed + k] = Wed(k)
    BY <2>1, WedAddresses DEF Wed
  <2>3. LocalWed + 0 = LocalWed
    BY Bounds
  <2> QED BY <2>2, <2>3 DEF spy_offset, spy_shift, spy_limit, pattern, output
<1>4. /\ \A a \in Addr : a # LocalWed + 3 => mem'[a] = mem[a]
      /\ mem'[LocalWed + 3] = Terminated(mem[LocalWed + 3])
      /\ mem' = [a \in Addr |-> mem'[a]]
  <2>1. LocalWed + 3 \in Addr
    BY Bounds
  <2> QED BY <1>1, <1>2, <2>1, OneStore
<1>5. QuestionKept
  <2>1. LocalWed + 3 \in Local
    BY Bounds DEF Local
  <2> QED BY <1>4, <2>1, Apart, WedAddresses DEF QuestionKept, Agree
<1>6. Asked /\ Points' = Points /\ Hits' = Hits
  BY <1>1, <1>5, Named, QuestionSame
<1>7. Control' /\ WedInv'
  BY <1>1, <1>5, HostUntouched DEF PC
<1>8. Counters' /\ Transfer'
  BY <1>1 DEF IInv, Counters, Transfer
<1>9. Memory'
  <2>1. /\ spy_shift' = spy_shift /\ spy_limit' = spy_limit /\ output' = output
        /\ pattern' = Terminated(pattern)
    BY <1>4, Bounds DEF spy_shift, spy_limit, output, pattern
  <2> QED BY <1>2, <1>3, <1>4, <1>5, <2>1, WedSame DEF Memory, QuestionKept, Agree
<1>10. Scan'
  <2>1. address' \in Points /\ \A a \in Points : address' <= a /\ a \in Int /\ address' \in Int
    BY <1>1, <1>3, <1>6, FirstPoint
  <2>2. spied' = {} /\ mem'[LocalMatch] = 0
    BY <1>1, <1>4, Bounds DEF IInv, Scan
  <2>3. {a \in Points : a < address'} = {}
    BY <2>1
  <2>4. \A hit \in Hits' : address' <= hit
    BY <1>6, <2>1 DEF Hits
  <2> QED BY <1>1, <1>6, <2>1, <2>2, <2>3, <2>4 DEF Scan
<1> QED BY <1>5, <1>7, <1>8, <1>9, <1>10 DEF IInv

LEMMA ReadStep == IInv /\ Read => IInv' /\ QuestionKept
<1> SUFFICES ASSUME IInv, Read PROVE IInv' /\ QuestionKept
  OBVIOUS
<1>1. /\ pc = "read" /\ pc' = "compare" /\ UNCHANGED << hostVars, address, mem >> /\ held = {}
      /\ plp_dma_memcpy(held, address, Buff, 1) /\ id' = NextCounter(held)
      /\ spied' = spied \cup {address}
  BY DEF IInv, Read, Counters
<1>2. QuestionKept
  BY <1>1, SameMemory
<1>3. Asked /\ Points' = Points /\ Hits' = Hits
  BY <1>1, <1>2, Named, QuestionSame
<1>4. address \in Points /\ \A a \in Points : a \in Int
  BY <1>1, <1>3, FirstPoint DEF IInv, Scan
<1>5. Control' /\ WedInv'
  BY <1>1, <1>2, HostUntouched DEF PC
<1>6. Counters' /\ pending'[id'] = Moves(address, Buff, 1)
  BY <1>1, OneTransfer
<1>7. Transfer'
  <2>1. Flow(pending', mem', id', address, Buff, 1)
    BY <1>4, <1>6, FlowStarts, Bounds
  <2> QED BY <1>1, <2>1 DEF Transfer
<1>8. Memory'
  BY <1>1, <1>2, WedSame DEF IInv, Memory, QuestionKept, spy_shift, spy_limit, output, pattern
<1>9. Scan'
  <2>1. spied' = {a \in Points : a <= address}
    BY <1>1, <1>4 DEF IInv, Scan
  <2> QED BY <1>1, <1>3, <1>4, <2>1 DEF IInv, Scan
<1> QED BY <1>2, <1>5, <1>6, <1>7, <1>8, <1>9 DEF IInv

LEMMA CompareStep == IInv /\ Compare => IInv' /\ QuestionKept
<1> SUFFICES ASSUME IInv, Compare PROVE IInv' /\ QuestionKept
  OBVIOUS
<1>1. /\ pc = "compare" /\ UNCHANGED << hostVars, id, spied, pending >>
      /\ pending[id] = {} /\ held' = {} /\ address' = address + spy_shift
  BY DEF IInv, Compare, Waited, Release, Counters
<1>2. /\ mem = [a \in Addr |-> mem[a]] /\ \A a \in External : mem[a] \in CHUNKS
      /\ spy_shift = Wed(1) /\ spy_limit = Wed(2) /\ pattern = Terminated(Wed(3))
      /\ output = Wed(4)
  BY <1>1 DEF IInv, Memory
<1>3. /\ address \in Points /\ \A hit \in Hits : address <= hit
      /\ spied = {a \in Points : a <= address} /\ mem[LocalMatch] = 0
  BY <1>1 DEF IInv, Scan
<1>4. Asked
  BY <1>1, Named
<1>5. \A a \in Points : a \in Int /\ a \in External
  BY <1>4, FirstPoint
<1>6. mem[Buff] = mem[address]
  <2>1. mem[Buff + 0] = mem[address + 0]
    BY <1>1, FlowOver DEF IInv, Transfer, Flow
  <2>2. Buff + 0 = Buff /\ address + 0 = address
    BY <1>3, <1>5, Bounds
  <2> QED BY <2>1, <2>2
<1>7. SameUpTo(pattern, mem[Buff], bare_strlen(pattern)) <=> address \in Hits
  <2>1. Wed(3) \in String
    BY <1>4, DdrSnifferAssumption DEF Asked
  <2> QED BY <1>2, <1>3, <1>6, <2>1, Matching DEF Hits
<1>8. address \in Int /\ Wed(1) \in Int /\ Wed(2) \in Int /\ ddr_base \in Int
  BY <1>3, <1>4, <1>5, AskedNumbers, Bounds
<1>9. CASE address \in Hits
  <2>1. mem' = [mem EXCEPT ![LocalMatch] = 1] /\ pc' = "found"
    BY <1>7, <1>9 DEF Compare
  <2>2. /\ \A a \in Addr : a # LocalMatch => mem'[a] = mem[a]
        /\ mem'[LocalMatch] = 1 /\ mem' = [a \in Addr |-> mem'[a]]
    <3>1. LocalMatch \in Addr
      BY Bounds
    <3> QED BY <1>2, <2>1, <3>1, OneStore
  <2>3. QuestionKept
    <3>1. LocalMatch \in Local
      BY Bounds DEF Local
    <3> QED BY <2>2, <3>1, Apart, WedAddresses DEF QuestionKept, Agree
  <2>4. Points' = Points /\ Hits' = Hits
    BY <1>4, <2>3, QuestionSame
  <2>5. Control' /\ WedInv'
    BY <1>1, <2>1, <2>3, HostUntouched DEF PC
  <2>6. Counters' /\ Transfer'
    BY <1>1, <2>1 DEF IInv, Counters, Transfer
  <2>7. Memory'
    <3>1. /\ spy_shift' = spy_shift /\ spy_limit' = spy_limit /\ output' = output
          /\ pattern' = pattern
      BY <2>2, Bounds DEF spy_shift, spy_limit, output, pattern
    <3> QED BY <1>2, <2>2, <2>3, <3>1, WedSame DEF Memory, QuestionKept, Agree
  <2>8. Scan'
    <3>1. spied = {a \in Points : \A hit \in Hits : a <= hit}
      BY <1>3, <1>5, <1>9 DEF Hits
    <3> QED BY <1>1, <1>9, <2>1, <2>2, <2>4, <3>1 DEF Scan, Scanned
  <2> QED BY <2>3, <2>5, <2>6, <2>7, <2>8 DEF IInv
<1>10. CASE address \notin Hits
  <2>1. /\ mem' = mem
        /\ pc' = IF address' - ddr_base < spy_limit THEN "read" ELSE "found"
    BY <1>7, <1>10 DEF Compare
  <2>2. QuestionKept
    BY <2>1, SameMemory
  <2>3. Points' = Points /\ Hits' = Hits
    BY <1>4, <2>2, QuestionSame
  <2>4. Control' /\ WedInv'
    BY <1>1, <2>1, <2>2, HostUntouched DEF PC
  <2>5. Counters' /\ Transfer'
    BY <1>1, <2>1 DEF IInv, Counters, Transfer
  <2>6. Memory'
    BY <1>2, <2>1, <2>2, WedSame DEF Memory, QuestionKept, spy_shift, spy_limit, output, pattern
  <2>7. Scan'
    <3>1. \A hit \in Hits : hit \in Points /\ ~ (hit <= address)
      BY <1>3, <1>5, <1>10 DEF Hits
    <3>2. CASE address' - ddr_base < Wed(2)
      <4>1. address' \in Points /\ \A a \in Points : a < address' <=> a <= address
        <5>1. address' = address + Wed(1)
          BY <1>1, <1>2
        <5>2. address + Wed(1) - ddr_base < Wed(2)
          BY <1>8, <3>2, <5>1
        <5>3. /\ address + Wed(1) \in Points
              /\ \A a \in Points : a < address + Wed(1) <=> a <= address
          BY <1>3, <1>4, <5>2, NextPoint
        <5> QED BY <5>1, <5>3
      <4>2. spied = {a \in Points : a < address'}
        BY <1>3, <4>1
      <4>3. \A hit \in Hits : address' <= hit
        BY <1>5, <3>1, <4>1
      <4> QED BY <1>1, <1>2, <1>3, <2>1, <2>3, <3>2, <4>1, <4>2, <4>3 DEF Scan
    <3>3. CASE ~ (address' - ddr_base < Wed(2))
      <4>1. \A a \in Points : a <= address
        <5>1. ~ (address + Wed(1) - ddr_base < Wed(2))
          BY <1>1, <1>2, <1>8, <3>3
        <5> QED BY <1>3, <1>4, <5>1, NextPoint
      <4>2. Hits = {}
        BY <3>1, <4>1
      <4>3. spied = Points
        BY <1>3, <4>1
      <4>4. Scanned(0)
        BY <4>2, <4>3 DEF Scanned
      <4> QED BY <1>1, <1>2, <1>3, <2>1, <2>3, <3>3, <4>4 DEF Scan, Scanned
    <3> QED BY <3>2, <3>3
  <2> QED BY <2>2, <2>4, <2>5, <2>6, <2>7 DEF IInv
<1> QED BY <1>9, <1>10

LEMMA FoundStep == IInv /\ Found => IInv' /\ QuestionKept
<1> SUFFICES ASSUME IInv, Found PROVE IInv' /\ QuestionKept
  OBVIOUS
<1>1. /\ pc = "found" /\ pc' = "finish" /\ UNCHANGED << hostVars, address, spied, mem >>
      /\ held = {} /\ output = Wed(4)
      /\ plp_dma_memcpy(held, LocalMatch, htop(Wed(4)), 1) /\ id' = NextCounter(held)
  BY DEF IInv, Found, Counters, Memory
<1>2. QuestionKept
  BY <1>1, SameMemory
<1>3. Asked /\ htop(Wed(4)) \in HostWindow /\ Points' = Points /\ Hits' = Hits
  BY <1>1, <1>2, Named, QuestionSame
<1>4. Control' /\ WedInv'
  BY <1>1, <1>2, HostUntouched DEF PC
<1>5. Counters' /\ pending'[id'] = Moves(LocalMatch, htop(Wed(4)), 1)
  BY <1>1, OneTransfer
<1>6. Transfer'
  <2>1. Flow(pending', mem', id', LocalMatch, htop(Wed(4)), 1)
    BY <1>3, <1>5, FlowStarts, Bounds DEF HostWindow
  <2> QED BY <1>1, <1>2, <2>1, WedSame DEF Transfer, QuestionKept
<1>7. Memory'
  BY <1>1, <1>2, WedSame DEF IInv, Memory, QuestionKept, spy_shift, spy_limit, output, pattern
<1>8. Scan'
  BY <1>1, <1>3 DEF IInv, Scan, Scanned
<1> QED BY <1>2, <1>4, <1>5, <1>6, <1>7, <1>8 DEF IInv

LEMMA FinishStep == IInv /\ Finish => IInv' /\ QuestionKept
<1> SUFFICES ASSUME IInv, Finish PROVE IInv' /\ QuestionKept
  OBVIOUS
<1>1. /\ pc = "finish" /\ pc' = "over" /\ job' = "over" /\ job = "running"
      /\ UNCHANGED << host, owned, id, address, spied, mem, pending >>
      /\ pending[id] = {} /\ held' = {}
  BY DEF IInv, Finish, Waited, Release, Counters, Control
<1>2. QuestionKept
  BY <1>1, SameMemory
<1>3. Asked /\ htop(Wed(4)) \in HostWindow /\ Points' = Points /\ Hits' = Hits
  BY <1>1, <1>2, Named, QuestionSame
<1>4. Wed(4)' = Wed(4) /\ (Asked' <=> Asked)
  BY <1>2, WedSame DEF QuestionKept
<1>5. Control' /\ WedInv'
  BY <1>1, <1>4 DEF IInv, Control, PC, WedInv, Filled
<1>6. Counters' /\ Transfer' /\ Memory'
  BY <1>1 DEF IInv, Counters, Transfer, Memory
<1>7. Scan'
  <2>1. mem[htop(Wed(4)) + 0] = mem[LocalMatch + 0]
    BY <1>1 DEF IInv, Transfer, Flow
  <2>2. htop(Wed(4)) + 0 = htop(Wed(4)) /\ LocalMatch + 0 = LocalMatch
    BY <1>3, Bounds DEF HostWindow
  <2>3. Scanned(mem[htop(Wed(4))])
    BY <1>1, <2>1, <2>2 DEF IInv, Scan
  <2> QED BY <1>1, <1>3, <1>4, <2>3 DEF Scan, Scanned
<1> QED BY <1>2, <1>5, <1>6, <1>7 DEF IInv

-----------------------------------------------------------------------------
(* The engine's step.                                                      *)

\* The counter that moves is the job's, and the step writes one address of the
\* block its transfer goes to.
LEMMA EngineMoves ==
  ASSUME IInv, Move, NEW from \in Nat, NEW to \in Nat, NEW n \in Nat,
         Flow(pending, mem, id, from, to, n),
         Block(from, n) \cup Block(to, n) \subseteq Addr,
         Block(from, n) \cap Block(to, n) = {}
  PROVE  /\ Counters' /\ mem' = [a \in Addr |-> mem'[a]]
         /\ Flow(pending', mem', id', from, to, n)
         /\ Agree(mem, mem', Addr \ Block(to, n))
<1>1. PICK c \in Counter : \E move \in pending[c] :
        /\ mem' = [mem EXCEPT ![move[2]] = mem[move[1]]]
        /\ pending' = [pending EXCEPT ![c] = @ \ {move}]
  BY DEF Move, DmaMove
<1>2. PICK move \in pending[c] :
        /\ mem' = [mem EXCEPT ![move[2]] = mem[move[1]]]
        /\ pending' = [pending EXCEPT ![c] = @ \ {move}]
  BY <1>1
<1>3. /\ pending = [d \in Counter |-> pending[d]] /\ mem = [a \in Addr |-> mem[a]]
      /\ c = id /\ held = {id} /\ UNCHANGED << pc, id, held >>
  BY <1>2 DEF IInv, Counters, Memory, Move, DmaMove
<1>4. move[1] \in Block(from, n) /\ move[2] \in Block(to, n)
  BY <1>3, FlowEnds
<1>5. /\ mem'[move[2]] = mem[move[1]] /\ Agree(mem, mem', Addr \ {move[2]})
      /\ mem' = [a \in Addr |-> mem'[a]]
  BY <1>2, <1>3, <1>4, OneStore DEF Agree
<1>6. DOMAIN mem = Addr /\ pending'[id] = pending[id] \ {move}
  BY <1>2, <1>3
<1>7. Flow(pending', mem', id, from, to, n)
  <2>1. /\ move \in pending[id] /\ Agree(mem, mem', DOMAIN mem \ {move[2]})
        /\ Block(from, n) \cup Block(to, n) \subseteq DOMAIN mem
        /\ mem'[move[2]] = mem[move[1]]
    BY <1>3, <1>5, <1>6
  <2> QED BY <1>6, <2>1, FlowMoves
<1>8. Counters'
  BY <1>2, <1>3 DEF IInv, Counters
<1>9. Agree(mem, mem', Addr \ Block(to, n))
  BY <1>4, <1>5 DEF Agree
<1> QED BY <1>3, <1>5, <1>7, <1>8, <1>9

LEMMA MoveStep == IInv /\ Move => IInv' /\ QuestionKept
<1> SUFFICES ASSUME IInv, Move PROVE IInv' /\ QuestionKept
  OBVIOUS
<1>1. UNCHANGED << hostVars, pc, id, address, spied, held >>
  BY DEF Move, DmaMove
<1>2. pc \in {"start", "compare", "finish"}
  BY DEF IInv, Counters, Move, DmaMove
<1>3. Asked /\ htop(Wed(4)) \in HostWindow \ WedBlock
  BY <1>2, Named
<1>4. /\ \A a \in Addr : Block(a, 1) = {a}
      /\ Block(LocalWed, 5) \subseteq Local \ {LocalMatch, Buff}
      /\ LocalMatch \in Local /\ Buff \in Local /\ Buff # LocalMatch
      /\ \A a \in Addr : a \in Nat
  BY Bounds DEF Block, Local
<1>5. CASE pc = "start"
  <2>1. Flow(pending, mem, id, htop(WED_AT), LocalWed, 5)
    BY <1>5 DEF IInv, Transfer
  <2>2. /\ Counters' /\ mem' = [a \in Addr |-> mem'[a]]
        /\ Flow(pending', mem', id', htop(WED_AT), LocalWed, 5)
        /\ Agree(mem, mem', Addr \ Block(LocalWed, 5))
    <3>1. /\ WedBlock \cup Block(LocalWed, 5) \subseteq Addr
          /\ WedBlock \cap Block(LocalWed, 5) = {}
      BY <1>4, Apart, WedAddresses
    <3>2. htop(WED_AT) \in Nat /\ LocalWed \in Nat
      BY HostAddresses, Bounds DEF HostWindow
    <3> QED BY <2>1, <3>1, <3>2, EngineMoves DEF WedBlock
  <2>3. QuestionKept /\ mem'[LocalMatch] = mem[LocalMatch]
    BY <2>2, <1>4, Apart, WedAddresses DEF QuestionKept, Agree
  <2>4. Control' /\ WedInv'
    BY <1>1, <1>5, <2>3, HostUntouched DEF PC
  <2>5. Transfer' /\ Memory' /\ Scan'
    BY <1>1, <1>5, <2>2, <2>3 DEF IInv, Transfer, Memory, Scan, QuestionKept, Agree
  <2> QED BY <2>2, <2>3, <2>4, <2>5 DEF IInv
<1>6. CASE pc = "compare"
  <2>1. Flow(pending, mem, id, address, Buff, 1) /\ address \in External
    BY <1>3, <1>6, FirstPoint DEF IInv, Transfer, Scan
  <2>2. /\ Counters' /\ mem' = [a \in Addr |-> mem'[a]]
        /\ Flow(pending', mem', id', address, Buff, 1)
        /\ Agree(mem, mem', Addr \ {Buff})
    <3>1. /\ Block(address, 1) \cup Block(Buff, 1) \subseteq Addr
          /\ Block(address, 1) \cap Block(Buff, 1) = {}
          /\ Block(Buff, 1) = {Buff} /\ address \in Nat /\ Buff \in Nat
      BY <2>1, <1>4, Apart
    <3> QED BY <2>1, <3>1, EngineMoves
  <2>3. QuestionKept
    BY <2>2, <1>4, Apart, WedAddresses DEF QuestionKept, Agree
  <2>4. Points' = Points /\ Hits' = Hits
    BY <1>3, <2>3, QuestionSame
  <2>5. /\ spy_shift' = spy_shift /\ spy_limit' = spy_limit /\ output' = output
        /\ pattern' = pattern /\ mem'[LocalMatch] = mem[LocalMatch]
    BY <2>2, Bounds DEF Agree, spy_shift, spy_limit, output, pattern
  <2>6. Control' /\ WedInv'
    BY <1>1, <1>6, <2>3, HostUntouched DEF PC
  <2>7. Transfer' /\ Scan'
    BY <1>1, <1>6, <2>2, <2>4, <2>5 DEF IInv, Transfer, Scan
  <2>8. Memory'
    BY <1>1, <1>6, <2>2, <2>3, <2>5, WedSame DEF IInv, Memory, QuestionKept, Agree
  <2> QED BY <2>2, <2>3, <2>6, <2>7, <2>8 DEF IInv
<1>7. CASE pc = "finish"
  <2>1. Flow(pending, mem, id, LocalMatch, htop(Wed(4)), 1)
    BY <1>7 DEF IInv, Transfer
  <2>2. /\ Counters' /\ mem' = [a \in Addr |-> mem'[a]]
        /\ Flow(pending', mem', id', LocalMatch, htop(Wed(4)), 1)
        /\ Agree(mem, mem', Addr \ {htop(Wed(4))})
    <3>1. /\ Block(LocalMatch, 1) \cup Block(htop(Wed(4)), 1) \subseteq Addr
          /\ Block(LocalMatch, 1) \cap Block(htop(Wed(4)), 1) = {}
          /\ Block(htop(Wed(4)), 1) = {htop(Wed(4))}
          /\ LocalMatch \in Nat /\ htop(Wed(4)) \in Nat
      BY <1>3, <1>4, Apart
    <3> QED BY <2>1, <3>1, EngineMoves
  <2>3. QuestionKept
    BY <2>2, <1>3, Apart, WedAddresses DEF QuestionKept, Agree
  <2>4. Points' = Points /\ Hits' = Hits /\ Wed(4)' = Wed(4)
    BY <1>3, <2>3, QuestionSame, WedSame DEF QuestionKept
  <2>5. /\ spy_shift' = spy_shift /\ spy_limit' = spy_limit /\ output' = output
        /\ pattern' = pattern /\ mem'[LocalMatch] = mem[LocalMatch]
    <3>1. /\ LocalWed + 1 \in Local /\ LocalWed + 2 \in Local /\ LocalWed + 3 \in Local
          /\ LocalWed + 4 \in Local /\ LocalMatch \in Local
      BY Bounds DEF Local
    <3>2. \A a \in Local : mem'[a] = mem[a]
      BY <2>2, <1>3, Apart DEF Agree
    <3> QED BY <3>1, <3>2 DEF spy_shift, spy_limit, output, pattern
  <2>6. Control' /\ WedInv'
    BY <1>1, <1>7, <2>3, HostUntouched DEF PC
  <2>7. Transfer' /\ Scan'
    BY <1>1, <1>7, <2>2, <2>4, <2>5 DEF IInv, Transfer, Scan, Scanned
  <2>8. Memory'
    BY <1>1, <1>7, <2>2, <2>3, <2>5, WedSame DEF IInv, Memory, QuestionKept, Agree
  <2> QED BY <2>2, <2>3, <2>6, <2>7, <2>8 DEF IInv
<1> QED BY <1>2, <1>5, <1>6, <1>7

-----------------------------------------------------------------------------
(* The theorems.                                                           *)

\* A step of the job or of the engine is one of a job that runs.
LEMMA JobRuns ==
  ASSUME IInv, Job \/ Move
  PROVE  IInv' /\ QuestionKept /\ job = "running" /\ UNCHANGED << host, owned >>
<1>1. IInv' /\ QuestionKept
  BY LoadWedStep, StartSpyingStep, ReadStep, CompareStep, FoundStep, FinishStep, MoveStep DEF Job
<1>2. pc \notin {"idle", "over"}
  BY DEF IInv, Counters, Job, LoadWed, StartSpying, Read, Compare, Found, Finish, Move, DmaMove
<1>3. job = "running"
  BY <1>2 DEF IInv, Control
<1>4. UNCHANGED << host, owned >>
  BY DEF Job, LoadWed, StartSpying, Read, Compare, Found, Finish, Move, hostVars
<1> QED BY <1>1, <1>3, <1>4

LEMMA StepIInv == IInv /\ [Next]_vars => IInv'
<1> SUFFICES ASSUME IInv, [Next]_vars PROVE IInv'
  OBVIOUS
<1>1. CASE FillWed
  BY <1>1, FillWedStep
<1>2. CASE HostMoves
  BY <1>2, HostMovesStep
<1>3. CASE Job \/ Move
  BY <1>3, JobRuns
<1>4. CASE UNCHANGED vars
  <2>1. /\ mem' = mem /\ UNCHANGED << pc, id, address, spied, pending, held, host, owned, job >>
        /\ Wed(0)' = Wed(0) /\ Wed(1)' = Wed(1) /\ Wed(2)' = Wed(2) /\ Wed(3)' = Wed(3)
        /\ Wed(4)' = Wed(4) /\ (Asked' <=> Asked)
    BY <1>4, SameMemory, WedSame DEF vars, hostVars, QuestionKept
  <2>2. Control' /\ WedInv' /\ Counters' /\ Transfer'
    BY <2>1 DEF IInv, Control, WedInv, Filled, Counters, Transfer
  <2>3. Memory'
    BY <2>1 DEF IInv, Memory, spy_shift, spy_limit, output, pattern
  <2>4. Scan'
    BY <2>1 DEF IInv, Scan, Scanned, Hits, Points, Begins
  <2> QED BY <2>2, <2>3, <2>4 DEF IInv
<1> QED BY <1>1, <1>2, <1>3, <1>4 DEF Next, Stopped

\* Wherever the scan is, what has been read and found so far is what the host
\* asked for: the invariant of main of sniffer/pulp/test.c and its host.
THEOREM ScanInvariant == Spec => []IInv
<1>1. Init => IInv
  BY InitIInv
<1>2. IInv /\ [Next]_vars => IInv'
  BY StepIInv
<1> QED BY <1>1, <1>2, PTL DEF Spec

\* When the host reads the answer, it is right, and the job has read the points
\* up to the first match and no other, for any memory, points and pattern.
THEOREM AnswerRight == Spec => []AnswerIsRight
<1>1. ASSUME IInv PROVE AnswerIsRight
  <2> SUFFICES ASSUME host = "report", "output" \in owned
               PROVE  /\ mem[htop(OUTPUT_AT)] = IF Hits # {} THEN 1 ELSE 0
                      /\ spied = {a \in Points : \A hit \in Hits : a <= hit}
                      /\ InFlight = {} /\ held = {}
    BY DEF AnswerIsRight, Hits
  <2>1. pc = "over" /\ Wed(4) = OUTPUT_AT
    BY <1>1 DEF IInv, Control, WedInv
  <2>2. Scanned(mem[htop(OUTPUT_AT)])
    BY <1>1, <2>1 DEF IInv, Scan
  <2>3. held = {} /\ InFlight = {}
    BY <1>1, <2>1 DEF IInv, Counters, InFlight
  <2> QED BY <2>2, <2>3 DEF Scanned
<1> QED BY <1>1, ScanInvariant, PTL

-----------------------------------------------------------------------------
(* The safety part of Offload.  That an answer does come is liveness.      *)

\* What Offload sees of a state.
Question == IF Phase \in {"idle", "refused"} THEN NoQuestion
            ELSE [pattern |-> Wed(3), chunks |-> {mem[a] : a \in Points}]
AnswerRead == IF Phase = "answered" THEN mem[htop(OUTPUT_AT)] ELSE 0

\* Every step of the host that is seen is one of Offload's.
LEMMA HostKeepsPromise ==
  ASSUME IInv, HostMoves
  PROVE  Promise!Next \/ UNCHANGED << Phase, Question, AnswerRead >>
<1>1. mem' = mem /\ Wed(3)' = Wed(3) /\ Points' = Points
  BY DEF HostMoves, Wed, Points
<1>2. {mem'[a] : a \in Points'} = {mem[a] : a \in Points}
  BY <1>1
<1>3. CASE Usage
  BY <1>1, <1>3 DEF Usage, Phase, Question, AnswerRead, Promise!Next, Promise!Refuse
<1>4. CASE LoadFails \/ OpenFails \/ LaunchFails
  BY <1>1, <1>4 DEF LoadFails, OpenFails, LaunchFails, Phase, Promise!Next, Promise!Refuse
<1>5. CASE Open
  BY <1>1, <1>5 DEF Open, Phase, Question, AnswerRead
<1>6. CASE Launch
  <2>1. Asked /\ \A a \in External : mem[a] \in CHUNKS
    BY <1>6 DEF Launch, IInv, WedInv, Filled, Memory
  <2>2. {mem[a] : a \in Points} \in SUBSET CHUNKS
    BY <2>1, FirstPoint
  <2>3. [pattern |-> Wed(3), chunks |-> {mem[a] : a \in Points}] \in [pattern : PATTERNS, chunks : SUBSET CHUNKS]
    BY <2>1, <2>2 DEF Asked
  <2> QED BY <1>1, <1>2, <1>6, <2>3 DEF Launch, Phase, Promise!Next, Promise!Ask
<1>7. CASE WaitAll
  <2>1. "output" \in owned => mem[htop(OUTPUT_AT)] = IF Hits # {} THEN 1 ELSE 0
    BY <1>7 DEF WaitAll, IInv, Control, WedInv, Scan, Scanned
  <2>2. Hits # {} <=> \E chunk \in {mem[a] : a \in Points} : Begins(chunk, Wed(3))
    BY DEF Hits
  <2> QED BY <1>1, <1>2, <1>7, <2>1, <2>2
        DEF WaitAll, Phase, Promise!Next, Promise!Reply, Promise!Lose
<1>8. CASE Report
  BY <1>1, <1>2, <1>8 DEF Report, Phase, Question, AnswerRead
<1> QED BY <1>3, <1>4, <1>5, <1>6, <1>7, <1>8 DEF HostMoves, HostStep

LEMMA StepKeepsPromise ==
  ASSUME IInv, [Next]_vars
  PROVE  Promise!Next \/ UNCHANGED << Phase, Question, AnswerRead >>
<1>1. CASE FillWed
  BY <1>1 DEF FillWed, Load, Phase, Question, AnswerRead
<1>2. CASE HostMoves
  BY <1>2, HostKeepsPromise
<1>3. CASE Job \/ Move
  <2>1. QuestionKept /\ UNCHANGED << host, owned >> /\ Asked
    BY <1>3, JobRuns, Named DEF IInv, Control
  <2>2. Phase' = Phase /\ Phase # "answered"
    BY <1>3, <2>1, JobRuns DEF Phase, IInv, Control
  <2>3. Wed(3)' = Wed(3) /\ {mem'[a] : a \in Points'} = {mem[a] : a \in Points}
    BY <2>1, QuestionSame, WedSame DEF QuestionKept
  <2> QED BY <2>2, <2>3 DEF Question, AnswerRead
<1>4. CASE UNCHANGED vars
  BY <1>4 DEF vars, hostVars, Phase, Question, AnswerRead, Wed, Points
<1> QED BY <1>1, <1>2, <1>3, <1>4 DEF Next, Stopped

\* The host, the job and the engine keep the safety part of Offload: the answer
\* the host reads when its launch returns is right for the memory and the
\* question as they were when it asked, and a host that found no memory is
\* given none.
THEOREM PromiseIsKept == Spec => Promise!Init /\ [][Promise!Next]_(Promise!offloadVars)
<1>1. Init => Promise!Init
  BY DEF Init, HostInit, Phase, Promise!Init
<1>2. ASSUME IInv, [Next]_vars PROVE [Promise!Next]_(Promise!offloadVars)
  BY <1>2, StepKeepsPromise DEF Question, AnswerRead, Promise!offloadVars
<1> QED BY <1>1, <1>2, ScanInvariant, PTL DEF Spec
=============================================================================
