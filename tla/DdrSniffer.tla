------------------------------ MODULE DdrSniffer ------------------------------
(***************************************************************************)
(* chips/oprecompkw/ddr/sniffer: the host launches a job that reads the    *)
(* external memory at regular points, compares what it finds there with    *)
(* the host's pattern, and tells the host whether it found a match.        *)
(*                                                                         *)
(* Addresses are those of DdrRw.  One address holds a number of the WED or *)
(* the first PATTERN_SIZE characters of a chunk or of the pattern.         *)
(***************************************************************************)
EXTENDS DmaEngine, OprecompHost

CONSTANTS HOST_WINDOW,                  \* 2^48 in the code
          OFFSETS, SHIFTS, LIMITS,      \* values of SPY_OFFSET, SPY_SHIFT, SPY_LIMIT
          WED_AT, OUTPUT_AT,            \* host addresses
          PATTERN_SIZE,                 \* 64 in the code
          PATTERNS,                     \* values of SPY_PATTERN, with or without a NUL
          CHUNKS                        \* what the external memory may hold at a point

\* PULP local memory: the chunk, the copy of the WED, the answer.
Buff       == 0
LocalWed   == 1
LocalMatch == 6

ddr_base == HOST_WINDOW \div 2

htop(hostaddr) == (hostaddr % HOST_WINDOW) + HOST_WINDOW

\* The characters of a string are numbers, and NUL is 0.
Index  == 0 .. PATTERN_SIZE - 1
String == [Index -> Nat]
Empty  == [i \in Index |-> 0]

\* The addresses that hold a string.
Strings == {Buff, LocalWed + 3, htop(WED_AT + 3)}

Addr     == 0 .. 2 * HOST_WINDOW - 1
External == ddr_base .. HOST_WINDOW - 1

ASSUME DdrSnifferAssumption ==
  /\ HOST_WINDOW \in Nat /\ LocalMatch < ddr_base
  /\ SHIFTS \subseteq Nat \ {0}
  /\ \A offset \in OFFSETS, shift \in SHIFTS, limit \in LIMITS :
       offset \in 0 .. ddr_base - 1 /\ limit \in 0 .. ddr_base
  /\ WED_AT \in Nat \ {0} /\ OUTPUT_AT \in Nat
  /\ WED_AT + 5 <= OUTPUT_AT /\ OUTPUT_AT < HOST_WINDOW
  /\ PATTERN_SIZE \in Nat \ {0}
  /\ PATTERNS \cup CHUNKS \subseteq String

VARIABLES pc,       \* where main of the job is
          id,       \* the counter of its last transfer
          address,  \* the next spying point
          spied     \* the points read so far

vars == << hostVars, pc, id, address, spied, mem, pending, held >>

Init ==
  /\ HostInit
  /\ pc = "idle" /\ id = 0 /\ address = 0 /\ spied = {}
  /\ \E chunks \in [External -> CHUNKS] :
       DmaInit([a \in Addr |-> IF a \in External THEN chunks[a]
                            ELSE IF a \in Strings THEN Empty ELSE 0])

\* The fields of the copy of the WED.
spy_offset == mem[LocalWed]
spy_shift  == mem[LocalWed + 1]
spy_limit  == mem[LocalWed + 2]
pattern    == mem[LocalWed + 3]
output     == mem[LocalWed + 4]

-----------------------------------------------------------------------------
(* Strings.                                                                *)

\* The index of the first NUL; past the last character if there is none.
bare_strlen(str) ==
  CHOOSE n \in 0 .. PATTERN_SIZE :
    /\ n = PATTERN_SIZE \/ str[n] = 0
    /\ \A i \in 0 .. n - 1 : str[i] # 0

\* strncmp(s1, s2, n) = 0.
SameUpTo(s1, s2, n) ==
  \A i \in 0 .. n - 1 : (\A j \in 0 .. i - 1 : s1[j] # 0) => s1[i] = s2[i]

\* Mutant: the pattern is left as it is.
Terminated_AsItIs(str) == str

\* pattern[PATTERN_SIZE - 1] = NUL.
Terminated(str) == [str EXCEPT ![PATTERN_SIZE - 1] = 0]

-----------------------------------------------------------------------------
(* The host.                                                               *)

\* The WED: three numbers, the pattern and output, NULL if calloc failed.
FillWed ==
  /\ \E offset \in OFFSETS, shift \in SHIFTS, limit \in LIMITS, str \in PATTERNS, given \in BOOLEAN :
       /\ Load(given)
       /\ mem' = [mem EXCEPT ![htop(WED_AT)] = offset, ![htop(WED_AT + 1)] = shift,
                             ![htop(WED_AT + 2)] = limit,
                             ![htop(WED_AT + 3)] = str,
                             ![htop(WED_AT + 4)] = IF given THEN OUTPUT_AT ELSE 0]
  /\ UNCHANGED << pc, id, address, spied, pending, held >>

HostMoves ==
  /\ HostStep \/ Report
  /\ pc' = IF job' = "running" /\ job = "none" THEN "load" ELSE pc
  /\ UNCHANGED << id, address, spied, mem, pending, held >>

-----------------------------------------------------------------------------
(* The job.                                                                *)

LoadWed ==
  /\ pc = "load"
  /\ plp_dma_memcpy(held, htop(WED_AT), LocalWed, 5)
  /\ id' = NextCounter(held)
  /\ pc' = "start"
  /\ UNCHANGED << hostVars, address, spied, mem >>

StartSpying ==
  /\ pc = "start"
  /\ Waited(id) /\ held' = Release(id)
  /\ mem' = [mem EXCEPT ![LocalWed + 3] = Terminated(@)]
  /\ address' = ddr_base + spy_offset
  /\ pc' = "read"
  /\ UNCHANGED << hostVars, id, spied, pending >>

Read ==
  /\ pc = "read"
  /\ plp_dma_memcpy(held, address, Buff, 1)
  /\ id' = NextCounter(held)
  /\ spied' = spied \cup {address}
  /\ pc' = "compare"
  /\ UNCHANGED << hostVars, address, mem >>

\* Mutant: the chunk is compared before it has arrived.
Compare_NoWait ==
  /\ pc = "compare"
  /\ held' = Release(id)
  /\ address' = address + spy_shift
  /\ IF SameUpTo(pattern, mem[Buff], bare_strlen(pattern))
       THEN mem' = [mem EXCEPT ![LocalMatch] = 1] /\ pc' = "found"
       ELSE /\ UNCHANGED mem
            /\ pc' = IF address' - ddr_base < spy_limit THEN "read" ELSE "found"
  /\ UNCHANGED << hostVars, id, spied, pending >>

\* The chunk has arrived: move on to the next point, and stop at a match.
Compare ==
  /\ pc = "compare"
  /\ Waited(id) /\ held' = Release(id)
  /\ address' = address + spy_shift
  /\ IF SameUpTo(pattern, mem[Buff], bare_strlen(pattern))
       THEN mem' = [mem EXCEPT ![LocalMatch] = 1] /\ pc' = "found"
       ELSE /\ UNCHANGED mem
            /\ pc' = IF address' - ddr_base < spy_limit THEN "read" ELSE "found"
  /\ UNCHANGED << hostVars, id, spied, pending >>

Found ==
  /\ pc = "found"
  /\ plp_dma_memcpy(held, LocalMatch, htop(output), 1)
  /\ id' = NextCounter(held)
  /\ pc' = "finish"
  /\ UNCHANGED << hostVars, address, spied, mem >>

Finish ==
  /\ pc = "finish"
  /\ Waited(id) /\ held' = Release(id)
  /\ pc' = "over" /\ job' = "over"
  /\ UNCHANGED << host, owned, id, address, spied, mem, pending >>

Job == LoadWed \/ StartSpying \/ Read \/ Compare \/ Found \/ Finish

-----------------------------------------------------------------------------
Move == DmaMove /\ UNCHANGED << hostVars, pc, id, address, spied >>

Stopped == HostStopped /\ pc \in {"idle", "over"} /\ UNCHANGED vars

Next == FillWed \/ HostMoves \/ Job \/ Move \/ Stopped

Spec == /\ Init /\ [][Next]_vars
        /\ WF_vars(FillWed \/ HostMoves) /\ WF_vars(Job) /\ WF_vars(Move)

-----------------------------------------------------------------------------
\* What the host asks, as it stands in its own memory: does one of the points
\* begin with the characters of its pattern?  The pattern ends at its first NUL,
\* and after PATTERN_SIZE - 1 characters in any case; one with no character is
\* everywhere.  The first point counts whatever the limit is, and every later
\* one before the limit.
Wed(field) == mem[htop(WED_AT + field)]

Points ==
  {ddr_base + Wed(0)} \cup
  {a \in External : \E n \in 1 .. ddr_base : /\ a = ddr_base + Wed(0) + n * Wed(1)
                                             /\ a - ddr_base < Wed(2)}

Begins(chunk, str) ==
  \A i \in 0 .. PATTERN_SIZE - 2 :
     (\A j \in 0 .. i : str[j] # 0) => chunk[i] = str[i]

\* When the host reads the answer, the points that were read are points it asked
\* for, up to the first that begins with the pattern and no further, and the
\* pattern was there exactly if the answer says so.
AnswerIsRight ==
  host = "report" /\ "output" \in owned =>
    LET hits == {a \in Points : Begins(mem[a], Wed(3))}
    IN  /\ mem[htop(OUTPUT_AT)] = IF hits # {} THEN 1 ELSE 0
        /\ spied = {a \in Points : \A hit \in hits : a <= hit}
        /\ InFlight = {} /\ held = {}

\* The refinement mapping.  The question is the pattern with what the points
\* hold; the external memory and the WED have to stay as they are.
NoQuestion == [pattern |-> [i \in Index |-> -1], chunks |-> {}]
Promise == INSTANCE Offload WITH
  Question   <- [pattern : PATTERNS, chunks : SUBSET CHUNKS],
  NoAnswer   <- 0,
  Right      <- LAMBDA q : IF \E chunk \in q.chunks : Begins(chunk, q.pattern) THEN 1 ELSE 0,
  phase      <- Phase,
  question   <- IF Phase \in {"idle", "refused"} THEN NoQuestion
                ELSE [pattern |-> Wed(3), chunks |-> {mem[a] : a \in Points}],
  answer     <- IF Phase = "answered" THEN mem[htop(OUTPUT_AT)] ELSE 0

\* Host, job and engine together keep the promise of Offload: the answer the
\* host finds when the launch returns is right for the memory and the question
\* as they were when it asked, and it does come.
ImplementsOffload == Promise!Spec
=============================================================================
