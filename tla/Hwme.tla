--------------------------------- MODULE Hwme ---------------------------------
(***************************************************************************)
(* accelerators/hwme/hwme.c: the fabric controller sets up four vectors,   *)
(* has the HWME compute dot products with a bias, waits for the event of   *)
(* the end of the job and compares the results with those of hwme_x86.c.   *)
(* The engine and the event unit are external.  Every end of a job raises  *)
(* the event, somebody else's job included, and main sets the event mask   *)
(* only after it has started its own.  Nothing says what the unit does     *)
(* with an event that is not in the mask, so it either keeps it or drops   *)
(* it, and which of the two never changes.  With a unit that keeps it main *)
(* needs a free engine: the end of a job before its own would be the event *)
(* it waits for.  With one that drops it, its own may be over too early.   *)
(***************************************************************************)
EXTENDS Integers, FiniteSets

CONSTANTS NB_ITER,   \* 4 in the code: the results
          LEN_ITER,  \* 32 in the code: the products of each
          WIDTH,     \* 32: bits of a word
          VALUES     \* words the vectors are made of, as signed numbers

HwmeAssumption ==
  /\ NB_ITER \in Nat \ {0} /\ LEN_ITER \in Nat \ {0} /\ WIDTH \in Nat
  /\ VALUES \subseteq Int

VARIABLES pc,      \* where main is
          enabled, \* the engine's clock is on
          a, b, c, \* the operands, in memory
          d,       \* the results, in memory
          engine,  \* "busy" with somebody else's job, "free", "acquired", "running"
          step,    \* products done of the job
          acc,     \* the engine's accumulator
          unit,    \* what the event unit does with an event that is not in the mask
          mask,    \* the event is in the controller's mask
          event,   \* it has been raised, and is there for main
          errors   \* local of main

vars == << pc, enabled, a, b, c, d, engine, step, acc, unit, mask, event, errors >>

Result  == 0 .. NB_ITER - 1
Operand == 0 .. NB_ITER * LEN_ITER - 1

TypeOK ==
  /\ pc \in {"begin", "enable", "acquire", "program", "mask", "wait", "disable", "check", "exit"}
  /\ a \in [Operand -> Int] /\ b \in [Operand -> Int] /\ c \in [Result -> Int]
  /\ d = [r \in Result |-> d[r]]
  /\ engine \in {"busy", "free", "acquired", "running"}
  /\ step \in 0 .. NB_ITER * LEN_ITER /\ acc \in Int /\ errors \in Nat
  /\ unit \in {"keeps", "drops"} /\ {enabled, mask, event} \subseteq BOOLEAN

Init ==
  /\ pc = "begin" /\ enabled = FALSE
  /\ a = [n \in Operand |-> 0] /\ b = [n \in Operand |-> 0]
  /\ c = [r \in Result |-> 0] /\ d = [r \in Result |-> 0]
  /\ unit \in {"keeps", "drops"}
  /\ engine \in {"busy", "free"} /\ (unit = "keeps" => engine = "free")
  /\ step = 0 /\ acc = 0 /\ mask = FALSE /\ event = FALSE /\ errors = 0

\* One of the initial states, for when another program is loaded.
Unused == engine = "busy" /\ unit = "drops"

\* hwme_x86.c: its tmp after each product of result r, and its low word, which
\* is all of it that the 64 bits of tmp could show in a result.
Word(n)    == n % 2 ^ WIDTH
Product(n) == a[n] * b[n]
Sums(r) ==
  LET tmp[i \in 0 .. LEN_ITER] ==
        IF i = 0 THEN c[r] ELSE tmp[i - 1] + Product(r * LEN_ITER + i - 1)
  IN  tmp
DotProduct(r) == Word(Sums(r)[LEN_ITER])

-----------------------------------------------------------------------------
memory == << a, b, c >>
device == << engine, step, acc, unit >>

\* Any operands, and in d nothing that could be taken for a result.
Stimuli ==
  /\ pc = "begin"
  /\ a' \in [Operand -> VALUES] /\ b' \in [Operand -> VALUES] /\ c' \in [Result -> VALUES]
  /\ d' = [r \in Result |-> -1]
  /\ pc' = "enable"
  /\ UNCHANGED << enabled, device, mask, event, errors >>

\* Mutant: the event is unmasked before the engine is acquired.
Enable_Unmasks ==
  /\ pc = "enable"
  /\ enabled' = TRUE /\ mask' = TRUE
  /\ pc' = "acquire"
  /\ UNCHANGED << memory, d, device, event, errors >>

Enable ==
  /\ pc = "enable"
  /\ enabled' = TRUE
  /\ pc' = "acquire"
  /\ UNCHANGED << memory, d, device, mask, event, errors >>

\* hwme_acquire_job returns a negative number while the engine is busy.
Acquire ==
  /\ pc = "acquire"
  /\ \/ engine = "free" /\ engine' = "acquired" /\ pc' = "program"
     \/ engine = "busy" /\ UNCHANGED << engine, pc >>
  /\ UNCHANGED << enabled, memory, d, step, acc, unit, mask, event, errors >>

\* The bytecode and the registers of the job are written, and it is started.
Trigger ==
  /\ pc = "program" /\ engine = "acquired"
  /\ engine' = "running" /\ step' = 0 /\ acc' = c[0]
  /\ pc' = "mask"
  /\ UNCHANGED << enabled, memory, d, unit, mask, event, errors >>

\* Mutant: what has been raised so far is taken for somebody else's event.
SetMask_Clears ==
  /\ pc = "mask"
  /\ mask' = TRUE /\ event' = FALSE
  /\ pc' = "wait"
  /\ UNCHANGED << enabled, memory, d, device, errors >>

SetMask ==
  /\ pc = "mask"
  /\ mask' = TRUE
  /\ pc' = "wait"
  /\ UNCHANGED << enabled, memory, d, device, event, errors >>

WaitEvent ==
  /\ pc = "wait" /\ mask /\ event
  /\ event' = FALSE
  /\ pc' = "disable"
  /\ UNCHANGED << enabled, memory, d, device, mask, errors >>

Disable ==
  /\ pc = "disable"
  /\ enabled' = FALSE
  /\ pc' = "check"
  /\ UNCHANGED << memory, d, device, mask, event, errors >>

\* One error for each result that is not the one expected.
Check ==
  /\ pc = "check"
  /\ errors' = Cardinality({r \in Result : d[r] # DotProduct(r)})
  /\ pc' = "exit"
  /\ UNCHANGED << enabled, memory, d, device, mask, event >>

Main == Stimuli \/ Enable \/ Acquire \/ Trigger \/ SetMask \/ WaitEvent \/ Disable \/ Check

-----------------------------------------------------------------------------
(* The engine.                                                             *)

\* The end of a job, whose ever it is.
RaiseEvent == event' = (event \/ mask \/ unit = "keeps")

\* Whoever had a job on the engine before this program is done with it.
OtherJobEnds ==
  /\ engine = "busy" /\ engine' = "free"
  /\ RaiseEvent
  /\ UNCHANGED << pc, enabled, memory, d, step, acc, unit, mask, errors >>

\* A product; the last one of a result stores its low word.
Multiply ==
  /\ engine = "running" /\ enabled /\ step < NB_ITER * LEN_ITER
  /\ step' = step + 1
  /\ LET r     == step \div LEN_ITER
         total == acc + Product(step)
     IN  IF step' % LEN_ITER = 0
           THEN /\ d' = [d EXCEPT ![r] = Word(total)]
                /\ acc' = IF r + 1 \in Result THEN c[r + 1] ELSE 0
           ELSE acc' = total /\ UNCHANGED d
  /\ UNCHANGED << pc, enabled, memory, engine, unit, mask, event, errors >>

JobEnds ==
  /\ engine = "running" /\ step = NB_ITER * LEN_ITER
  /\ engine' = "free"
  /\ RaiseEvent
  /\ UNCHANGED << pc, enabled, memory, d, step, acc, unit, mask, errors >>

Engine == OtherJobEnds \/ Multiply \/ JobEnds

\* The job was over before main set the mask, and the unit has dropped its event.
EventLost == pc = "wait" /\ engine = "free" /\ ~event

Stopped == (pc = "exit" \/ EventLost) /\ UNCHANGED vars

-----------------------------------------------------------------------------
\* The results main looks at are those of its job, all of them, and they are
\* what the reference program computes: no event but that of its own job gets
\* main past its wait, and the engine is not turned off under a running job.
ResultsAreRight ==
  /\ pc \in {"check", "exit"} => \A r \in Result : d[r] = DotProduct(r)
  /\ errors = 0
  /\ engine = "running" => enabled

\* hwme.c:127 "wait for end of compuation": main gets to see the end of its job
\* when the event is in the mask before that end, and with a unit that keeps
\* events whenever that end comes.
EndIsSeen == (engine = "running" /\ (mask \/ unit = "keeps")) ~> (pc = "exit")
=============================================================================
