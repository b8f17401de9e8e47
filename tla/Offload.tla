-------------------------------- MODULE Offload --------------------------------
(***************************************************************************)
(* What an offloaded program promises its host, with no memory, transfer   *)
(* or device in it: the host asks one question, or gives up before it has  *)
(* asked; what it can read when the launch returns is the right answer to  *)
(* what it asked, and that answer stays.  A host that gave no place for    *)
(* the answer gets none.                                                   *)
(***************************************************************************)
CONSTANTS Question,    \* what a host may ask
          NoQuestion,  \* not in Question
          NoAnswer,
          Right(_)     \* the right answer to a question

VARIABLES phase, question, answer

offloadVars == << phase, question, answer >>

Init == phase = "idle" /\ question = NoQuestion /\ answer = NoAnswer

\* The host finds a reason to end before it has launched the job.
Refuse ==
  /\ phase = "idle" /\ phase' = "refused"
  /\ UNCHANGED << question, answer >>

Ask ==
  /\ phase = "idle" /\ phase' \in {"asked", "asked_in_vain"}
  /\ question' \in Question
  /\ UNCHANGED answer

Reply ==
  /\ phase = "asked" /\ phase' = "answered"
  /\ answer' = Right(question)
  /\ UNCHANGED question

Lose ==
  /\ phase = "asked_in_vain" /\ phase' = "lost"
  /\ UNCHANGED << question, answer >>

Next == Refuse \/ Ask \/ Reply \/ Lose

\* A host need not ask, but once it has it is answered.
Spec == Init /\ [][Next]_offloadVars /\ WF_offloadVars(Reply \/ Lose)
=============================================================================
