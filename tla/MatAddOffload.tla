---------------------------- MODULE MatAddOffload ----------------------------
(***************************************************************************)
(* chips/oprecompkw/matadd: the host of matadd/host offloads the job of    *)
(* MatAdd.  There is no WED and no answer: all the host learns is that the *)
(* launch has returned, whatever main of the job returned.                 *)
(***************************************************************************)
EXTENDS MatAdd, OprecompHost

offloadVars == << hostVars, vars >>

OffloadInit == Init /\ HostInit

\* The WED is a constant the job does not look at, so loading fills nothing.
LoadKernel == Load(FALSE)

\* Mutant: the kernel is not freed.
CleanUp_NoKernel ==
  /\ host = "report" /\ host' = "exit_0"
  /\ owned' = owned \ {"dev"}
  /\ UNCHANGED job

CleanUp ==
  /\ host = "report" /\ host' = "exit_0"
  /\ owned' = owned \ {"dev", "knl"}
  /\ UNCHANGED job

HostMoves == (HostStep \/ LoadKernel \/ CleanUp) /\ UNCHANGED vars

\* The job runs from the launch on.
Runs(step) == job = "running" /\ step /\ UNCHANGED hostVars

\* main of the job has returned: 0, or -1 after an allocation failed.
JobEnds ==
  /\ job = "running" /\ pc \in {"return", "failed"}
  /\ job' = "over"
  /\ UNCHANGED << host, owned, vars >>

\* The job may also have gone on with a NULL buffer, where the model stops.
Stopped == (HostStopped \/ pc = "null_l1") /\ InFlight = {} /\ UNCHANGED offloadVars

OffloadNext ==
  \/ HostMoves \/ JobEnds \/ Runs(Alloc) \/ Runs(MatADD)
  \/ \E id \in Core : Runs(MatSumPar(id))
  \/ Move /\ UNCHANGED hostVars
  \/ Stopped

OffloadSpec ==
  /\ OffloadInit /\ [][OffloadNext]_offloadVars
  /\ WF_offloadVars(HostMoves) /\ WF_offloadVars(JobEnds)
  /\ WF_offloadVars(Runs(Alloc)) /\ WF_offloadVars(Runs(MatADD))
  /\ WF_offloadVars(Move /\ UNCHANGED hostVars)
  /\ \A id \in Core : WF_offloadVars(Runs(MatSumPar(id)))

-----------------------------------------------------------------------------
\* A host that has launched the job comes to its end with nothing of its own
\* left allocated, and nothing the job started outlives the host: the engine
\* is idle and has all its counters back.  Or L1_Memory was NULL and nobody
\* looked at it.
HostEnds ==
  (host = "wait") ~>
     \/ pc = "null_l1"
     \/ host = "exit_0" /\ owned = {} /\ InFlight = {} /\ held = {}
=============================================================================
