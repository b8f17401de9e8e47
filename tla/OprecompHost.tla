----------------------------- MODULE OprecompHost -----------------------------
(***************************************************************************)
(* The host side the offloaded programs share (ddr/rw/host,                *)
(* ddr/sniffer/host, matadd/host): load a kernel, make a work element      *)
(* descriptor (WED) in host memory, open a device, launch the job and wait *)
(* for it, read the job's answer, clean up.  opc_* is liboprecomp, outside *)
(* the repository: opc_dev_launch returns when the job is over.  The job   *)
(* is the module that extends this one; memory is the caller's.            *)
(***************************************************************************)
EXTENDS Integers

VARIABLES host,    \* where main of the host is; "exit_n" is its exit status
          owned,   \* what main has allocated and not freed: "knl", "dev", "output"
          job      \* the job on the accelerator: "none", "running" or "over"

hostVars == << host, owned, job >>

HostInit == host = "usage" /\ owned = {} /\ job = "none"

Usage ==
  /\ host = "usage"
  /\ \/ host' = "load" /\ owned' = {"knl"}
     \/ host' = "exit_1" /\ UNCHANGED owned
  /\ UNCHANGED job

\* The kernel is loaded and the WED filled; calloc may return NULL, which main
\* does not look at.  `given' says whether it did return a block.
Load(given) ==
  /\ host = "load"
  /\ host' = "open"
  /\ owned' = owned \cup {"dev"} \cup (IF given THEN {"output"} ELSE {})
  /\ UNCHANGED job

\* An error returns from main at once: nothing is freed.
LoadFails   == host = "load" /\ host' = "exit_1" /\ UNCHANGED << owned, job >>
OpenFails   == host = "open" /\ host' = "exit_1" /\ UNCHANGED << owned, job >>
LaunchFails == host = "launch" /\ host' = "exit_1" /\ UNCHANGED << owned, job >>

Open == host = "open" /\ host' = "launch" /\ UNCHANGED << owned, job >>

Launch == host = "launch" /\ host' = "wait" /\ job' = "running" /\ UNCHANGED owned

WaitAll == host = "wait" /\ job = "over" /\ host' = "report" /\ UNCHANGED << owned, job >>

\* *wed.output is read, with no check of the pointer, and everything is freed.
Report ==
  /\ host = "report"
  /\ IF "output" \in owned
       THEN host' = "exit_0" /\ owned' = owned \ {"output", "dev", "knl"}
       ELSE host' = "null_output" /\ UNCHANGED owned
  /\ UNCHANGED job

\* Everything but the step that fills the WED, which is Load's, and the end,
\* which is Report's where the job has an answer.
HostStep == Usage \/ LoadFails \/ Open \/ OpenFails \/ Launch \/ LaunchFails \/ WaitAll

HostStopped == host \in {"exit_0", "exit_1", "null_output"}

\* How far the host is, for the abstract specification Offload.
Phase ==
  CASE host = "exit_1" -> "refused"
    [] host = "wait" -> IF "output" \in owned THEN "asked" ELSE "asked_in_vain"
    [] host = "null_output" -> "lost"
    [] host = "report" -> IF "output" \in owned THEN "answered" ELSE "lost"
    [] host = "exit_0" -> "answered"
    [] OTHER -> "idle"
=============================================================================
