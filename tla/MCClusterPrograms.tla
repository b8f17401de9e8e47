-------------------------- MODULE MCClusterPrograms --------------------------
(* Three passes, the first of them with two events, as in the code. *)
EXTENDS ClusterPrograms

MCPasses == << {"cycles", "instr"}, {"active_cycles"}, {"ld_stall"} >>
=============================================================================
