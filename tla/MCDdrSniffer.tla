----------------------------- MODULE MCDdrSniffer -----------------------------
(* Strings of three characters.  Of the patterns one is empty, one has its   *)
(* NUL, and one has none; of the chunks one begins with what is left of the  *)
(* last two when the job has put a NUL at their end, and one does not.       *)
EXTENDS DdrSniffer

Str(s) == [i \in Index |-> s[i + 1]]

MCPatterns == {Str(<< 0, 0, 0 >>), Str(<< 1, 2, 0 >>), Str(<< 1, 2, 2 >>)}
MCChunks   == {Str(<< 1, 0, 0 >>), Str(<< 1, 2, 1 >>)}
=============================================================================
