----------------------------- MODULE MCFcPrograms -----------------------------
(* Words of the HWME, of three bits, whose sums overflow.                     *)
EXTENDS FcPrograms

MCValues == {-3, 2}
=============================================================================
