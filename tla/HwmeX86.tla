-------------------------------- MODULE HwmeX86 --------------------------------
(***************************************************************************)
(* accelerators/hwme/hwme_x86.c: the functional model of the job, on the   *)
(* data of the repository.  It is where the constants come from that       *)
(* hwme.c expects of the engine, in three builds: "dot" with the stimuli,  *)
(* as it stands, "ramp" without USE_STIMULI, and "matvec", for which       *)
(* hwme.c:109-114 sets up another job and hwme_x86.c has to be changed     *)
(* alike.                                                                  *)
(*                                                                         *)
(* A word is the function of its bytes, least significant first.  tmp has  *)
(* 64 bits, and with these stimuli its sums do not fit; they wrap, which   *)
(* is what the compiler of Makefile.x86 makes of it without optimisation,  *)
(* although C leaves the overflow of a signed sum undefined.               *)
(***************************************************************************)
EXTENDS Integers, Sequences, FiniteSetsExt

VARIABLES build,       \* which build of the two programs
          pc,          \* where main is
          a, b, c, d,  \* the vectors
          j, i,        \* main's loop variables
          tmp          \* local of main, of 64 bits

vars == << build, pc, a, b, c, d, j, i, tmp >>

Index == 0 .. 127

-----------------------------------------------------------------------------
(* hwme_stimuli_a.h to _d.h: the vectors that hwme.c and hwme_x86.c both   *)
(* run on.  Each table holds 128 bytes, four times over, and the 0 that    *)
(* ends it; each row below is a group of sixteen bytes.                    *)

Repeated(bytes) ==
  [n \in 0 .. 512 |-> IF n < 512 THEN bytes[1 + (n % Len(bytes))] ELSE 0]

stim_a == Repeated(<<
  \h62, \h00, \h20, \hb1, \he9, \hbb, \h8a, \h74, \h2e, \h83, \h47, \h17, \h8d, \h12, \h90, \hc6,
  \hc6, \h07, \h2f, \h63, \haa, \hb4, \h1c, \hd5, \ha0, \hf0, \h1d, \hd0, \h37, \hcf, \he8, \h1b,
  \hf0, \h2e, \h60, \hf8, \he8, \ha8, \h6c, \hf4, \hcd, \h1c, \h84, \he6, \hd1, \h09, \hcd, \h68,
  \hbb, \h63, \h83, \h5d, \hdf, \h92, \hf6, \hef, \h7d, \hd5, \h2f, \h8e, \h3e, \h58, \h21, \h40,
  \h2c, \h9f, \h50, \hf5, \hcf, \h97, \h2f, \hac, \h4b, \h06, \ha2, \h5d, \h83, \h29, \h2e, \ha1,
  \h94, \hc4, \h63, \h4b, \h62, \hd7, \hf6, \hb0, \heb, \h5d, \hd4, \ha6, \hae, \h4d, \h13, \hc7,
  \h26, \h73, \hc7, \hbf, \h39, \h7f, \h2a, \hd6, \hbf, \h4e, \h74, \h03, \ha7, \hb9, \h65, \hdc,
  \h5c, \he0, \h64, \h5d, \hf0, \h39, \hc2, \hd6, \h9c, \h81, \h4f, \hfb, \h40, \h31, \h83, \hfb >>)

stim_b == Repeated(<<
  \h18, \h8f, \hef, \heb, \h47, \hfe, \h7d, \h53, \h7f, \h5d, \hf0, \hd0, \hae, \h0f, \h88, \h8a,
  \h87, \h33, \hcb, \h9b, \h19, \h69, \hd5, \h8e, \h34, \h56, \ha5, \h0d, \h2b, \h9a, \h52, \h57,
  \hcd, \h5c, \h29, \h72, \h2e, \h49, \h07, \he9, \h24, \hd3, \h77, \hcd, \h69, \h3a, \h7a, \h73,
  \h9d, \hd8, \h0f, \hf5, \h74, \h6c, \h78, \h0e, \h1c, \hbc, \h39, \h35, \hcb, \h1c, \h25, \h60,
  \hd0, \h92, \h09, \hd6, \h96, \h84, \h56, \ha8, \h37, \hab, \h2c, \h68, \h2c, \h96, \hd3, \h1c,
  \h9b, \he9, \h1a, \h3f, \h63, \h0d, \h00, \h51, \h5d, \h00, \hac, \h5f, \h0d, \h56, \he8, \h8e,
  \h58, \hf4, \h6c, \h58, \h6a, \hb6, \ha0, \h40, \h3c, \hd0, \h1d, \h25, \hcd, \h0e, \hd1, \h4f,
  \hc1, \h68, \h00, \h0f, \h6d, \h00, \hda, \h78, \h4d, \hed, \hd8, \h87, \h19, \h6c, \hc0, \hbb >>)

stim_c == Repeated(<<
  \h5d, \h60, \h4c, \h0c, \h49, \ha6, \hd1, \hb0, \hcf, \he8, \h51, \h0c, \hbb, \ha8, \h51, \hee,
  \he1, \ha8, \h45, \hbe, \ha4, \ha2, \hb3, \h67, \h83, \h59, \h7e, \h06, \h21, \hbf, \h80, \hc6,
  \h49, \hc0, \hfc, \h53, \h5b, \h7e, \h48, \hd7, \h26, \h24, \h81, \h80, \had, \hc0, \h31, \hdc,
  \hb4, \h98, \ha7, \hb5, \ha8, \h53, \h83, \hfd, \hb1, \h41, \h3f, \h42, \hc1, \h9f, \h00, \h91,
  \h02, \h00, \h64, \h8c, \h15, \hb2, \h7e, \h93, \h52, \h3f, \hf1, \hdf, \h87, \h78, \h8e, \hfb,
  \h2d, \h47, \h9e, \h4d, \h23, \h4f, \he8, \h19, \h28, \h74, \h49, \h9b, \h83, \h24, \h0a, \hfa,
  \h69, \h85, \h5f, \h1b, \hb8, \h2f, \h51, \hc8, \hbf, \ha8, \h49, \h86, \hd9, \ha4, \h25, \h28,
  \hfd, \h92, \h49, \h6c, \he6, \h4a, \hb6, \h58, \h9c, \h50, \hac, \h5e, \h6c, \h5d, \haf, \h2f >>)

stim_d == Repeated(<<
  \he2, \hdd, \h97, \h83, \h5a, \hcf, \hc1, \h27, \h53, \hb7, \h13, \hd4, \hdb, \h5d, \h6a, \h94,
  \h44, \h0e, \hca, \h92, \he4, \h61, \hc9, \h3c, \h67, \h32, \h1e, \h46, \h1b, \h30, \h23, \h6f,
  \h2a, \hb8, \hb7, \h41, \hae, \hb3, \ha0, \hf7, \h15, \hde, \h7b, \h16, \h38, \h7c, \h8b, \h72,
  \h2f, \h09, \h39, \ha2, \ha5, \h36, \h51, \he3, \h59, \hf0, \h71, \h92, \h02, \h49, \hc9, \hcb,
  \hb0, \hce, \he5, \h68, \h75, \h09, \h34, \h31, \hee, \hb4, \h98, \hcb, \h03, \hc8, \h65, \h55,
  \hc8, \hd1, \haa, \h71, \h89, \ha3, \h38, \h5e, \h53, \h49, \h2f, \hcd, \h86, \he1, \he6, \hb5,
  \h56, \hf3, \hda, \h08, \h0d, \h41, \h04, \h82, \hbe, \h18, \hc1, \h3f, \h98, \h80, \h9f, \hb0,
  \hf2, \h07, \hd8, \hac, \hef, \h0e, \h56, \h32, \h30, \h18, \h99, \h05, \h05, \h9f, \h02, \hce >>)

-----------------------------------------------------------------------------
(* Words of four bytes and of eight.                                       *)

ToWord(stim, n) == [k \in 0 .. 3 |-> stim[4 * n + k]]
Number(n)       == [k \in 0 .. 3 |-> (n \div 256 ^ k) % 256]
Zero            == Number(0)

\* (int64_t) x
Extended(x) == [k \in 0 .. 7 |-> IF k < 4 THEN x[k] ELSE IF x[3] >= 128 THEN 255 ELSE 0]

\* The bytes of a sum of columns, without what does not fit.
Carried(column) ==
  LET carry[k \in 0 .. 8] == IF k = 0 THEN 0 ELSE (carry[k - 1] + column[k - 1]) \div 256
  IN  [k \in 0 .. 7 |-> (carry[k] + column[k]) % 256]

Plus(x, y)  == Carried([k \in 0 .. 7 |-> x[k] + y[k]])
Times(x, y) == Carried([k \in 0 .. 7 |-> MapThenSumSet(LAMBDA l : x[l] * y[k - l], 0 .. k)])

-----------------------------------------------------------------------------
(* The job: as many results, of as many products, from b[stride * j] on.   *)

nb_iter == IF build = "matvec" THEN 10 ELSE 4

\* Mutant: the length is the register's, which holds one less.
len_iter_Register == IF build = "matvec" THEN 7 ELSE 31

len_iter == IF build = "matvec" THEN 8 ELSE 32

vectstride2 == IF build = "matvec" THEN 0 ELSE len_iter

Init ==
  /\ build \in {"dot", "ramp", "matvec"} /\ pc = "stimuli"
  /\ a = [n \in Index |-> Zero] /\ b = a /\ c = a /\ d = a
  /\ j = 0 /\ i = 0 /\ tmp = Extended(Zero)

Stimuli ==
  /\ pc = "stimuli"
  /\ IF build = "ramp"
       THEN LET ramp == [n \in Index |-> Number(n)]
            IN  a' = ramp /\ b' = ramp /\ c' = ramp /\ d' = ramp
       ELSE /\ a' = [n \in Index |-> ToWord(stim_a, n)]
            /\ b' = [n \in Index |-> ToWord(stim_b, n)]
            /\ c' = [n \in Index |-> IF build = "matvec" THEN Zero ELSE ToWord(stim_c, n)]
            /\ d' = [n \in Index |-> ToWord(stim_d, n)]
  /\ pc' = "bias"
  /\ UNCHANGED << build, j, i, tmp >>

Bias ==
  /\ pc = "bias"
  /\ IF j < nb_iter
       THEN tmp' = Extended(c[j]) /\ i' = 0 /\ pc' = "product"
       ELSE pc' = "exit" /\ UNCHANGED << tmp, i >>
  /\ UNCHANGED << build, a, b, c, d, j >>

Product ==
  /\ pc = "product" /\ i < len_iter
  /\ tmp' = Plus(tmp, Times(Extended(a[len_iter * j + i]), Extended(b[vectstride2 * j + i])))
  /\ i' = i + 1
  /\ UNCHANGED << build, pc, a, b, c, d, j >>

Store ==
  /\ pc = "product" /\ i = len_iter
  /\ d' = [d EXCEPT ![j] = [k \in 0 .. 3 |-> tmp[k]]]
  /\ j' = j + 1 /\ pc' = "bias"
  /\ UNCHANGED << build, a, b, c, i, tmp >>

Stopped == pc = "exit" /\ UNCHANGED vars

Next == Stimuli \/ Bias \/ Product \/ Store \/ Stopped

Spec == Init /\ [][Next]_vars

-----------------------------------------------------------------------------
\* hwme.c's four comparisons, of each build, in the order they are written in.
Expected ==
  [ramp   |-> << << \h00, \h00, \h28, \hb0 >>, << \h00, \h01, \h24, \hb1 >>,
                 << \h00, \h03, \h20, \hb2 >>, << \h00, \h06, \h1c, \hb3 >> >>,
   matvec |-> << << \h7c, \hb1, \h2a, \h38 >>, << \hcd, \h4f, \h4d, \hcb >>,
                 << \h49, \hcd, \h5d, \h5c >>, << \h2a, \h1d, \h87, \h06 >> >>,
   dot    |-> << << \h7f, \h22, \h8f, \hd6 >>, << \h23, \ha7, \hd5, \hc2 >>,
                 << \h7f, \h28, \h18, \h48 >>, << \h61, \h27, \hd8, \h34 >> >>]

\* Each constant hwme.c compares a result with is what the functional model
\* computes from the same data, overflow included, and is not what memory holds
\* before: hwme.c counts an error for each of the four results that the engine
\* leaves out, and for no other.
ExpectedIsReference ==
  \A r \in 0 .. 3 :
    Expected[build][r + 1] = [k \in 1 .. 4 |-> d[r][4 - k]] <=> r < j
=============================================================================
