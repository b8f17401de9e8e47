---------------------------- MODULE SlidingWindow ----------------------------
(***************************************************************************)
(* bridge/framebuffer/test.c: update a SIDE x SIDE window that slides over *)
(* a WIDTH x HEIGHT framebuffer, for ever.  The updates are blocking.      *)
(***************************************************************************)
EXTENDS Integers

CONSTANTS WIDTH, HEIGHT,  \* 160 and 120 in the code
          SIDE            \* 16 in the code

WindowAssumption ==
  /\ SIDE \in Nat \ {0} /\ WIDTH \in Nat /\ HEIGHT \in Nat
  /\ WIDTH > SIDE /\ HEIGHT > SIDE

VARIABLES pc,    \* where main is
          x, y   \* the window's corner

vars == << pc, x, y >>

TypeOK == pc \in {"begin", "update", "slide"} /\ x \in Nat /\ y \in Nat

Init == pc = "begin" /\ x = 0 /\ y = 0

-----------------------------------------------------------------------------
\* Connect to the bridge, open the framebuffer, set the buffer to black.
Connect == pc = "begin" /\ pc' = "update" /\ UNCHANGED << x, y >>

\* The blocking rt_bridge_fb_update.
Update == pc = "update" /\ pc' = "slide" /\ UNCHANGED << x, y >>

\* Mutant: a row of windows more before going back to the top.
Slide_OneRowMore ==
  /\ pc = "slide" /\ pc' = "update"
  /\ IF x + 1 = WIDTH - SIDE
       THEN x' = 0 /\ y' = IF y + SIDE > HEIGHT THEN 0 ELSE y + SIDE
       ELSE x' = x + 1 /\ UNCHANGED y

\* One pixel to the right; from the end of a row to the next row of windows,
\* and from the last row to the first.
Slide ==
  /\ pc = "slide" /\ pc' = "update"
  /\ IF x + 1 = WIDTH - SIDE
       THEN x' = 0 /\ y' = IF y + SIDE >= HEIGHT - SIDE THEN 0 ELSE y + SIDE
       ELSE x' = x + 1 /\ UNCHANGED y

Main == Connect \/ Update \/ Slide

-----------------------------------------------------------------------------
\* The two tests of Slide, an equality and an inequality, keep the window
\* inside the framebuffer.
InBounds == x + SIDE <= WIDTH /\ y + SIDE <= HEIGHT

\* The last window of a round; the code never lets the window touch the last
\* column, nor a row of windows begin at HEIGHT - SIDE.
LastWindow == x = WIDTH - SIDE - 1 /\ y = SIDE * ((HEIGHT - SIDE - 1) \div SIDE)
=============================================================================
