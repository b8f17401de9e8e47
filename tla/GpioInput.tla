------------------------------ MODULE GpioInput ------------------------------
(***************************************************************************)
(* gpio/input/test.c: read a pin ten times and print what was read.  The   *)
(* format of the printf has one %d, and the call gives it two arguments,   *)
(* of which the first is 0.                                                *)
(***************************************************************************)
EXTENDS Integers

CONSTANT READS  \* 10 in the code

VARIABLES i,        \* the loop variable
          pin,      \* the level of the pin
          read,     \* what rt_gpio_get_pin_value has returned
          printed   \* what has been printed

vars == << i, pin, read, printed >>

Init == i = 0 /\ pin \in 0 .. 1 /\ read = 0 /\ printed = 0

\* One turn of the loop: printf prints its first argument.
Turn ==
  /\ i < READS
  /\ i' = i + 1
  /\ read' = pin
  /\ printed' = 0
  /\ UNCHANGED pin

\* The level changes, during the wait or at any other time.
Change == pin' = 1 - pin /\ UNCHANGED << i, read, printed >>

Next == Turn \/ Change

Spec == Init /\ [][Next]_vars

\* test.c:20 "Now get input values", and line 23 prints each of them after "Got
\* GPIO value": what is printed is what has been read.
PrintedIsRead == printed = read
=============================================================================
