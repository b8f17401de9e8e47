------------------------------ MODULE FrameSlots ------------------------------
(***************************************************************************)
(* What the camera-to-framebuffer program promises, with no list, event or *)
(* counter: every image buffer is a slot that goes round                   *)
(*                                                                         *)
(*   unused -> free -> camera -> captured -> display -> displayed -> free  *)
(*                       ^---------'  (frame dropped)                      *)
(*                                                                         *)
(* with one slot at most on display and, whenever a frame leaves the       *)
(* camera's hands for good, another slot entering them in the same step.   *)
(***************************************************************************)
EXTENDS Naturals, FiniteSets

CONSTANT Slot

VARIABLE slot

State == {"unused", "free", "camera", "captured", "display", "displayed"}

In(states) == {s \in Slot : slot[s] \in states}

Init == slot = [s \in Slot |-> "unused"]

Provide(s) ==
  /\ slot[s] = "unused"
  /\ slot' = [slot EXCEPT ![s] = "free"]

\* Start-up only: the camera ends up with two slots.
Queue(s) ==
  /\ slot[s] = "free"
  /\ Cardinality(In({"camera", "captured"})) < 2
  /\ slot' = [slot EXCEPT ![s] = "camera"]

Capture(s) ==
  /\ slot[s] = "camera"
  /\ slot' = [slot EXCEPT ![s] = "captured"]

Show(s, t) ==
  /\ slot[s] = "captured" /\ slot[t] = "free"
  /\ In({"display", "displayed"}) = {}
  /\ slot' = [slot EXCEPT ![s] = "display", ![t] = "camera"]

\* A frame is dropped only while another one occupies the display.
Drop(s) ==
  /\ slot[s] = "captured"
  /\ In({"display", "displayed"}) # {}
  /\ slot' = [slot EXCEPT ![s] = "camera"]

Displayed(s) ==
  /\ slot[s] = "display"
  /\ slot' = [slot EXCEPT ![s] = "displayed"]

Release(s) ==
  /\ slot[s] = "displayed"
  /\ slot' = [slot EXCEPT ![s] = "free"]

Next == \E s \in Slot :
          \/ Provide(s) \/ Queue(s) \/ Capture(s) \/ Drop(s)
          \/ Displayed(s) \/ Release(s)
          \/ \E t \in Slot : Show(s, t)

\* Captured frames are dealt with and shown frames give their slot back.
Fairness == \A s \in Slot :
              /\ WF_slot(Displayed(s)) /\ WF_slot(Release(s))
              /\ WF_slot(Drop(s) \/ \E t \in Slot : Show(s, t))

Spec == Init /\ [][Next]_slot /\ Fairness
=============================================================================
