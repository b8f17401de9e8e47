--------------------------- MODULE CameraRefinement ---------------------------
(* The camera program implements FrameSlots: a buffer's state is the place *)
(* that holds it.                                                          *)
EXTENDS CameraFramebuffer

slot == [b \in Buffer |->
  IF b \in Range(first_buffer) THEN "free"
  ELSE IF b \in Range(captures) THEN "camera"
  ELSE IF b \in Fired("end_of_frame") THEN "captured"
  ELSE IF b \in Range(flushes) THEN "display"
  ELSE IF b \in Fired("end_of_fb_update") THEN "displayed"
  ELSE "unused"]

Slots == INSTANCE FrameSlots WITH Slot <- Buffer, slot <- slot

\* Every step of the callbacks, the camera and the bridge moves the buffers as
\* FrameSlots allows, and each captured or displayed buffer is moved on.
ImplementsFrameSlots == Slots!Spec
=============================================================================
