----------------------------- MODULE FrameQueue -----------------------------
(***************************************************************************)
(* What an Interface (src/src/net/mod.rs) promises its driver and its      *)
(* reader: a bounded first-in first-out queue of frames.  A frame that     *)
(* finds the queue full is dropped; a frame that was put is handed out     *)
(* once, unchanged, in order, and eventually.                              *)
(***************************************************************************)
EXTENDS Naturals, Sequences

CONSTANTS Slots, Frames, None

VARIABLES
  queue,   \* the frames put and not yet handed out
  last     \* the frame handed out last

Init == queue = <<>> /\ last = None

Put ==
  /\ Len(queue) < Slots
  /\ \E f \in Frames : queue' = Append(queue, f)
  /\ UNCHANGED last

Get ==
  /\ queue # <<>>
  /\ last' = Head(queue)
  /\ queue' = Tail(queue)

Spec == Init /\ [][Put \/ Get]_<<queue, last>> /\ WF_<<queue, last>>(Get)

=============================================================================
