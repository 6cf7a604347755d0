------------------------- MODULE CountingSemaphore -------------------------
(***************************************************************************)
(* What a bounded counting semaphore promises: units are taken only when   *)
(* there are some and put back only when there is room, and as long as     *)
(* somebody waits while units are there (or is held back while there is    *)
(* room) some waiting call goes through.                                   *)
(***************************************************************************)
EXTENDS Naturals

CONSTANTS Tasks, Max

VARIABLES count, calls

vars == <<count, calls>>

Init == /\ count \in 0 .. Max
        /\ calls = [t \in Tasks |-> "none"]

Call(t, op) == /\ calls[t] = "none"
               /\ calls' = [calls EXCEPT ![t] = op]
               /\ UNCHANGED count

Acquire(t) == /\ calls[t] = "wait"
              /\ count > 0
              /\ count' = count - 1
              /\ calls' = [calls EXCEPT ![t] = "none"]

Release(t) == /\ calls[t] = "signal"
              /\ count < Max
              /\ count' = count + 1
              /\ calls' = [calls EXCEPT ![t] = "none"]

(* The calls that never block.                                             *)
TryAcquire == count > 0 /\ count' = count - 1 /\ UNCHANGED calls
TryRelease == count < Max /\ count' = count + 1 /\ UNCHANGED calls

Next ==
  \/ \E t \in Tasks : Call(t, "wait") \/ Call(t, "signal") \/ Acquire(t) \/ Release(t)
  \/ TryAcquire
  \/ TryRelease

Spec == /\ Init /\ [][Next]_vars
        /\ WF_vars(\E t \in Tasks : Acquire(t))
        /\ WF_vars(\E t \in Tasks : Release(t))
=============================================================================
