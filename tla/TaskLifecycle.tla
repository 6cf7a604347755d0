--------------------------- MODULE TaskLifecycle ---------------------------
(***************************************************************************)
(* What a scheduler promises about the life of a task, without locks,      *)
(* interrupts, queues or run times: a task is created ready, is dispatched *)
(* only from ready, and is woken only when it is blocked.  There is always *)
(* exactly one running task once the idle task has been set up.            *)
(***************************************************************************)
CONSTANTS
  Tasks,   \* task identifiers
  Idle     \* the task that is there from the start and never blocks

VARIABLE state

States == {"absent", "ready", "running", "blocked"}

Init == state = [t \in Tasks |-> "absent"]

Boot ==
  /\ state[Idle] = "absent"
  /\ state' = [state EXCEPT ![Idle] = "running"]

Create(t) ==
  /\ state[Idle] # "absent"
  /\ state[t] = "absent"
  /\ state' = [state EXCEPT ![t] = "ready"]

(* The running task gives up the CPU, to a ready task or, if it stays      *)
(* ready, back to itself (no change of state).                             *)
Dispatch(from, to, left) ==
  /\ state[from] = "running"
  /\ state[to] = "ready"
  /\ left \in {"ready", "blocked"}
  /\ from = Idle => left = "ready"
  /\ state' = [state EXCEPT ![from] = left, ![to] = "running"]

(* One wake-up, or the several that one clock tick makes due.              *)
Wake(woken) ==
  /\ woken # {}
  /\ \A t \in woken : state[t] = "blocked"
  /\ state' = [t \in Tasks |-> IF t \in woken THEN "ready" ELSE state[t]]

Next ==
  \/ Boot
  \/ \E t \in Tasks : Create(t)
  \/ \E from, to \in Tasks, left \in {"ready", "blocked"} : Dispatch(from, to, left)
  \/ \E woken \in SUBSET Tasks : Wake(woken)

Spec == Init /\ [][Next]_state
=============================================================================
