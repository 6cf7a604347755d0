----------------------------- MODULE Semaphore -----------------------------
(***************************************************************************)
(* The blocking semaphore of src/src/locking/semaphore.rs.  A call first   *)
(* tries the counter under the scheduler lock and either succeeds or       *)
(* queues itself and blocks, in one critical section; after a success it   *)
(* pops a task from the opposite queue and wakes it, in two further steps  *)
(* with interrupts on in between, where any other task or an interrupt     *)
(* handler may run.                                                        *)
(*                                                                         *)
(* The scheduler appears as `runnable` alone: a task that is not runnable  *)
(* takes no step, and any runnable task may take the next one (preemption  *)
(* is possible between any two steps, see module Scheduler).               *)
(***************************************************************************)
EXTENDS Naturals, Sequences, FiniteSets

CONSTANTS
  Tasks,  \* the tasks that use the semaphore
  Max     \* Semaphore.max

ASSUME SemaphoreAssumption == IsFiniteSet(Tasks) /\ Max \in Nat

VARIABLES
  count,      \* Semaphore.count
  waiting,    \* Semaphore.waiting, tasks blocked in wait()
  releasing,  \* Semaphore.releasing, tasks blocked in signal()
  runnable,   \* the runnable flag the scheduler keeps of each task
  pc,         \* where each task is
  popped      \* the task each task has popped and is about to wake, or itself

vars == <<count, waiting, releasing, runnable, pc, popped>>

(* wait, signal: about to take the scheduler lock and try the counter;     *)
(* popR, popW: about to pop from releasing or waiting; wakeR, wakeW: about *)
(* to wake the popped task.                                                *)
Places == {"idle", "wait", "popR", "wakeR", "signal", "popW", "wakeW"}

Init ==
  /\ count \in 0 .. Max          \* Semaphore::new asserts init <= max
  /\ waiting = <<>>
  /\ releasing = <<>>
  /\ runnable = [t \in Tasks |-> TRUE]
  /\ pc = [t \in Tasks |-> "idle"]
  /\ popped = [t \in Tasks |-> t]

At(t, place) == runnable[t] /\ pc[t] = place

Goto(t, place) == pc' = [pc EXCEPT ![t] = place]

Call(t) ==
  /\ At(t, "idle")
  /\ \E op \in {"wait", "signal"} : Goto(t, op)
  /\ UNCHANGED <<count, waiting, releasing, runnable, popped>>

(* Faulty variants: the front of the queue looked at and left there; the   *)
(* woken task goes on as if it had taken a unit; no pop after the update.  *)
PopWaitingFront(t) ==
  /\ At(t, "popW")
  /\ IF waiting = <<>>
     THEN Goto(t, "idle") /\ UNCHANGED popped
     ELSE popped' = [popped EXCEPT ![t] = Head(waiting)] /\ Goto(t, "wakeW")
  /\ UNCHANGED <<count, waiting, releasing, runnable>>

WakeNoRetry(t) ==
  /\ At(t, "wakeR") \/ At(t, "wakeW")
  /\ runnable' = [runnable EXCEPT ![popped[t]] = TRUE]
  /\ pc' = [pc EXCEPT ![t] = "idle",
                      ![popped[t]] = IF pc[t] = "wakeR" THEN "popW" ELSE "popR"]
  /\ popped' = [popped EXCEPT ![t] = t]
  /\ UNCHANGED <<count, waiting, releasing>>

IsrTrySignalNoPop ==
  /\ count < Max
  /\ count' = count + 1
  /\ UNCHANGED <<waiting, releasing, runnable, pc, popped>>

(* wait(): the counter is positive; sched::lock, try_update, drop.         *)
WaitTake(t) ==
  /\ At(t, "wait")
  /\ count > 0
  /\ count' = count - 1
  /\ Goto(t, "popR")
  /\ UNCHANGED <<waiting, releasing, runnable, popped>>

(* wait(): the counter is zero; push_back and block under the same guard.  *)
(* When block() returns the loop tries again.                              *)
WaitBlock(t) ==
  /\ At(t, "wait")
  /\ count = 0
  /\ waiting' = Append(waiting, t)
  /\ runnable' = [runnable EXCEPT ![t] = FALSE]
  /\ UNCHANGED <<count, releasing, pc, popped>>

(* try_wait(): the counter is taken without the scheduler lock.            *)
TryWait(t) ==
  /\ At(t, "idle")
  /\ count > 0
  /\ count' = count - 1
  /\ Goto(t, "popR")
  /\ UNCHANGED <<waiting, releasing, runnable, popped>>

PopReleasing(t) ==
  /\ At(t, "popR")
  /\ IF releasing = <<>>
     THEN Goto(t, "idle") /\ UNCHANGED <<releasing, popped>>
     ELSE /\ popped' = [popped EXCEPT ![t] = Head(releasing)]
          /\ releasing' = Tail(releasing)
          /\ Goto(t, "wakeR")
  /\ UNCHANGED <<count, waiting, runnable>>

(* sched::lock().wake(task), at the end of every operation.                *)
Wake(t) ==
  /\ \/ At(t, "wakeR")
     \/ At(t, "wakeW")
  /\ runnable' = [runnable EXCEPT ![popped[t]] = TRUE]
  /\ Goto(t, "idle")
  /\ popped' = [popped EXCEPT ![t] = t]
  /\ UNCHANGED <<count, waiting, releasing>>

(* signal(): the mirror image of wait(), at the upper bound.               *)
SignalPut(t) ==
  /\ At(t, "signal")
  /\ count < Max
  /\ count' = count + 1
  /\ Goto(t, "popW")
  /\ UNCHANGED <<waiting, releasing, runnable, popped>>

SignalBlock(t) ==
  /\ At(t, "signal")
  /\ count = Max
  /\ releasing' = Append(releasing, t)
  /\ runnable' = [runnable EXCEPT ![t] = FALSE]
  /\ UNCHANGED <<count, waiting, pc, popped>>

TrySignal(t) ==
  /\ At(t, "idle")
  /\ count < Max
  /\ count' = count + 1
  /\ Goto(t, "popW")
  /\ UNCHANGED <<waiting, releasing, runnable, popped>>

PopWaiting(t) ==
  /\ At(t, "popW")
  /\ IF waiting = <<>>
     THEN Goto(t, "idle") /\ UNCHANGED <<waiting, popped>>
     ELSE /\ popped' = [popped EXCEPT ![t] = Head(waiting)]
          /\ waiting' = Tail(waiting)
          /\ Goto(t, "wakeW")
  /\ UNCHANGED <<count, releasing, runnable>>

(* try_signal() in an interrupt handler (rtl8139_handler): interrupts are  *)
(* off, so its three steps are one.                                        *)
IsrTrySignal ==
  /\ count < Max
  /\ count' = count + 1
  /\ IF waiting = <<>>
     THEN UNCHANGED <<waiting, runnable>>
     ELSE /\ runnable' = [runnable EXCEPT ![Head(waiting)] = TRUE]
          /\ waiting' = Tail(waiting)
  /\ UNCHANGED <<releasing, pc, popped>>

(* The steps of a call that is under way.                                  *)
Step(t) ==
  \/ WaitTake(t) \/ WaitBlock(t) \/ PopReleasing(t)
  \/ SignalPut(t) \/ SignalBlock(t) \/ PopWaiting(t)
  \/ Wake(t)

Next ==
  \/ \E t \in Tasks : Call(t) \/ TryWait(t) \/ TrySignal(t) \/ Step(t)
  \/ IsrTrySignal

Spec == Init /\ [][Next]_vars

(* The scheduler runs every runnable task again and again, so a call under *)
(* way goes on; nothing obliges a task to start one.                       *)
FairSpec == Spec /\ \A t \in Tasks : WF_vars(Step(t))

-----------------------------------------------------------------------------
(* Properties.                                                             *)

(* Every variable keeps its type; the counter stays between 0 and max.     *)
TypeOK ==
  /\ count \in 0 .. Max
  /\ waiting \in Seq(Tasks)
  /\ releasing \in Seq(Tasks)
  /\ runnable \in [Tasks -> BOOLEAN]
  /\ pc \in [Tasks -> Places]
  /\ popped \in [Tasks -> Tasks]

(* The tasks whose next steps serve a waiter: they will pop one, wake one  *)
(* they popped, or try the counter again themselves.                       *)
ServeWaiting == {t \in Tasks : pc[t] \in {"popW", "wakeW"} \/ At(t, "wait")}

ServeReleasing == {t \in Tasks : pc[t] \in {"popR", "wakeR"} \/ At(t, "signal")}

(* No wake-up of a waiter is lost: while tasks are queued in wait(), each  *)
(* available unit has a task under way that will hand it on or take it,    *)
(* although the unit is put back, the waiter popped and the waiter woken   *)
(* in three separate steps.                                                *)
NoLostWakeup == waiting # <<>> => count <= Cardinality(ServeWaiting)

(* The same for tasks queued in signal() and free room below max.          *)
NoLostRelease == releasing # <<>> => Max - count <= Cardinality(ServeReleasing)

InQueue(q, t) == {i \in 1 .. Len(q) : q[i] = t}

(* A blocked task is in one place from which it will be woken: once in the *)
(* queue of the call it is in, or popped by one task; a runnable task is   *)
(* in neither, so a wake-up never hits a task that is not blocked and a    *)
(* retry in the loop never queues a task twice.                            *)
BlockedInOnePlace ==
  \A t \in Tasks :
    Cardinality(InQueue(waiting, t)) + Cardinality(InQueue(releasing, t))
      + Cardinality({u \in Tasks : pc[u] \in {"wakeR", "wakeW"} /\ popped[u] = t})
    = IF runnable[t] THEN 0 ELSE 1

(* Once every call has returned or is blocked, tasks wait only for units   *)
(* that are not there and are held back only when there is no room.        *)
QuietIsTight ==
  (\A t \in Tasks : runnable[t] => pc[t] = "idle")
    => /\ waiting # <<>> => count = 0
       /\ releasing # <<>> => count = Max

Abstract == INSTANCE CountingSemaphore WITH
  calls <- [t \in Tasks |-> IF pc[t] \in {"wait", "signal"} THEN pc[t] ELSE "none"]

(* The implementation is a counting semaphore, its progress included: a    *)
(* unit that stays available while tasks wait is eventually taken.         *)
ImplementsCountingSemaphore == Abstract!Spec

=============================================================================
