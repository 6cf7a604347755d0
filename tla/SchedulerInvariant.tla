------------------------- MODULE SchedulerInvariant -------------------------
(***************************************************************************)
(* The inductive invariants of module Scheduler, and the definitions the   *)
(* lemmas about its steps are stated with.                                 *)
(*                                                                         *)
(* IInv is about the lock, the interrupt flag and the frames; QInv is      *)
(* about the heap, the deadlines and the wakers, and needs IInv.           *)
(***************************************************************************)
EXTENDS Scheduler, TLAPS

(* The tasks that have a stack: the created ones and, before sched::init,  *)
(* the boot task.                                                          *)
Alive == Created \cup {Idle}

(* What a frame of a thread looks like: was is only set once lock() has    *)
(* read the flag, and never while the kernel boots.                        *)
ThreadOK(f) ==
  /\ f.pc \in {"none", "body", "lock", "cli", "crit", "drop"}
  /\ f.op \in {"none", "init", "boot", "entry", "new", "wait", "wake"}
  /\ f.pc \in {"none", "body", "lock"} => f.was = FALSE
  /\ f.op \in {"init", "boot"} => f.was = FALSE

(* What a frame of a trap looks like: interrupts were off when it called   *)
(* lock(), and it ends in check_runtime.                                   *)
TrapOK(f) ==
  /\ f.pc \in {"none", "handler", "lock", "cli", "crit", "drop", "iret"}
  /\ f.op \in {"none", "irq", "wake", "yield", "sleep", "check"}
  /\ f.was = FALSE
  /\ f.pc = "handler" => f.op = "irq"
  /\ f.pc = "iret" => f.op = "check"
  /\ f.pc \in {"lock", "cli", "crit", "drop"} => f.op # "irq"

(* Where a thread can be under a trap.                                     *)
Interruptible == {"body", "lock", "cli"}

(* Every frame is well formed; a trap interrupts a thread outside the      *)
(* critical section; only the boot task boots and creates tasks; wake-ups  *)
(* aim at tasks that exist.                                                *)
Shape ==
  \A t \in Tasks :
    /\ ThreadOK(frame[t]["thread"])
    /\ TrapOK(frame[t]["trap"])
    /\ frame[t]["trap"].pc # "none" => frame[t]["thread"].pc \in Interruptible
    /\ t \in Alive => frame[t]["thread"].pc # "none"
    /\ frame[t]["thread"].op \in {"init", "boot", "new"} => t = Idle
    /\ \A l \in Levels : frame[t][l].target \in Alive

(* The slot of set_resume_interrupts holds what the call of lock() that is *)
(* under way has read.                                                     *)
Saved ==
  \A t \in Tasks : Top(t).pc \in {"crit", "drop"} => interrupt_enabled[t] = Top(t).was

(* The boot task runs alone, with interrupts off, until EnableInterrupts;  *)
(* next_task_id is 0 exactly until the critical section of sched::init; a  *)
(* new_task under way has room in the table.                               *)
Starting ==
  LET f == frame[Idle]["thread"] IN
  /\ cur \in Alive
  /\ nextTaskId = 0 <=> f.op = "init" /\ f.pc \in {"lock", "cli", "crit"}
  /\ f.op \in {"init", "boot"} =>
       cur = Idle /\ intr = FALSE /\ spin[Idle] = FALSE /\ frame[Idle]["trap"].pc = "none"
  /\ f.op = "boot" => f.pc = "body"
  /\ f.op = "new" /\ f.pc \in {"lock", "cli", "crit"} => nextTaskId < MaxTasks

(* The heap, the wait queues and the callbacks hold created tasks only,    *)
(* and no task was scheduled in the future.                                *)
Known ==
  /\ \A t \in Tasks : schedulable[t] # <<>> => t \in Created
  /\ waiting \subseteq Created
  /\ sleeping \subseteq Created
  /\ \A t \in Tasks : info[t].last_scheduled <= time

(* Interrupts are off in a trap.                                           *)
Masked ==
  /\ nested = FALSE
  /\ frame[cur]["trap"].pc # "none" => intr = FALSE

(* A WithSpinLock is held by the running thread, with interrupts off, and  *)
(* a lock() it calls has read them off.                                    *)
Spinning ==
  \A t \in Tasks : spin[t] = TRUE =>
    /\ t = cur /\ intr = FALSE
    /\ frame[t]["trap"].pc = "none" /\ frame[t]["thread"].was = FALSE

(* An interrupt in service belongs to the trap the CPU is in.              *)
Service ==
  inService = TRUE => /\ frame[cur]["trap"].pc # "none"
                      /\ frame[cur]["trap"].op \in {"irq", "wake"}

(* GuardHandover, with the Boolean variables compared to their values.     *)
Guard ==
  /\ (locked = TRUE) <=> Top(cur).pc \in {"crit", "drop"}
  /\ locked = TRUE => intr = FALSE
  /\ \A t \in Created \ {cur} : Top(t).pc = "drop"

(* The inductive invariant.  GuardHandover needs Saved and Shape (a drop   *)
(* must not turn interrupts on in a trap), Starting and Known (a switch    *)
(* must pick a task that is parked at its drop), and Masked (an interrupt  *)
(* must find the lock free).                                               *)
IInv == /\ TypeOK /\ Shape /\ Saved /\ Starting /\ Known /\ Masked
        /\ Spinning /\ Service /\ Guard

(* SchedulableExact, for any task table, heap and set of tasks.            *)
Exact(i, q, C) ==
  \A t \in Tasks : /\ t \in C /\ i[t].runnable = TRUE => q[t] = <<i[t].total_runtime>>
                   /\ ~(t \in C /\ i[t].runnable = TRUE) => q[t] = <<>>

(* The deadline of a task was set when it was last switched to.            *)
Deadline(r) == /\ r.runnable = TRUE
               /\ r.run_until >= r.last_scheduled
               /\ r.run_until <= r.last_scheduled + SchedLatency

(* A context that is about to wake a task is a created one, and so is its  *)
(* target, which is blocked, in no queue, and has no second such context.  *)
Targets ==
  \A u \in Tasks, l \in Levels : WakePending(u, l) =>
    /\ u \in Created
    /\ frame[u][l].target \in Created
    /\ info[frame[u][l].target].runnable = FALSE
    /\ frame[u][l].target \notin waiting \cup sleeping
    /\ \A v \in Tasks, m \in Levels :
         WakePending(v, m) /\ frame[v][m].target = frame[u][l].target => v = u /\ m = l

(* A task that waits or sleeps is blocked, and does not do both.           *)
Queued == /\ \A t \in waiting \cup sleeping : info[t].runnable = FALSE
          /\ waiting \cap sleeping = {}

(* A blocked task has a waker.                                             *)
Blocked ==
  \A t \in Created : info[t].runnable = FALSE =>
    \/ t \in waiting \cup sleeping
    \/ \E u \in Tasks, l \in Levels : WakePending(u, l) /\ frame[u][l].target = t

(* Task 0 never blocks.                                                    *)
IdleCalls == \A l \in Levels : frame[Idle][l].op \notin {"wait", "sleep"}
IdleRuns == Idle \in Created => info[Idle].runnable = TRUE

(* The inductive invariant.                                                *)
QInv == /\ Exact(info, schedulable, Created \ {cur})
        /\ cur \in Created => Deadline(info[cur])
        /\ Targets /\ Queued /\ Blocked /\ IdleCalls /\ IdleRuns

(* What a step does to the tasks: it sets up task 0, creates a task,       *)
(* switches from a task to a runnable one that has the least run time of   *)
(* all that could run, or wakes some blocked tasks (or none).              *)
Boots == Created = {} /\ Created' = {Idle} /\ cur = Idle /\ cur' = Idle

Creates(n) == /\ Idle \in Created /\ n \notin Created /\ Created' = Created \cup {n}
              /\ cur \in Created /\ cur' = cur /\ info'[n].runnable = TRUE
              /\ \A t \in Tasks \ {n} : info'[t].runnable = info[t].runnable

RunsLeast(i, c, C) == \A t \in C : i[t].runnable = TRUE => i[c].total_runtime <= i[t].total_runtime

Switches == /\ Created' = Created /\ cur \in Created /\ cur' \in Created
            /\ cur = Idle => info'[cur].runnable = TRUE
            /\ \A t \in Tasks \ {cur} : info'[t].runnable = info[t].runnable
            /\ RunsLeast(info', cur', Created)

Wakes(D) == /\ Created' = Created /\ cur' = cur
            /\ \A t \in D : info[t].runnable = FALSE /\ info'[t].runnable = TRUE
            /\ \A t \in Tasks \ D : info'[t].runnable = info[t].runnable

-----------------------------------------------------------------------------
(* The step replaces one frame of the running task.                        *)
Put(l, f) ==
  /\ frame' \in [Tasks -> [Levels -> Frame]]
  /\ frame'[cur][l] = f
  /\ \A u \in Tasks, m \in Levels : (u # cur \/ m # l) => frame'[u][m] = frame[u][m]

(* What the invariant says of g, the frame the CPU is in at level l.       *)
Holds(l, g) ==
  /\ g.pc # "none"
  /\ l = "thread" => ThreadOK(g) /\ (g.op \in {"init", "boot", "new"} => cur = Idle)
  /\ l = "trap" => TrapOK(g) /\ intr = FALSE /\ spin[cur] = FALSE
  /\ g.target \in Alive
  /\ g.pc \in {"crit", "drop"} => interrupt_enabled[cur] = g.was
  /\ (locked = TRUE) <=> g.pc \in {"crit", "drop"}
  /\ locked = TRUE => intr = FALSE
  /\ spin[cur] = TRUE => intr = FALSE /\ g.was = FALSE
  /\ inService = TRUE => l = "trap" /\ g.op \in {"irq", "wake"}
  /\ cur = Idle /\ l = "thread" =>
       /\ nextTaskId = 0 <=> g.op = "init" /\ g.pc \in {"lock", "cli", "crit"}
       /\ g.op \in {"init", "boot"} => intr = FALSE /\ spin[cur] = FALSE
       /\ g.op = "boot" => g.pc = "body"
       /\ g.op = "new" /\ g.pc \in {"lock", "cli", "crit"} => nextTaskId < MaxTasks

(* What a step that replaces the frame the CPU is in by f must satisfy to  *)
(* keep the invariant.                                                     *)
Fits(l, f) ==
  /\ f.pc # "none"
  /\ l = "thread" => ThreadOK(f) /\ (f.op \in {"init", "boot", "new"} => cur = Idle)
  /\ l = "trap" => TrapOK(f) /\ intr' = FALSE
  /\ f.target \in Alive
  /\ f.pc \in {"crit", "drop"} => interrupt_enabled'[cur] = f.was
  /\ \A t \in Tasks \ {cur} : interrupt_enabled'[t] = interrupt_enabled[t]
  /\ (locked' = TRUE) <=> f.pc \in {"crit", "drop"}
  /\ locked' = TRUE => intr' = FALSE
  /\ spin[cur] = TRUE => intr' = FALSE /\ f.was = FALSE
  /\ inService' = TRUE => l = "trap" /\ f.op \in {"irq", "wake"}
  /\ cur = Idle /\ l = "thread" =>
       /\ nextTaskId = 0 <=> f.op = "init" /\ f.pc \in {"lock", "cli", "crit"}
       /\ f.op \in {"init", "boot"} => intr' = FALSE /\ spin[cur] = FALSE
       /\ f.op = "boot" => f.pc = "body"
       /\ f.op = "new" /\ f.pc \in {"lock", "cli", "crit"} => nextTaskId < MaxTasks
  /\ cur' = cur /\ nextTaskId' = nextTaskId /\ nested' = nested /\ spin' = spin

(* What the steps that only move within a frame leave alone.               *)
Stays == UNCHANGED <<time, nextTaskId, info, schedulable, cur, nested, spin>>

-----------------------------------------------------------------------------

(* The frames that lock(), a call, a finished handler and a trap gate      *)
(* make.                                                                   *)
ReadOf(g, w) == [g EXCEPT !.was = w, !.pc = "cli"]

CallOf(g, o, t) == [g EXCEPT !.pc = "lock", !.op = o, !.target = t]

CheckOf(g) == [g EXCEPT !.pc = "lock", !.op = "check"]

TrapOf(p, o, w) == [NoFrame EXCEPT !.pc = p, !.op = o, !.saved = w]

-----------------------------------------------------------------------------

(* A heap with a task in it has a least one (LowestExists of               *)
(* SchedulerTheorems); the lemmas about switch() assume it.                *)
LowestFound ==
  \A q \in [Tasks -> Seq(Nat)], a \in Tasks : q[a] # <<>> => Lowest(q) # {}

=============================================================================
