----------------------------- MODULE Scheduler -----------------------------
(***************************************************************************)
(* The task scheduler of the kernel (src/src/kernel/sched) together with   *)
(* the interrupt flag, the scheduler lock and the interrupt return path    *)
(* that drive it.  There is one CPU: concurrency comes from interrupts,    *)
(* which are taken wherever the interrupt flag is set, and from switches,  *)
(* which happen only inside the scheduler's critical section.              *)
(*                                                                         *)
(* Everything between `cli` and the drop of the scheduler guard runs with  *)
(* interrupts off, so a critical section is one step of the model; taking  *)
(* the lock is two (interrupts_enabled() is read before `cli`).            *)
(***************************************************************************)
EXTENDS Naturals, Sequences, FiniteSets

CONSTANTS
  MaxTasks,      \* bound on the number of tasks, the boot (idle) task included
  SchedLatency,  \* SCHED_LATENCY, in units of the model clock
  MaxTime,       \* bound on the model clock
  Garbage        \* values an uninitialised run_until may hold

ASSUME SchedulerAssumption ==
  /\ MaxTasks \in Nat \ {0}
  /\ SchedLatency \in Nat
  /\ MaxTime \in Nat
  /\ Garbage \in SUBSET Nat /\ Garbage # {}

VARIABLES
  time,               \* HPET main counter, in nanoseconds
  nextTaskId,         \* TaskList.next_task_id
  info,               \* TaskInfo of every task: the scheduling fields
  interrupt_enabled,  \* TaskInfo.interrupt_enabled of every task
  schedulable,        \* TaskList.schedulable: the copies of each task's
                      \* total_runtime that are in the heap, oldest first
  locked,             \* the spin lock around SCHEDULER
  cur,                \* the task whose stack the CPU runs on
  intr,               \* the interrupt flag of the CPU
  inService,          \* an interrupt the local APIC still has in service
  nested,             \* an interrupt was taken inside a handler
  frame,              \* what each task is doing, in its thread and in a trap
  spin,               \* the task holds a WithSpinLock taken with interrupts on
  waiting,            \* tasks in the wait queue of some semaphore
  sleeping            \* tasks with a wake-up callback pending in the clock

taskVars == <<nextTaskId, info, schedulable>>
cpuVars  == <<cur, intr, inService, nested>>
waitVars == <<waiting, sleeping>>
vars == <<time, nextTaskId, info, interrupt_enabled, schedulable, locked, cur,
          intr, inService, nested, frame, spin, waiting, sleeping>>

Tasks == 0 .. MaxTasks - 1
Idle  == 0

TaskInfo == [runnable: BOOLEAN, total_runtime: Nat,
             last_scheduled: Nat, run_until: Nat]

(***************************************************************************)
(* A frame is a call of sched::lock and what follows it, in the thread of  *)
(* a task or in the trap (interrupt or system call) on top of it:          *)
(*   body     ordinary code of the thread                                  *)
(*   handler  the interrupt handler has not finished                       *)
(*   lock     about to call lock(); cli: has read the interrupt flag       *)
(*   crit     holds the guard;       drop: about to drop the guard         *)
(*   iret     about to return from the trap;   none: no frame              *)
(***************************************************************************)
Levels == {"thread", "trap"}
Places == {"none", "body", "handler", "lock", "cli", "crit", "drop", "iret"}
Ops    == {"none", "init", "boot", "entry", "new", "wait", "wake",
           "yield", "sleep", "irq", "check"}
Frame  == [pc: Places, op: Ops, was: BOOLEAN, target: Tasks, saved: BOOLEAN]

NoFrame   == [pc |-> "none", op |-> "none", was |-> FALSE,
              target |-> Idle, saved |-> FALSE]
Body(op)  == [NoFrame EXCEPT !.pc = "body", !.op = op]

Level(t)  == IF frame[t]["trap"].pc = "none" THEN "thread" ELSE "trap"
Top(t)    == frame[t][Level(t)]
Created   == {t \in Tasks : t < nextTaskId}

-----------------------------------------------------------------------------
(* TaskList, src/src/kernel/sched/task.rs.  `i` is the task table and `q`  *)
(* the heap.  A task's copies are pushed with a total_runtime that only    *)
(* grows, so the oldest copy of a task is its smallest.                    *)

Push(q, i, t) == [q EXCEPT ![t] = Append(@, i[t].total_runtime)]

(* Faulty variants: the requeue without its test, or left out;             *)
(* set_run_until left out; the heap ordered the wrong way round.           *)
RequeueAlways(q, i, t) == Push(q, i, t)
RequeueNever(q, i, t) == q
SetRunUntilMissing(i, t, n) == i
LowestReversed(q) ==
  {u \in Tasks : /\ q[u] # <<>>
                 /\ \A v \in Tasks : q[v] # <<>> => Head(q[u]) >= Head(q[v])}

UpdateRuntime(i, t, n) ==
  [i EXCEPT ![t].total_runtime = @ + (time - i[t].last_scheduled) * n]

Requeue(q, i, t) == IF i[t].runnable THEN Push(q, i, t) ELSE q

SetCurrentTask(i, t) == [i EXCEPT ![t].last_scheduled = time]

SetRunUntil(i, t, n) == [i EXCEPT ![t].run_until = time + SchedLatency \div n]

SetRunnable(i, t, r) == [i EXCEPT ![t].runnable = r]

SetRunnableQueue(q, i, t, r) ==
  LET kept == [q EXCEPT ![t] = <<>>]
  IN  IF r THEN Push(kept, i, t) ELSE kept

(* The tasks BinaryHeap::pop may return: Ord reverses total_runtime, and   *)
(* among equal keys the heap's order is not specified.                     *)
Lowest(q) ==
  {u \in Tasks : /\ q[u] # <<>>
                 /\ \A v \in Tasks : q[v] # <<>> => Head(q[u]) <= Head(q[v])}

-----------------------------------------------------------------------------
(* lock() and the drop of the guard, src/src/kernel/sched/mod.rs.          *)

At(place) == Top(cur).pc = place

SetPc(place) == [frame EXCEPT ![cur][Level(cur)].pc = place]

LockRead ==
  /\ At("lock")
  /\ frame' = [frame EXCEPT ![cur][Level(cur)] = [@ EXCEPT !.was = intr, !.pc = "cli"]]
  /\ UNCHANGED <<time, taskVars, interrupt_enabled, locked, cpuVars, spin, waitVars>>

(* Faulty variant: the flag read again after the cli.                      *)
LockAcquireRereads ==
  /\ At("cli")
  /\ ~locked
  /\ locked' = TRUE
  /\ intr' = FALSE
  /\ interrupt_enabled' = [interrupt_enabled EXCEPT ![cur] = FALSE]
  /\ frame' = SetPc("crit")
  /\ UNCHANGED <<time, taskVars, cur, inService, nested, spin, waitVars>>

(* disable_interrupts, set_resume_interrupts and SCHEDULER.lock: nothing   *)
(* can come between them; a held lock is spun on.                          *)
LockAcquire ==
  /\ At("cli")
  /\ ~locked
  /\ locked' = TRUE
  /\ intr' = FALSE
  /\ interrupt_enabled' = [interrupt_enabled EXCEPT ![cur] = Top(cur).was]
  /\ frame' = SetPc("crit")
  /\ UNCHANGED <<time, taskVars, cur, inService, nested, spin, waitVars>>

(* What the code after the guard's drop does: a thread goes on, a trap     *)
(* handler goes to isr_exit, which calls check_runtime, and check_runtime  *)
(* returns to iretq.                                                       *)
AfterDrop(l, f) ==
  CASE l = "thread"                    -> Body(IF f.op = "init" THEN "boot" ELSE "none")
    [] l = "trap" /\ f.op = "check"    -> [f EXCEPT !.pc = "iret"]
    [] l = "trap" /\ f.op # "check"    -> [f EXCEPT !.pc = "lock", !.op = "check"]

(* Faulty variant: interrupts always come back on.                         *)
DropEnables ==
  /\ At("drop")
  /\ locked' = FALSE
  /\ intr' = TRUE
  /\ inService' = (inService /\ ~(Level(cur) = "trap" /\ Top(cur).op = "wake"))
  /\ frame' = [frame EXCEPT ![cur][Level(cur)] = AfterDrop(Level(cur), Top(cur))]
  /\ UNCHANGED <<time, taskVars, interrupt_enabled, cur, nested, spin, waitVars>>

(* SchedulerGuard::drop: the flag is read from the task that now runs, the *)
(* lock is released and interrupts come back on if the flag says so.  A    *)
(* device handler acknowledges its interrupt once the wake-up is done.     *)
Drop ==
  /\ At("drop")
  /\ locked' = FALSE
  /\ intr' = (intr \/ interrupt_enabled[cur])
  /\ inService' = (inService /\ ~(Level(cur) = "trap" /\ Top(cur).op = "wake"))
  /\ frame' = [frame EXCEPT ![cur][Level(cur)] = AfterDrop(Level(cur), Top(cur))]
  /\ UNCHANGED <<time, taskVars, interrupt_enabled, cur, nested, spin, waitVars>>

-----------------------------------------------------------------------------
(* Critical sections.                                                      *)

InCrit(op) == At("crit") /\ Top(cur).op = op

(* SchedulerGuard::switch on task table i and heap q with n tasks, and     *)
(* _do_switch: the guard travels to the task that is resumed.              *)
Switch(i, q, n) ==
  LET i1  == UpdateRuntime(i, cur, n)
      q1  == Requeue(q, i1, cur)
      low == Lowest(q1)
  IN  \E to \in IF low = {} THEN {Idle} ELSE low :
        /\ schedulable' = IF low = {} THEN q1 ELSE [q1 EXCEPT ![to] = Tail(@)]
        /\ info' = SetRunUntil(SetCurrentTask(i1, to), to, n)
        /\ cur' = to
        /\ frame' = SetPc("drop")

(* sched::init: make the boot stack task 0 and switch to it.               *)
Init_(i) == [i EXCEPT ![Idle] = [runnable |-> TRUE, total_runtime |-> 0,
                                 last_scheduled |-> time, run_until |-> 0]]

SchedInit ==
  /\ InCrit("init")
  /\ nextTaskId' = 1
  /\ interrupt_enabled' = [interrupt_enabled EXCEPT ![Idle] = intr]
  /\ Switch(Init_(info), schedulable, 1)
  /\ UNCHANGED <<time, locked, intr, inService, nested, spin, waitVars>>

(* Faulty variant: the new task starts without dropping the guard.         *)
NewTaskKeepsGuard ==
  /\ InCrit("new")
  /\ \E g \in Garbage :
       info' = [info EXCEPT ![nextTaskId] = [runnable |-> TRUE, total_runtime |-> 0,
                                             last_scheduled |-> 0, run_until |-> g]]
  /\ schedulable' = Push(schedulable, info', nextTaskId)
  /\ interrupt_enabled' = [interrupt_enabled EXCEPT ![nextTaskId] = TRUE]
  /\ nextTaskId' = nextTaskId + 1
  /\ frame' = [SetPc("drop") EXCEPT
                 ![nextTaskId] = [l \in Levels |->
                    IF l = "trap" THEN NoFrame ELSE Body("none")]]
  /\ UNCHANGED <<time, locked, cpuVars, spin, waitVars>>

(* TaskList::new_task: flags, runtimes and interrupt state are set,        *)
(* run_until is not; the new task starts in task_entry, which drops the    *)
(* guard it is handed.                                                     *)
NewTask ==
  /\ InCrit("new")
  /\ \E g \in Garbage :
       info' = [info EXCEPT ![nextTaskId] = [runnable |-> TRUE, total_runtime |-> 0,
                                             last_scheduled |-> 0, run_until |-> g]]
  /\ schedulable' = Push(schedulable, info', nextTaskId)
  /\ interrupt_enabled' = [interrupt_enabled EXCEPT ![nextTaskId] = TRUE]
  /\ nextTaskId' = nextTaskId + 1
  /\ frame' = [SetPc("drop") EXCEPT
                 ![nextTaskId] = [l \in Levels |->
                    IF l = "trap" THEN NoFrame
                    ELSE [Body("entry") EXCEPT !.pc = "drop", !.was = TRUE]]]
  /\ UNCHANGED <<time, locked, cpuVars, spin, waitVars>>

(* SCHED_YIELD.                                                            *)
Yield ==
  /\ InCrit("yield")
  /\ Switch(info, schedulable, nextTaskId)
  /\ UNCHANGED <<time, nextTaskId, interrupt_enabled, locked, intr, inService,
                 nested, spin, waitVars>>

(* SchedulerGuard::sleep (NANOSLEEP): block and leave a callback behind.   *)
Sleep ==
  /\ InCrit("sleep")
  /\ sleeping' = sleeping \cup {cur}
  /\ Switch(SetRunnable(info, cur, FALSE),
            SetRunnableQueue(schedulable, info, cur, FALSE), nextTaskId)
  /\ UNCHANGED <<time, nextTaskId, interrupt_enabled, locked, intr, inService,
                 nested, spin, waiting>>

(* SchedulerGuard::block, called by Semaphore::wait (or signal) once the   *)
(* task has queued itself; WaitPass is the semaphore being available.  The *)
(* calls made under a WithSpinLock are the signal()s of net::Interface,    *)
(* which always have room (SignalsHaveRoom of module Network).             *)
Block ==
  /\ InCrit("wait")
  /\ ~spin[cur]
  /\ waiting' = waiting \cup {cur}
  /\ Switch(SetRunnable(info, cur, FALSE),
            SetRunnableQueue(schedulable, info, cur, FALSE), nextTaskId)
  /\ UNCHANGED <<time, nextTaskId, interrupt_enabled, locked, intr, inService,
                 nested, spin, sleeping>>

WaitPass ==
  /\ InCrit("wait")
  /\ frame' = SetPc("drop")
  /\ UNCHANGED <<time, taskVars, interrupt_enabled, locked, cpuVars, spin, waitVars>>

(* SchedulerGuard::wake.                                                   *)
Wake ==
  /\ InCrit("wake")
  /\ LET t == Top(cur).target IN
       /\ info' = SetRunnable(info, t, TRUE)
       /\ schedulable' = SetRunnableQueue(schedulable, info, t, TRUE)
  /\ frame' = SetPc("drop")
  /\ UNCHANGED <<time, nextTaskId, interrupt_enabled, locked, cpuVars, spin, waitVars>>

(* check_runtime, called by isr_exit.  Its time stamp is read just before  *)
(* lock(); no step in between reads the clock, so reading it here only     *)
(* delays a clock advance past those steps.                                *)
Preempt ==
  /\ InCrit("check")
  /\ info[cur].run_until <= time
  /\ Switch(info, schedulable, nextTaskId)
  /\ UNCHANGED <<time, nextTaskId, interrupt_enabled, locked, intr, inService,
                 nested, spin, waitVars>>

KeepRunning ==
  /\ InCrit("check")
  /\ info[cur].run_until > time
  /\ frame' = SetPc("drop")
  /\ UNCHANGED <<time, taskVars, interrupt_enabled, locked, cpuVars, spin, waitVars>>

-----------------------------------------------------------------------------
(* What threads do between critical sections.                              *)

Running == At("body") /\ Top(cur).op = "none"

Call(op, t) == [frame EXCEPT ![cur]["thread"] =
                    [@ EXCEPT !.pc = "lock", !.op = op, !.target = t]]

(* The end of interrupt::init: remap_all turns interrupts on.              *)
EnableInterrupts ==
  /\ At("body") /\ Top(cur).op = "boot"
  /\ intr' = TRUE
  /\ frame' = [frame EXCEPT ![cur]["thread"] = Body("none")]
  /\ UNCHANGED <<time, taskVars, interrupt_enabled, locked, cur, inService,
                 nested, spin, waitVars>>

(* Only the boot task creates tasks (main.rs, rtl8139::init).              *)
CallNewTask ==
  /\ Running /\ cur = Idle
  /\ nextTaskId < MaxTasks
  /\ frame' = Call("new", Idle)
  /\ UNCHANGED <<time, taskVars, interrupt_enabled, locked, cpuVars, spin, waitVars>>

(* Semaphore::wait or signal: no code of the boot task calls them.         *)
CallWait ==
  /\ Running /\ cur # Idle
  /\ frame' = Call("wait", Idle)
  /\ UNCHANGED <<time, taskVars, interrupt_enabled, locked, cpuVars, spin, waitVars>>

(* Faulty variant: the waiter is looked at and stays in the queue.         *)
CallWakeNoPop ==
  /\ Running
  /\ \E t \in waiting : frame' = Call("wake", t)
  /\ UNCHANGED <<time, taskVars, interrupt_enabled, locked, cpuVars, spin, waitVars>>

(* The second half of a semaphore operation: pop a waiter, then wake it.   *)
CallWake ==
  /\ Running
  /\ \E t \in waiting :
       /\ waiting' = waiting \ {t}
       /\ frame' = Call("wake", t)
  /\ UNCHANGED <<time, taskVars, interrupt_enabled, locked, cpuVars, spin, sleeping>>

(* Faulty variant: a plain spin lock that leaves interrupts on.            *)
SpinLockNoCli ==
  /\ Running /\ ~spin[cur] /\ intr
  /\ spin' = [spin EXCEPT ![cur] = TRUE]
  /\ UNCHANGED <<time, taskVars, interrupt_enabled, locked, cpuVars, frame, waitVars>>

(* WithSpinLock::lock and the drop of its guard, src/src/locking/spinlock.rs:*)
(* was_enabled is kept in the guard, here in spin.                         *)
SpinLock ==
  /\ Running /\ ~spin[cur] /\ intr
  /\ intr' = FALSE
  /\ spin' = [spin EXCEPT ![cur] = TRUE]
  /\ UNCHANGED <<time, taskVars, interrupt_enabled, locked, cur, inService,
                 nested, frame, waitVars>>

SpinUnlock ==
  /\ Running /\ spin[cur]
  /\ intr' = TRUE
  /\ spin' = [spin EXCEPT ![cur] = FALSE]
  /\ UNCHANGED <<time, taskVars, interrupt_enabled, locked, cur, inService,
                 nested, frame, waitVars>>

-----------------------------------------------------------------------------
(* Traps: interrupt gates clear the interrupt flag on entry, and every     *)
(* handler leaves through isr_exit (src/src/arch/x86_64/isr.s).            *)

Trap(place, op) == [frame EXCEPT ![cur]["trap"] =
                      [NoFrame EXCEPT !.pc = place, !.op = op, !.saved = intr]]

(* syscall_handler acknowledges an interrupt before it looks at the number.*)
Syscall ==
  /\ Running /\ ~spin[cur]
  /\ \E op \in {"yield", "sleep"} :
       /\ op = "sleep" => cur # Idle
       /\ frame' = Trap("lock", op)
  /\ intr' = FALSE
  /\ inService' = FALSE
  /\ UNCHANGED <<time, taskVars, interrupt_enabled, locked, cur, nested, spin, waitVars>>

(* An interrupt, wherever the flag is set.  A second one on top of a trap  *)
(* only sets `nested`: the model has no frame for it, see NoNesting.       *)
Interrupt ==
  /\ intr
  /\ IF Level(cur) = "thread"
     THEN /\ frame' = Trap("handler", "irq")
          /\ UNCHANGED nested
     ELSE /\ nested' = TRUE
          /\ UNCHANGED frame
  /\ intr' = FALSE
  /\ inService' = TRUE
  /\ UNCHANGED <<time, taskVars, interrupt_enabled, locked, cur, spin, waitVars>>

(* Faulty variant: no end_of_interrupt.                                    *)
TimerHandlerNoEoi ==
  /\ At("handler")
  /\ \E due \in SUBSET sleeping :
       /\ due # {} => ~locked
       /\ sleeping' = sleeping \ due
       /\ info' = [t \in Tasks |-> [info[t] EXCEPT !.runnable = @ \/ t \in due]]
       /\ schedulable' = [t \in Tasks |-> IF t \in due THEN <<info[t].total_runtime>>
                                                       ELSE schedulable[t]]
  /\ frame' = [frame EXCEPT ![cur]["trap"] = [@ EXCEPT !.pc = "lock", !.op = "check"]]
  /\ UNCHANGED <<time, nextTaskId, interrupt_enabled, locked, cpuVars, spin, waiting>>

(* hpet_handler (and any handler that wakes nobody): the clock runs the    *)
(* callbacks that are due, each taking the raw SCHEDULER lock, and the     *)
(* interrupt is acknowledged.                                              *)
TimerHandler ==
  /\ At("handler")
  /\ \E due \in SUBSET sleeping :
       /\ due # {} => ~locked
       /\ sleeping' = sleeping \ due
       /\ info' = [t \in Tasks |-> [info[t] EXCEPT !.runnable = @ \/ t \in due]]
       /\ schedulable' = [t \in Tasks |-> IF t \in due THEN <<info[t].total_runtime>>
                                                       ELSE schedulable[t]]
  /\ inService' = FALSE
  /\ frame' = [frame EXCEPT ![cur]["trap"] = [@ EXCEPT !.pc = "lock", !.op = "check"]]
  /\ UNCHANGED <<time, nextTaskId, interrupt_enabled, locked, cur, intr, nested,
                 spin, waiting>>

(* A device handler whose Semaphore::try_signal finds a waiter: it calls   *)
(* sched::lock().wake with interrupts already off.                         *)
DeviceHandler ==
  /\ At("handler")
  /\ \E t \in waiting :
       /\ waiting' = waiting \ {t}
       /\ frame' = [frame EXCEPT ![cur]["trap"] =
                      [@ EXCEPT !.pc = "lock", !.op = "wake", !.target = t]]
  /\ UNCHANGED <<time, taskVars, interrupt_enabled, locked, cpuVars, spin, sleeping>>

(* iretq restores the flag of the interrupted code.                        *)
Iret ==
  /\ At("iret")
  /\ intr' = Top(cur).saved
  /\ frame' = [frame EXCEPT ![cur]["trap"] = NoFrame]
  /\ UNCHANGED <<time, taskVars, interrupt_enabled, locked, cur, inService,
                 nested, spin, waitVars>>

(* The HPET counter; get_time is 0 until hpet::init, after boot.           *)
Booted == frame[Idle]["thread"].op \notin {"init", "boot"}

Advance ==
  /\ Booted
  /\ time < MaxTime
  /\ time' = time + 1
  /\ UNCHANGED <<taskVars, interrupt_enabled, locked, cpuVars, frame, spin, waitVars>>

-----------------------------------------------------------------------------
(* boot.s: interrupts are off, and main calls sched::init.                 *)
Init ==
  /\ time = 0
  /\ nextTaskId = 0
  /\ info = [t \in Tasks |-> [runnable |-> FALSE, total_runtime |-> 0,
                              last_scheduled |-> 0, run_until |-> 0]]
  /\ interrupt_enabled = [t \in Tasks |-> FALSE]
  /\ schedulable = [t \in Tasks |-> <<>>]
  /\ locked = FALSE
  /\ cur = Idle
  /\ intr = FALSE
  /\ inService = FALSE
  /\ nested = FALSE
  /\ frame = [t \in Tasks |-> [l \in Levels |->
                IF t = Idle /\ l = "thread" THEN [Body("init") EXCEPT !.pc = "lock"]
                                            ELSE NoFrame]]
  /\ spin = [t \in Tasks |-> FALSE]
  /\ waiting = {}
  /\ sleeping = {}

(* Steps of the CPU inside a lock() call, a critical section or a trap.    *)
KernelStep ==
  \/ LockRead \/ LockAcquire \/ Drop
  \/ SchedInit \/ NewTask \/ Yield \/ Sleep \/ Block \/ WaitPass \/ Wake
  \/ Preempt \/ KeepRunning
  \/ EnableInterrupts \/ TimerHandler \/ DeviceHandler \/ Iret

(* Steps of a thread's own code.                                           *)
ThreadStep ==
  CallNewTask \/ CallWait \/ CallWake \/ SpinLock \/ SpinUnlock \/ Syscall

Next == KernelStep \/ ThreadStep \/ Interrupt \/ Advance

Spec == Init /\ [][Next]_vars

-----------------------------------------------------------------------------
(* Properties.                                                             *)

(* Every variable keeps its type.                                          *)
TypeOK ==
  /\ time \in Nat
  /\ nextTaskId \in 0 .. MaxTasks
  /\ info \in [Tasks -> TaskInfo]
  /\ interrupt_enabled \in [Tasks -> BOOLEAN]
  /\ schedulable \in [Tasks -> Seq(Nat)]
  /\ locked \in BOOLEAN
  /\ cur \in Tasks
  /\ intr \in BOOLEAN
  /\ inService \in BOOLEAN
  /\ nested \in BOOLEAN
  /\ frame \in [Tasks -> [Levels -> Frame]]
  /\ spin \in [Tasks -> BOOLEAN]
  /\ waiting \in SUBSET Tasks
  /\ sleeping \in SUBSET Tasks

(* The scheduler lock is held exactly while the running task is between    *)
(* lock() and the drop of the guard, interrupts are then off, and a task   *)
(* that is not running is parked inside switch() with the guard still to   *)
(* be dropped: a switch hands the guard over, it neither loses it nor      *)
(* leaves two owners.  So lock() and the clock's raw SCHEDULER.lock()      *)
(* never find the lock held, which on one CPU would spin forever.          *)
GuardHandover ==
  /\ locked <=> Top(cur).pc \in {"crit", "drop"}
  /\ locked => ~intr
  /\ \A t \in Created \ {cur} : Top(t).pc = "drop"

(* The interrupt state a guard's drop restores (one slot per task, written *)
(* by set_resume_interrupts) is the one the same call of lock() read, even *)
(* if interrupts, traps and other tasks took the lock in between.          *)
ResumesOwnInterruptState ==
  \A t \in Created : Top(t).pc = "drop" => interrupt_enabled[t] = Top(t).was

(* No interrupt is taken inside a handler: interrupts stay off from the    *)
(* entry of a trap to its iretq, whatever guards are dropped and whatever  *)
(* tasks run in between.                                                   *)
NoNesting == ~nested /\ (Level(cur) = "trap" => ~intr)

(* No switch happens with a WithSpinLock held.                             *)
NoSwitchHoldingSpinLock == \A t \in Tasks : spin[t] => t = cur /\ ~intr

(* An interrupt is acknowledged before its trap can switch tasks: while    *)
(* one is in service the running task is still in its handler.             *)
AcknowledgedBeforeSwitch ==
  inService => /\ Level(cur) = "trap"
               /\ Top(cur).op \in {"irq", "wake"}

(* Every runnable task that is not running is in the heap, once, with its  *)
(* present total_runtime; no other task is (task.rs:86, "a running task,   *)
(* which by definition is not in the schedulable queue").                  *)
SchedulableExact ==
  \A t \in Tasks :
    schedulable[t] = IF t \in Created \ {cur} /\ info[t].runnable
                     THEN <<info[t].total_runtime>> ELSE <<>>

(* The frames that have popped a task from a wait queue and not yet woken  *)
(* it.                                                                     *)
WakePending(t, l) == /\ frame[t][l].op = "wake"
                     /\ frame[t][l].pc \in {"lock", "cli", "crit"}

Wakers(b) == {w \in Tasks \X Levels :
                WakePending(w[1], w[2]) /\ frame[w[1]][w[2]].target = b}

(* No wake-up is lost or doubled: a blocked task is in one wait queue, or  *)
(* has one clock callback, or is about to be woken by one context, and a   *)
(* runnable task is in none of these, so wake() never hits one.            *)
BlockedHasOneWaker ==
  \A t \in Created :
    Cardinality(Wakers(t)) + (IF t \in waiting THEN 1 ELSE 0)
                           + (IF t \in sleeping THEN 1 ELSE 0)
      = IF info[t].runnable THEN 0 ELSE 1

(* The running task is runnable, and runs on a deadline that was set when  *)
(* it was last switched to, at most one SCHED_LATENCY later, never on the  *)
(* uninitialised run_until of a new task; the subtraction in               *)
(* update_runtime does not underflow.                                      *)
RunningIsScheduled ==
  cur \in Created => /\ info[cur].runnable
                     /\ info[cur].last_scheduled <= time
                     /\ info[cur].run_until >= info[cur].last_scheduled
                     /\ info[cur].run_until <= info[cur].last_scheduled + SchedLatency

(* A switch to another task picks one with the least total_runtime of all  *)
(* the tasks that could run.                                               *)
SwitchPicksLeast ==
  [][cur' # cur => \A t \in Created : info'[t].runnable =>
       info'[cur'].total_runtime <= info'[t].total_runtime]_vars

(* The task table, the heap and the stack pointer read as the state of     *)
(* each task.                                                              *)
Lifecycle == INSTANCE TaskLifecycle WITH
  state <- [t \in Tasks |-> IF t \notin Created THEN "absent"
                            ELSE IF t = cur THEN "running"
                            ELSE IF schedulable[t] # <<>> THEN "ready"
                            ELSE "blocked"]

(* Switches, wake-ups and task creation implement the life cycle: a task   *)
(* is switched to only from the heap, set_runnable(true) hits only blocked *)
(* tasks, and the fallback to task 0 in switch() never resumes a blocked   *)
(* task.                                                                   *)
ImplementsLifecycle == Lifecycle!Spec

=============================================================================
