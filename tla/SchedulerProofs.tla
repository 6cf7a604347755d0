--------------------------- MODULE SchedulerProofs --------------------------
(***************************************************************************)
(* Proofs about module Scheduler, for any number of tasks, any latency and *)
(* any bound on the clock, with the invariants of SchedulerInvariant.      *)
(*                                                                         *)
(* First every step keeps IInv: lemmas about frames, the heap and          *)
(* switch(), then the steps that stay on a task, then those that switch to *)
(* or create one; and the theorems that follow from IInv.                  *)
(*                                                                         *)
(* Then every step keeps QInv.  The parts of QInv need one another.  A     *)
(* switch keeps the heap exact only if the heap is not empty, for the      *)
(* fallback to task 0 would run a task that is still in it; it is not      *)
(* empty because task 0 never blocks.  A wake-up keeps it exact only if    *)
(* its target is not runnable, which is what it means that a task has no   *)
(* second waker.                                                           *)
(***************************************************************************)
EXTENDS SchedulerInvariant

(* The boot task is a task.                                                *)
LEMMA IdleTask == Idle \in Tasks
BY SchedulerAssumption DEF Idle, Tasks

(* The frame the CPU is in is a frame.                                     *)
LEMMA TopFrame ==
  ASSUME TypeOK
  PROVE  /\ \A t \in Tasks : Level(t) \in Levels /\ Top(t) \in Frame
         /\ cur \in Tasks
BY ZenonT(60) DEF TypeOK, Level, Levels, Top

(* What an EXCEPT on one frame of the running task does.                   *)
LEMMA PutFrame ==
  ASSUME TypeOK, NEW l \in Levels, NEW f \in Frame,
         frame' = [frame EXCEPT ![cur][l] = f]
  PROVE  Put(l, f)
BY Zenon DEF TypeOK, Put

(* What SetPc does.                                                        *)
LEMMA PutPc ==
  ASSUME TypeOK, NEW p \in Places, frame' = SetPc(p)
  PROVE  \E f \in Frame :
           /\ f.pc = p /\ f.op = Top(cur).op /\ f.was = Top(cur).was
           /\ f.target = Top(cur).target /\ f.saved = Top(cur).saved
           /\ Put(Level(cur), f)
<1>1. Level(cur) \in Levels /\ Top(cur) \in Frame /\ cur \in Tasks
  BY TopFrame, Zenon
<1> DEFINE g == Top(cur)
           f == [pc |-> p, op |-> g.op, was |-> g.was, target |-> g.target, saved |-> g.saved]
<1>2. f \in Frame /\ f = [g EXCEPT !.pc = p]
  BY <1>1 DEF Frame
<1>3. frame' = [frame EXCEPT ![cur][Level(cur)] = f]
  BY <1>1, <1>2, Zenon DEF SetPc, Top, TypeOK
<1>4. Put(Level(cur), f)
  BY <1>1, <1>2, <1>3, PutFrame, Zenon
<1> QED BY <1>2, <1>4, Zenon

(* A step within the frame the CPU is in changes no level, and the top     *)
(* frame of no other task.                                                 *)
LEMMA PutTop ==
  ASSUME TypeOK, NEW f \in Frame, f.pc # "none", Put(Level(cur), f)
  PROVE  \A t \in Tasks : Level(t)' = Level(t) /\ Top(t)' = IF t = cur THEN f ELSE Top(t)
BY Zenon DEF TypeOK, Put, Top, Level, Levels

(* Replacing a frame by a well-formed one keeps Shape.                     *)
LEMMA PutShapeAlive ==
  ASSUME TypeOK, Shape, NEW l \in Levels, NEW f \in Frame, Put(l, f),
         Alive' = Alive,
         l = "thread" => /\ ThreadOK(f) /\ f.pc # "none"
                         /\ frame[cur]["trap"].pc # "none" => f.pc \in Interruptible
                         /\ f.op \in {"init", "boot", "new"} => cur = Idle,
         l = "trap" => /\ TrapOK(f)
                       /\ f.pc # "none" => frame[cur]["thread"].pc \in Interruptible,
         f.target \in Alive
  PROVE  Shape'
<1> SUFFICES ASSUME NEW t \in Tasks
             PROVE  (/\ ThreadOK(frame[t]["thread"])
                     /\ TrapOK(frame[t]["trap"])
                     /\ frame[t]["trap"].pc # "none" => frame[t]["thread"].pc \in Interruptible
                     /\ t \in Alive => frame[t]["thread"].pc # "none"
                     /\ frame[t]["thread"].op \in {"init", "boot", "new"} => t = Idle
                     /\ \A m \in Levels : frame[t][m].target \in Alive)'
  BY Zenon DEF Shape
<1>2. CASE t # cur
  BY <1>2, Zenon DEF Shape, Put, Levels
<1>3. CASE t = cur /\ l = "thread"
  BY <1>3, Zenon DEF Shape, Put, Levels
<1>4. CASE t = cur /\ l = "trap"
  BY <1>4, Zenon DEF Shape, Put, Levels
<1> QED BY <1>2, <1>3, <1>4, Zenon DEF Levels

(* The same, for a step that creates no task.                              *)
LEMMA PutShape ==
  ASSUME TypeOK, Shape, NEW l \in Levels, NEW f \in Frame, Put(l, f),
         nextTaskId' = nextTaskId,
         l = "thread" => /\ ThreadOK(f) /\ f.pc # "none"
                         /\ frame[cur]["trap"].pc # "none" => f.pc \in Interruptible
                         /\ f.op \in {"init", "boot", "new"} => cur = Idle,
         l = "trap" => /\ TrapOK(f)
                       /\ f.pc # "none" => frame[cur]["thread"].pc \in Interruptible,
         f.target \in Alive
  PROVE  Shape'
<1>1. Alive' = Alive
  BY Zenon DEF Alive, Created
<1> QED BY <1>1, PutShapeAlive, Zenon

LEMMA Current ==
  ASSUME IInv
  PROVE  Holds(Level(cur), Top(cur))
<1>1. cur \in Tasks /\ cur \in Alive
  BY Zenon DEF IInv, TypeOK, Starting
<1>2. CASE frame[cur]["trap"].pc = "none"
  <2>1. Level(cur) = "thread" /\ Top(cur) = frame[cur]["thread"]
    BY <1>2, Zenon DEF Level, Top
  <2> DEFINE g == frame[cur]["thread"]
  <2>2. /\ ThreadOK(g) /\ g.pc # "none" /\ g.target \in Alive
        /\ g.op \in {"init", "boot", "new"} => cur = Idle
    BY <1>1, Zenon DEF IInv, Shape, Levels
  <2>3. spin[cur] = TRUE => intr = FALSE /\ g.was = FALSE
    BY <1>1, Zenon DEF IInv, Spinning
  <2>4. g.pc \in {"crit", "drop"} => interrupt_enabled[cur] = g.was
    BY <1>1, <2>1, Zenon DEF IInv, Saved
  <2>5. ((locked = TRUE) <=> g.pc \in {"crit", "drop"}) /\ (locked = TRUE => intr = FALSE)
    BY <2>1, Zenon DEF IInv, Guard
  <2>6. inService # TRUE
    BY <1>2, Zenon DEF IInv, Service
  <2>7. cur = Idle =>
          /\ nextTaskId = 0 <=> g.op = "init" /\ g.pc \in {"lock", "cli", "crit"}
          /\ g.op \in {"init", "boot"} => intr = FALSE /\ spin[cur] = FALSE
          /\ g.op = "boot" => g.pc = "body"
          /\ g.op = "new" /\ g.pc \in {"lock", "cli", "crit"} => nextTaskId < MaxTasks
    BY Zenon DEF IInv, Starting
  <2> HIDE DEF g
  <2>8. Holds("thread", g)
    BY <2>2, <2>3, <2>4, <2>5, <2>6, <2>7, Zenon DEF Holds
  <2> QED BY <2>1, <2>8, Zenon DEF g
<1>3. CASE frame[cur]["trap"].pc # "none"
  <2>1. Level(cur) = "trap" /\ Top(cur) = frame[cur]["trap"]
    BY <1>3, Zenon DEF Level, Top
  <2> DEFINE g == frame[cur]["trap"]
  <2>2. TrapOK(g) /\ g.pc # "none" /\ g.target \in Alive
    BY <1>1, <1>3, Zenon DEF IInv, Shape, Levels
  <2>3. spin[cur] = FALSE /\ intr = FALSE
    <3>1. spin[cur] \in BOOLEAN /\ spin[cur] # TRUE
      BY <1>1, <1>3, Zenon DEF IInv, TypeOK, Spinning
    <3>2. intr = FALSE
      BY <1>3, Zenon DEF IInv, Masked
    <3> QED BY <3>1, <3>2, Zenon
  <2>4. g.pc \in {"crit", "drop"} => interrupt_enabled[cur] = g.was
    BY <1>1, <2>1, Zenon DEF IInv, Saved
  <2>5. (locked = TRUE) <=> g.pc \in {"crit", "drop"}
    BY <2>1, Zenon DEF IInv, Guard
  <2>6. inService = TRUE => g.op \in {"irq", "wake"}
    BY Zenon DEF IInv, Service
  <2> HIDE DEF g
  <2>7. Holds("trap", g)
    BY <2>2, <2>3, <2>4, <2>5, <2>6, Zenon DEF Holds
  <2> QED BY <2>1, <2>7, Zenon DEF g
<1> QED BY <1>2, <1>3, Zenon

(* It then keeps the invariant.                                            *)
LEMMA FitsKeeps ==
  ASSUME IInv, NEW f \in Frame, Put(Level(cur), f), Fits(Level(cur), f), TypeOK', Known'
  PROVE  IInv'
<1>1. Level(cur) \in Levels /\ Top(cur) \in Frame /\ cur \in Tasks
  BY TopFrame, Zenon DEF IInv
<1>2. \A t \in Tasks : Level(t)' = Level(t) /\ Top(t)' = IF t = cur THEN f ELSE Top(t)
  BY PutTop, Zenon DEF IInv, Fits
<1>3. cur' = cur /\ nextTaskId' = nextTaskId /\ nested' = nested /\ spin' = spin
  BY Zenon DEF Fits
<1>4. Shape'
  <2>1. CASE Level(cur) = "thread"
    BY <1>1, <1>3, <2>1, PutShape, Zenon DEF IInv, Fits, Level
  <2>2. CASE Level(cur) = "trap"
    <3>1. frame[cur]["thread"].pc \in Interruptible
      BY <1>1, <2>2, Zenon DEF IInv, Shape, Level
    <3> QED BY <1>1, <1>3, <2>2, <3>1, PutShape, Zenon DEF IInv, Fits
  <2> QED BY <1>1, <2>1, <2>2, Zenon DEF Levels
<1>a. /\ Level(cur) = "trap" => frame'[cur]["trap"] = f
      /\ Level(cur) = "thread" => frame'[cur]["thread"] = f /\ frame'[cur]["trap"].pc = "none"
      /\ \A t \in Tasks : t # cur => /\ frame'[t]["trap"] = frame[t]["trap"]
                                     /\ frame'[t]["thread"] = frame[t]["thread"]
      /\ Level(cur) = "trap" => frame'[cur]["thread"] = frame[cur]["thread"]
  BY <1>1, Zenon DEF Put, Level, Levels
<1>5. Saved'
  BY <1>1, <1>2, Zenon DEF IInv, Saved, Fits
<1>6. Starting'
  <2>1. cur' \in Alive'
    BY <1>3, Zenon DEF IInv, Starting, Alive, Created
  <2>2. CASE cur = Idle /\ Level(cur) = "thread"
    BY <1>3, <1>a, <2>1, <2>2, Zenon DEF Starting, Fits
  <2>3. CASE cur = Idle /\ Level(cur) = "trap"
    <3>1. frame[Idle]["trap"].pc # "none"
      BY <2>3, Zenon DEF Level
    <3>2. frame'[Idle]["thread"] = frame[Idle]["thread"]
      BY <1>a, <2>3, Zenon
    <3> QED BY <1>3, <2>1, <3>1, <3>2, Zenon DEF IInv, Starting
  <2>4. CASE cur # Idle
    <3>1. frame'[Idle]["thread"] = frame[Idle]["thread"]
      BY <1>a, <2>4, IdleTask, Zenon
    <3> QED BY <1>3, <2>1, <2>4, <3>1, Zenon DEF IInv, Starting
  <2> QED BY <1>1, <2>2, <2>3, <2>4, Zenon DEF Levels
<1>7. Masked' /\ Service'
  <2>1. Masked'
    BY <1>1, <1>3, <1>a, Zenon DEF IInv, Masked, Fits, Levels
  <2>2. Service'
    BY <1>3, <1>a, Zenon DEF Service, Fits
  <2> QED BY <2>1, <2>2, Zenon
<1>8. Spinning'
  <2>1. \A t \in Tasks : spin[t] = TRUE => t = cur /\ Level(t) = "thread"
    BY Zenon DEF IInv, Spinning, Level
  <2> QED BY <1>1, <1>3, <1>a, <2>1, ZenonT(60) DEF Spinning, Fits
<1>9. Guard'
  <2>1. Created' = Created /\ \A t \in Created : t \in Tasks
    BY <1>3, Zenon DEF Created
  <2>2. (Top(cur))' = f
    BY <1>1, <1>2, <1>3, Zenon DEF Top, Level
  <2>3. \A t \in Created \ {cur} : (Top(t).pc)' = "drop"
    BY <1>2, <2>1, ZenonT(60) DEF IInv, Guard
  <2> QED BY <1>3, <2>1, <2>2, <2>3, Zenon DEF Guard, Fits
<1> QED BY <1>4, <1>5, <1>6, <1>7, <1>8, <1>9, Zenon DEF IInv

(* Such steps keep Known.                                                  *)
LEMMA StaysKnown ==
  ASSUME IInv, Stays, waiting' \subseteq waiting, sleeping' = sleeping
  PROVE  Known'
BY Zenon DEF IInv, Known, Stays, Created

(* After sched::init the tasks with a stack are the created ones.          *)
LEMMA AliveCreated ==
  ASSUME IInv, Top(cur).op # "init"
  PROVE  nextTaskId \in Nat \ {0} /\ Alive = Created /\ cur \in Created
<1>1. nextTaskId # 0
  BY Zenon DEF IInv, Starting, Top, Level
<1>2. nextTaskId \in Nat
  BY SchedulerAssumption DEF IInv, TypeOK
<1>3. Idle \in Created
  BY <1>1, <1>2, IdleTask DEF Created, Idle
<1> QED BY <1>1, <1>2, <1>3, Zenon DEF Alive, IInv, Starting

-----------------------------------------------------------------------------
(* lock() has read the flag.                                               *)
LEMMA ReadFrame ==
  ASSUME NEW g \in Frame, NEW w \in BOOLEAN
  PROVE  LET f == ReadOf(g, w) IN
         /\ f \in Frame
         /\ f.pc = "cli" /\ f.op = g.op /\ f.was = w
         /\ f.target = g.target /\ f.saved = g.saved
BY Zenon DEF Frame, Places, ReadOf

(* A call of the scheduler.                                                *)
LEMMA CallFrame ==
  ASSUME NEW g \in Frame, NEW o \in Ops, NEW t \in Tasks
  PROVE  LET f == CallOf(g, o, t) IN
         /\ f \in Frame
         /\ f.pc = "lock" /\ f.op = o /\ f.was = g.was
         /\ f.target = t /\ f.saved = g.saved
BY Zenon DEF Frame, Places, CallOf

(* A handler that goes to isr_exit.                                        *)
LEMMA CheckFrame ==
  ASSUME NEW g \in Frame
  PROVE  LET f == CheckOf(g) IN
         /\ f \in Frame
         /\ f.pc = "lock" /\ f.op = "check" /\ f.was = g.was
         /\ f.target = g.target /\ f.saved = g.saved
BY Zenon DEF Frame, Places, Ops, CheckOf

(* A thread in its own code.                                               *)
LEMMA BodyFrame ==
  ASSUME NEW o \in Ops
  PROVE  /\ Body(o) \in Frame /\ Body(o).pc = "body" /\ Body(o).op = o
         /\ Body(o).was = FALSE /\ Body(o).target = Idle
BY IdleTask, Zenon DEF Body, Frame, NoFrame, Places

(* No frame.                                                               *)
LEMMA EmptyFrame ==
  /\ NoFrame \in Frame /\ NoFrame.pc = "none" /\ NoFrame.op = "none"
  /\ NoFrame.was = FALSE /\ NoFrame.target = Idle
BY IdleTask, Zenon DEF Frame, NoFrame, Places, Ops

-----------------------------------------------------------------------------

(* Appending to the copies of a task.                                      *)
LEMMA AppendFacts ==
  ASSUME NEW s \in Seq(Nat), NEW x \in Nat
  PROVE  /\ Append(s, x) \in Seq(Nat) /\ Append(s, x) # <<>>
         /\ s = <<>> => Append(s, x) = <<x>>
<1>1. Append(s, x) \in Seq(Nat) /\ Len(Append(s, x)) = Len(s) + 1 /\ Len(s) \in Nat
  OBVIOUS
<1>2. Len(<<>>) = 0
  OBVIOUS
<1>3. Append(s, x) # <<>>
  BY <1>1, <1>2
<1>4. s = <<>> => Append(s, x) = <<x>>
  OBVIOUS
<1> QED BY <1>1, <1>3, <1>4, Zenon

(* TaskList pushes a copy of one task.                                     *)
LEMMA PushFacts ==
  ASSUME NEW q \in [Tasks -> Seq(Nat)], NEW i \in [Tasks -> TaskInfo], NEW t \in Tasks
  PROVE  /\ Push(q, i, t) \in [Tasks -> Seq(Nat)]
         /\ Push(q, i, t)[t] = Append(q[t], i[t].total_runtime)
         /\ Push(q, i, t)[t] # <<>>
         /\ \A u \in Tasks \ {t} : Push(q, i, t)[u] = q[u]
<1>1. i[t].total_runtime \in Nat
  BY Zenon DEF TaskInfo
<1>2. Append(q[t], i[t].total_runtime) \in Seq(Nat) /\ Append(q[t], i[t].total_runtime) # <<>>
  BY <1>1, AppendFacts, Zenon
<1> QED BY <1>2, Zenon DEF Push

(* set_runnable(true) leaves one copy of the task in the heap.             *)
LEMMA QueueOn ==
  ASSUME NEW q \in [Tasks -> Seq(Nat)], NEW i \in [Tasks -> TaskInfo], NEW t \in Tasks
  PROVE  LET p == SetRunnableQueue(q, i, t, TRUE) IN
         /\ p \in [Tasks -> Seq(Nat)]
         /\ p[t] = <<i[t].total_runtime>>
         /\ \A u \in Tasks \ {t} : p[u] = q[u]
<1> DEFINE kept == [q EXCEPT ![t] = <<>>]
<1>1. kept \in [Tasks -> Seq(Nat)] /\ kept[t] = <<>> /\ \A u \in Tasks \ {t} : kept[u] = q[u]
  OBVIOUS
<1>2. SetRunnableQueue(q, i, t, TRUE) = Push(kept, i, t)
  BY Zenon DEF SetRunnableQueue
<1>3. i[t].total_runtime \in Nat
  BY DEF TaskInfo
<1> HIDE DEF kept
<1>4. Append(kept[t], i[t].total_runtime) = <<i[t].total_runtime>>
  BY <1>1, <1>3
<1> DEFINE p == Push(kept, i, t)
<1>5. /\ p \in [Tasks -> Seq(Nat)]
      /\ p[t] = Append(kept[t], i[t].total_runtime)
      /\ \A u \in Tasks \ {t} : p[u] = kept[u]
  BY <1>1, PushFacts, ZenonT(60)
<1> HIDE DEF p
<1>6. SetRunnableQueue(q, i, t, TRUE) = p
  BY <1>2, Zenon DEF p
<1> QED BY <1>1, <1>4, <1>5, <1>6, Zenon

(* The arithmetic of update_runtime and set_run_until.                     *)
LEMMA Products ==
  ASSUME NEW a \in Nat, NEW b \in Nat, a <= b, NEW n \in Nat \ {0}, NEW c \in Nat
  PROVE  (b - a) * n \in Nat /\ c \div n \in Nat
<1>1. b - a \in Nat
  OBVIOUS
<1>2. \A x \in Nat : x * n \in Nat
  OBVIOUS
<1>3. c \div n \in Nat
  OBVIOUS
<1> QED BY <1>1, <1>2, <1>3, Zenon

(* What switch() does to a task table and a heap that hold the tasks of C  *)
(* only: the task it picks is one of them.                                 *)
LEMMA SwitchFacts ==
  ASSUME TypeOK, NEW i \in [Tasks -> TaskInfo], NEW q \in [Tasks -> Seq(Nat)],
         NEW n \in Nat \ {0}, NEW C \in SUBSET Tasks, cur \in C, Idle \in C,
         \A t \in Tasks : i[t].last_scheduled <= time,
         \A t \in Tasks : q[t] # <<>> => t \in C,
         Switch(i, q, n)
  PROVE  /\ schedulable' \in [Tasks -> Seq(Nat)]
         /\ info' \in [Tasks -> TaskInfo]
         /\ cur' \in C
         /\ frame' = SetPc("drop")
         /\ \A t \in Tasks : info'[t].last_scheduled <= time
         /\ \A t \in Tasks : schedulable'[t] # <<>> => t \in C
<1> DEFINE i1 == UpdateRuntime(i, cur, n)
           q1 == Requeue(q, i1, cur)
           low == Lowest(q1)
<1>1. cur \in Tasks /\ time \in Nat
  BY Zenon DEF TypeOK
<1>2. /\ i[cur].last_scheduled \in Nat /\ i[cur].total_runtime \in Nat
      /\ i[cur].last_scheduled <= time
  BY <1>1, Zenon DEF TaskInfo
<1>3. (time - i[cur].last_scheduled) * n \in Nat /\ SchedLatency \div n \in Nat
  BY <1>1, <1>2, Products, SchedulerAssumption, Zenon
<1>4. i[cur].total_runtime + (time - i[cur].last_scheduled) * n \in Nat
  BY <1>2, <1>3, SMTT(60)
<1>5. /\ i1 \in [Tasks -> TaskInfo]
      /\ \A t \in Tasks : i1[t].last_scheduled = i[t].last_scheduled
  BY <1>1, <1>4, Zenon DEF UpdateRuntime, TaskInfo
<1> HIDE DEF i1
<1>6. q1 \in [Tasks -> Seq(Nat)] /\ \A t \in Tasks : q1[t] # <<>> => t \in C
  <2>1. /\ Push(q, i1, cur) \in [Tasks -> Seq(Nat)]
        /\ \A u \in Tasks \ {cur} : Push(q, i1, cur)[u] = q[u]
    BY <1>1, <1>5, PushFacts, ZenonT(60)
  <2> QED BY <2>1, Zenon DEF Requeue
<1> HIDE DEF q1
<1>7. PICK to \in IF low = {} THEN {Idle} ELSE low :
        /\ schedulable' = IF low = {} THEN q1 ELSE [q1 EXCEPT ![to] = Tail(@)]
        /\ info' = SetRunUntil(SetCurrentTask(i1, to), to, n)
        /\ cur' = to
        /\ frame' = SetPc("drop")
  BY Zenon DEF Switch, i1, q1
<1>8. to \in C /\ to \in Tasks /\ (low # {} => q1[to] # <<>>)
  BY <1>6, <1>7, Zenon DEF Lowest
<1>9. schedulable' \in [Tasks -> Seq(Nat)] /\ \A t \in Tasks : schedulable'[t] # <<>> => t \in C
  <2>1. CASE low = {}
    BY <1>6, <1>7, <2>1, Zenon
  <2>2. CASE low # {}
    <3>1. q1[to] \in Seq(Nat) /\ q1[to] # <<>>
      BY <1>6, <1>8, <2>2, Zenon
    <3>2. Tail(q1[to]) \in Seq(Nat)
      BY <3>1
    <3>3. schedulable' = [q1 EXCEPT ![to] = Tail(q1[to])]
      BY <1>7, <2>2, Zenon
    <3> QED BY <1>6, <1>8, <3>2, <3>3, Zenon
  <2> QED BY <2>1, <2>2, Zenon
<1>10. info' \in [Tasks -> TaskInfo] /\ \A t \in Tasks : info'[t].last_scheduled <= time
  <2> DEFINE i2 == SetCurrentTask(i1, to)
  <2>1. i2 \in [Tasks -> TaskInfo] /\ \A t \in Tasks : i2[t].last_scheduled <= time
    <3>1. i2 \in [Tasks -> TaskInfo]
      BY <1>1, <1>5, <1>8, ZenonT(60) DEF SetCurrentTask, TaskInfo
    <3>2. /\ i2[to].last_scheduled = time
          /\ \A t \in Tasks \ {to} : i2[t].last_scheduled = i[t].last_scheduled
      BY <1>5, <1>8, ZenonT(60) DEF SetCurrentTask, TaskInfo
    <3>3. time <= time
      BY <1>1
    <3> QED BY <3>1, <3>2, <3>3, Zenon
  <2> HIDE DEF i2
  <2>2. info' = SetRunUntil(i2, to, n)
    BY <1>7, Zenon DEF i2
  <2>3. time + SchedLatency \div n \in Nat
    BY <1>1, <1>3
  <2> QED BY <1>8, <2>1, <2>2, <2>3, ZenonT(60) DEF SetRunUntil, TaskInfo
<1> QED BY <1>7, <1>8, <1>9, <1>10, Zenon

(* A switch hands the guard to a task that is parked at its drop.          *)
LEMMA SwitchKeeps ==
  ASSUME IInv, At("crit"), Top(cur).op \in {"yield", "sleep", "wait", "check"}, spin[cur] = FALSE,
         NEW i \in [Tasks -> TaskInfo], NEW q \in [Tasks -> Seq(Nat)],
         \A t \in Tasks : i[t].last_scheduled <= time,
         \A t \in Tasks : q[t] # <<>> => t \in Created,
         Switch(i, q, nextTaskId), waiting' \subseteq Created, sleeping' \subseteq Created,
         UNCHANGED <<time, nextTaskId, interrupt_enabled, locked, intr, inService, nested, spin>>
  PROVE  IInv'
<1>1. Level(cur) \in Levels /\ Top(cur) \in Frame /\ cur \in Tasks /\ Top(cur).pc = "crit"
  BY TopFrame, Zenon DEF IInv, At
<1>2. nextTaskId \in Nat \ {0} /\ Alive = Created /\ cur \in Created /\ Idle \in Created
  BY AliveCreated, Zenon DEF Alive
<1>3. /\ schedulable' \in [Tasks -> Seq(Nat)]
      /\ info' \in [Tasks -> TaskInfo]
      /\ cur' \in Created
      /\ frame' = SetPc("drop")
      /\ \A t \in Tasks : info'[t].last_scheduled <= time
      /\ \A t \in Tasks : schedulable'[t] # <<>> => t \in Created
  <2>1. Created \in SUBSET Tasks
    BY Zenon DEF Created
  <2> QED BY <1>2, <2>1, SwitchFacts, Zenon DEF IInv
<1>4. PICK f \in Frame :
        /\ f.pc = "drop" /\ f.op = Top(cur).op /\ f.was = Top(cur).was
        /\ f.target = Top(cur).target /\ f.saved = Top(cur).saved
        /\ Put(Level(cur), f)
  BY <1>3, PutPc, Zenon DEF IInv, Places
<1>5. intr = FALSE /\ locked = TRUE /\ inService = FALSE
  BY <1>1, Zenon DEF IInv, TypeOK, Guard, Service, Top, Level
<1>6. frame[Idle]["thread"].op \notin {"init", "boot"}
  BY Zenon DEF IInv, Starting, Top, Level
<1>7. \A t \in Tasks : Level(t)' = Level(t) /\ Top(t)' = IF t = cur THEN f ELSE Top(t)
  BY <1>4, PutTop, Zenon DEF IInv
<1>8. TypeOK'
  BY <1>3, <1>4, ZenonT(60) DEF IInv, TypeOK, Put, Tasks, Created
<1>9. Known'
  BY <1>3, Zenon DEF IInv, Known, Created
<1>10. Shape'
  <2>1. f.target \in Alive
    BY <1>1, <1>4, Zenon DEF IInv, Shape, Top
  <2>2. CASE Level(cur) = "thread"
    BY <1>1, <1>4, <2>1, <2>2, PutShape, ZenonT(60) DEF IInv, Shape, ThreadOK, Top, Level
  <2>3. CASE Level(cur) = "trap"
    BY <1>1, <1>4, <2>1, <2>3, PutShape, ZenonT(60) DEF IInv, Shape, TrapOK, Top, Level
  <2> QED BY <1>1, <2>2, <2>3, ZenonT(60) DEF Levels
<1>11. Saved'
  BY <1>1, <1>4, <1>7, ZenonT(60) DEF IInv, Saved
<1>12. Starting'
  <2>1. cur' \in Alive'
    BY <1>3, Zenon DEF Alive, Created
  <2>2. /\ nextTaskId' # 0
        /\ frame[Idle]["thread"].op = "new" /\ frame[Idle]["thread"].pc \in {"lock", "cli", "crit"} =>
             nextTaskId' < MaxTasks
    BY <1>2, Zenon DEF IInv, Starting
  <2>3. CASE cur = Idle /\ Level(cur) = "thread"
    <3>1. /\ frame'[Idle]["thread"].op = frame[Idle]["thread"].op
          /\ frame'[Idle]["thread"].pc = "drop"
      BY <1>4, <2>3, Zenon DEF Put, Top
    <3> QED BY <1>6, <2>1, <2>2, <3>1, Zenon DEF Starting
  <2>4. CASE ~(cur = Idle /\ Level(cur) = "thread")
    <3>1. frame'[Idle]["thread"] = frame[Idle]["thread"]
      BY <1>4, <2>4, IdleTask, Zenon DEF Put, Levels
    <3> QED BY <1>6, <2>1, <2>2, <3>1, Zenon DEF Starting
  <2> QED BY <2>3, <2>4, Zenon
<1>13. Masked' /\ Service'
  BY <1>5, Zenon DEF IInv, Masked, Service
<1>14. Spinning'
  BY <1>1, Zenon DEF IInv, Spinning
<1>15. Guard'
  <2>1. cur' \in Tasks
    BY <1>3, Zenon DEF Created
  <2>2. \A t \in Created : Top(t)'.pc = "drop"
    BY <1>4, <1>7, ZenonT(60) DEF IInv, Guard, Created
  <2>3. (Top(cur).pc)' = "drop"
    BY <1>3, <2>2, Zenon DEF Top, Level
  <2> QED BY <1>5, <2>2, <2>3, Zenon DEF Guard, Created, Top, Level
<1> QED BY <1>8, <1>9, <1>10, <1>11, <1>12, <1>13, <1>14, <1>15, Zenon DEF IInv

(* Code of a thread runs in no trap.                                       *)
LEMMA RunningThread ==
  ASSUME IInv, At("body")
  PROVE  Level(cur) = "thread" /\ Top(cur) = frame[cur]["thread"]
BY TopFrame, Zenon DEF IInv, At, Shape, TrapOK, Top, Level

(* A handler runs in a trap.                                               *)
LEMMA HandlerTrap ==
  ASSUME IInv, At("handler")
  PROVE  Level(cur) = "trap" /\ Top(cur) = frame[cur]["trap"]
BY TopFrame, Zenon DEF IInv, At, Shape, ThreadOK, Top, Level

(* new_task writes the frames of the caller, which is the boot task in no  *)
(* trap, and of the new task, which starts parked at the drop of the       *)
(* guard.                                                                  *)
LEMMA NewTaskFrames ==
  ASSUME IInv, NewTask
  PROVE  /\ cur = Idle /\ Level(cur) = "thread" /\ Top(cur) = frame[cur]["thread"]
         /\ nextTaskId \in Nat \ {0} /\ nextTaskId < MaxTasks /\ nextTaskId \in Tasks
         /\ nextTaskId # cur /\ nextTaskId \notin Alive
         /\ Created' = Created \cup {nextTaskId} /\ Alive' = Alive \cup {nextTaskId}
         /\ Alive = Created
         /\ \E f, g \in Frame :
              /\ f.pc = "drop" /\ f.op = "new" /\ f.was = Top(cur).was
              /\ f.target = Top(cur).target
              /\ g.pc = "drop" /\ g.op = "entry" /\ g.was = TRUE /\ g.target = Idle
              /\ frame' \in [Tasks -> [Levels -> Frame]]
              /\ frame'[nextTaskId]["thread"] = g /\ frame'[nextTaskId]["trap"] = NoFrame
              /\ frame'[cur]["thread"] = f /\ frame'[cur]["trap"] = frame[cur]["trap"]
              /\ \A t \in Tasks \ {cur, nextTaskId} : frame'[t] = frame[t]
<1> DEFINE n == nextTaskId
           g == [Body("entry") EXCEPT !.pc = "drop", !.was = TRUE]
           F == SetPc("drop")
<1>1. /\ Top(cur).pc = "crit" /\ Top(cur).op = "new"
      /\ n' = n + 1
      /\ frame' = [F EXCEPT ![n] = [l \in Levels |-> IF l = "trap" THEN NoFrame ELSE g]]
  BY Zenon DEF NewTask, InCrit, At
<1>2. cur \in Tasks /\ Top(cur) \in Frame
  BY TopFrame, Zenon DEF IInv
<1>3. Level(cur) = "thread" /\ Top(cur) = frame[cur]["thread"] /\ cur = Idle
  BY <1>1, <1>2, Zenon DEF IInv, Shape, TrapOK, Top, Level
<1>4. n \in Nat \ {0} /\ n < MaxTasks /\ n \in Tasks /\ n # cur /\ n \notin Alive
  <2>1. n \in Nat \ {0} /\ Alive = Created
    BY <1>1, AliveCreated, Zenon
  <2>2. n < MaxTasks
    BY <1>1, <1>3, Zenon DEF IInv, Starting
  <2> QED BY <1>3, <2>1, <2>2, SchedulerAssumption DEF Tasks, Created, Idle
<1>5. Created' = Created \cup {n} /\ Alive' = Alive \cup {n} /\ Alive = Created
  <2>1. Created' = Created \cup {n}
    BY <1>1, <1>4 DEF Created, Tasks
  <2> QED BY <1>1, <2>1, AliveCreated, Zenon DEF Alive
<1>6. g \in Frame /\ g.pc = "drop" /\ g.op = "entry" /\ g.was = TRUE /\ g.target = Idle
  BY IdleTask, Zenon DEF Body, NoFrame, Frame, Places, Ops
<1>7. PICK f \in Frame :
        /\ f.pc = "drop" /\ f.op = "new" /\ f.was = Top(cur).was /\ f.target = Top(cur).target
        /\ F \in [Tasks -> [Levels -> Frame]]
        /\ F[cur]["thread"] = f /\ F[cur]["trap"] = frame[cur]["trap"]
        /\ \A t \in Tasks \ {cur} : F[t] = frame[t]
  <2> DEFINE f == [Top(cur) EXCEPT !.pc = "drop"]
  <2>1. /\ f \in Frame /\ f.pc = "drop" /\ f.op = "new" /\ f.was = Top(cur).was
        /\ f.target = Top(cur).target
    BY <1>1, <1>2, Zenon DEF Frame, Places
  <2>2. F = [frame EXCEPT ![cur]["thread"] = f]
    BY <1>2, <1>3, Zenon DEF SetPc
  <2> HIDE DEF f, F
  <2>3. /\ F \in [Tasks -> [Levels -> Frame]]
        /\ F[cur]["thread"] = f /\ F[cur]["trap"] = frame[cur]["trap"]
        /\ \A t \in Tasks \ {cur} : F[t] = frame[t]
    BY <1>2, <2>1, <2>2, Zenon DEF IInv, TypeOK, Levels
  <2> QED BY <2>1, <2>3, Zenon
<1> HIDE DEF g, F
<1>8. /\ frame' \in [Tasks -> [Levels -> Frame]]
      /\ frame'[n]["thread"] = g /\ frame'[n]["trap"] = NoFrame
      /\ frame'[cur]["thread"] = f /\ frame'[cur]["trap"] = frame[cur]["trap"]
      /\ \A t \in Tasks \ {cur, n} : frame'[t] = frame[t]
  BY <1>1, <1>2, <1>4, <1>6, <1>7, EmptyFrame, Zenon DEF Levels
<1> QED BY <1>3, <1>4, <1>5, <1>6, <1>7, <1>8, Zenon

-----------------------------------------------------------------------------
(* Reading the flag in lock(): in a trap it is off.                        *)
LEMMA LockReadKeeps == IInv /\ LockRead => IInv'
<1> SUFFICES ASSUME IInv, LockRead PROVE IInv'
  OBVIOUS
<1>1. Level(cur) \in Levels /\ Top(cur) \in Frame /\ cur \in Tasks
  BY TopFrame, Zenon DEF IInv
<1>h. Holds(Level(cur), Top(cur))
  BY Current, Zenon
<1>2. /\ Stays /\ UNCHANGED <<interrupt_enabled, locked, intr, inService, waiting, sleeping>>
      /\ Top(cur).pc = "lock"
  BY Zenon DEF LockRead, Stays, taskVars, cpuVars, waitVars, At
<1> DEFINE f == ReadOf(Top(cur), intr)
<1>3. /\ f \in Frame
      /\ f.pc = "cli" /\ f.op = Top(cur).op /\ f.was = intr
      /\ f.target = Top(cur).target /\ f.saved = Top(cur).saved
  <2>1. intr \in BOOLEAN
    BY Zenon DEF IInv, TypeOK
  <2> QED BY <1>1, <2>1, ReadFrame, Zenon
<1>4. frame' = [frame EXCEPT ![cur][Level(cur)] = f]
  BY <1>1, Zenon DEF LockRead, Top, ReadOf
<1> HIDE DEF f
<1>5. Put(Level(cur), f)
  BY <1>1, <1>3, <1>4, PutFrame, Zenon DEF IInv
<1>6. TypeOK'
  BY <1>2, <1>5, ZenonT(60) DEF IInv, TypeOK, Put, Stays, Tasks
<1>7. Fits(Level(cur), f)
  BY <1>2, <1>3, <1>h, ZenonT(60) DEF Holds, Fits, Stays, ThreadOK, TrapOK
<1> QED BY <1>2, <1>3, <1>5, <1>6, <1>7, StaysKnown, FitsKeeps, Zenon

(* Taking the lock: the slot now holds what this call has read.            *)
LEMMA LockAcquireKeeps == IInv /\ LockAcquire => IInv'
<1> SUFFICES ASSUME IInv, LockAcquire PROVE IInv'
  OBVIOUS
<1>1. Level(cur) \in Levels /\ Top(cur) \in Frame /\ cur \in Tasks
  BY TopFrame DEF IInv
<1>h. Holds(Level(cur), Top(cur))
  BY Current, Zenon
<1>2. /\ Stays /\ UNCHANGED <<inService, waiting, sleeping>>
      /\ Top(cur).pc = "cli" /\ locked' = TRUE /\ intr' = FALSE
      /\ interrupt_enabled' = [interrupt_enabled EXCEPT ![cur] = Top(cur).was]
  BY Zenon DEF LockAcquire, Stays, taskVars, cpuVars, waitVars, At
<1>3. PICK f \in Frame :
        /\ f.pc = "crit" /\ f.op = Top(cur).op /\ f.was = Top(cur).was
        /\ f.target = Top(cur).target /\ f.saved = Top(cur).saved
        /\ Put(Level(cur), f)
  BY PutPc, Zenon DEF LockAcquire, IInv, Places
<1>4. TypeOK'
  BY <1>1, <1>2, <1>3, Zenon DEF IInv, TypeOK, Put, Stays, Tasks, Frame
<1>5. Fits(Level(cur), f)
  <2>1. interrupt_enabled \in [Tasks -> BOOLEAN]
    BY ZenonT(60) DEF IInv, TypeOK
  <2> QED BY <1>1, <1>2, <1>3, <2>1, <1>h, Zenon DEF Holds, Fits, Stays, ThreadOK, TrapOK
<1> QED BY <1>2, <1>3, <1>4, <1>5, StaysKnown, FitsKeeps, Zenon

(* Leaving the critical section without a switch (WaitPass, KeepRunning).  *)
LEMMA LeaveKeeps ==
  ASSUME IInv, At("crit"), Top(cur).op \in {"wait", "check"}, frame' = SetPc("drop"),
         UNCHANGED <<time, taskVars, interrupt_enabled, locked, cpuVars, spin, waitVars>>
  PROVE  IInv'
<1>1. Level(cur) \in Levels /\ Top(cur) \in Frame /\ cur \in Tasks
  BY TopFrame, Zenon DEF IInv
<1>h. Holds(Level(cur), Top(cur))
  BY Current, Zenon
<1>2. /\ Stays /\ UNCHANGED <<interrupt_enabled, locked, intr, inService, waiting, sleeping>>
      /\ Top(cur).pc = "crit"
  BY Zenon DEF Stays, taskVars, cpuVars, waitVars, At
<1>3. PICK f \in Frame :
        /\ f.pc = "drop" /\ f.op = Top(cur).op /\ f.was = Top(cur).was
        /\ f.target = Top(cur).target /\ f.saved = Top(cur).saved
        /\ Put(Level(cur), f)
  BY PutPc, Zenon DEF IInv, Places
<1>4. TypeOK'
  BY <1>1, <1>2, <1>3, ZenonT(60) DEF IInv, TypeOK, Put, Stays, Tasks
<1>5. Fits(Level(cur), f)
  BY <1>2, <1>3, <1>h, Zenon DEF Holds, Fits, Stays, ThreadOK, TrapOK
<1> QED BY <1>2, <1>3, <1>4, <1>5, StaysKnown, FitsKeeps, Zenon

(* Dropping the guard turns interrupts on only if the same lock() turned   *)
(* them off, so never in a trap and never under a WithSpinLock.            *)
LEMMA DropKeeps == IInv /\ Drop => IInv'
<1> SUFFICES ASSUME IInv, Drop PROVE IInv'
  OBVIOUS
<1>1. Level(cur) \in Levels /\ Top(cur) \in Frame /\ cur \in Tasks
  BY TopFrame DEF IInv
<1>h. Holds(Level(cur), Top(cur))
  BY Current, Zenon
<1>2. /\ Stays /\ UNCHANGED <<interrupt_enabled, waiting, sleeping>>
      /\ Top(cur).pc = "drop" /\ locked' = FALSE
  BY Zenon DEF Drop, Stays, taskVars, waitVars, At
<1>3. intr = FALSE /\ interrupt_enabled[cur] = Top(cur).was
  BY <1>2, <1>h, Zenon DEF Holds
<1>4. intr' = Top(cur).was
  <2>1. intr' = (intr \/ interrupt_enabled[cur])
    BY Zenon DEF Drop
  <2>2. Top(cur).was \in BOOLEAN
    BY <1>1, Zenon DEF Frame
  <2> QED BY <2>1, <2>2, <1>3, Zenon
<1>5. inService' = FALSE
  <2>1. inService = TRUE => Level(cur) = "trap" /\ Top(cur).op = "wake"
    BY <1>2, <1>h, Zenon DEF Holds, TrapOK
  <2>2. inService \in BOOLEAN
    BY Zenon DEF IInv, TypeOK
  <2> QED BY <2>1, <2>2, Zenon DEF Drop
<1> DEFINE f == AfterDrop(Level(cur), Top(cur))
<1>6. Put(Level(cur), f) /\ f \in Frame
  <2>1. f \in Frame
    <3>1. CASE Level(cur) = "thread"
      BY <1>1, <3>1, BodyFrame, Zenon DEF AfterDrop, Ops
    <3>2. CASE Level(cur) = "trap" /\ Top(cur).op = "check"
      BY <1>1, <3>2, Zenon DEF AfterDrop, Frame, Places
    <3>3. CASE Level(cur) = "trap" /\ Top(cur).op # "check"
      BY <1>1, <3>3, Zenon DEF AfterDrop, Frame, Places, Ops
    <3> QED BY <1>1, <3>1, <3>2, <3>3, Zenon DEF Levels
  <2> QED BY <1>1, <2>1, PutFrame, Zenon DEF IInv, Drop
<1>7. TypeOK'
  <2>1. intr' \in BOOLEAN
    BY <1>1, <1>4, Zenon DEF Frame
  <2> QED BY <1>2, <1>5, <1>6, <2>1, ZenonT(60) DEF IInv, TypeOK, Put, Stays, Tasks
<1>8. Fits(Level(cur), f)
  <2>1. CASE Level(cur) = "thread"
    <3>1. PICK o \in {"boot", "none"} : f = Body(o) /\ (o = "boot" <=> Top(cur).op = "init")
      BY <2>1, Zenon DEF AfterDrop
    <3>2. f.pc = "body" /\ f.op = o /\ f.was = FALSE /\ f.target = Idle
      BY <3>1, BodyFrame, ZenonT(60) DEF Ops
    <3> HIDE DEF f
    <3> QED BY <1>2, <1>3, <1>4, <1>5, <2>1, <3>1, <3>2, <1>h, Zenon
            DEF Holds, Fits, Stays, ThreadOK, Alive
  <2>2. CASE Level(cur) = "trap"
    <3>1. /\ f.pc = (IF Top(cur).op = "check" THEN "iret" ELSE "lock") /\ f.op = "check"
          /\ f.was = Top(cur).was /\ f.target = Top(cur).target
      BY <1>1, <2>2, Zenon DEF AfterDrop, Frame
    <3> HIDE DEF f
    <3> QED BY <1>2, <1>3, <1>4, <1>5, <2>2, <3>1, <1>h, Zenon
            DEF Holds, Fits, Stays, TrapOK
  <2> QED BY <1>1, <2>1, <2>2, Zenon DEF Levels
<1> HIDE DEF f
<1> QED BY <1>2, <1>6, <1>7, <1>8, StaysKnown, FitsKeeps, Zenon

(* A thread calls new_task, wait or wake (CallNewTask, CallWait,           *)
(* CallWake).                                                              *)
LEMMA CallKeeps ==
  ASSUME IInv, Running, NEW o \in {"new", "wait", "wake"}, NEW t \in Alive,
         o = "new" => cur = Idle /\ nextTaskId < MaxTasks,
         frame' = Call(o, t), waiting' \subseteq waiting,
         UNCHANGED <<time, taskVars, interrupt_enabled, locked, cpuVars, spin, sleeping>>
  PROVE  IInv'
<1>1. Top(cur) \in Frame /\ cur \in Tasks
  BY TopFrame, Zenon DEF IInv
<1>h. Holds(Level(cur), Top(cur))
  BY Current, Zenon
<1>2. /\ Stays /\ UNCHANGED <<interrupt_enabled, locked, intr, inService, sleeping>>
      /\ Top(cur).pc = "body" /\ Top(cur).op = "none"
  BY Zenon DEF Running, Stays, taskVars, cpuVars, At
<1>3. Level(cur) = "thread" /\ Top(cur) = frame[cur]["thread"]
  BY RunningThread, Zenon DEF Running
<1> DEFINE f == CallOf(Top(cur), o, t)
<1>4. /\ f \in Frame
      /\ f.pc = "lock" /\ f.op = o /\ f.was = Top(cur).was /\ f.target = t
  <2>1. o \in Ops /\ t \in Tasks
    BY IdleTask, Zenon DEF Ops, Alive, Created
  <2> QED BY <1>1, <2>1, CallFrame
<1>5. frame' = [frame EXCEPT ![cur][Level(cur)] = f]
  BY <1>3, Zenon DEF Call, CallOf
<1> HIDE DEF f
<1>6. Put(Level(cur), f)
  BY <1>3, <1>4, <1>5, PutFrame, Zenon DEF IInv, Levels
<1>7. TypeOK'
  BY <1>2, <1>6, ZenonT(60) DEF IInv, TypeOK, Put, Stays, Tasks
<1>8. Fits(Level(cur), f)
  BY <1>2, <1>3, <1>4, <1>h, Zenon DEF Holds, Fits, Stays, ThreadOK
<1> QED BY <1>2, <1>4, <1>6, <1>7, <1>8, StaysKnown, FitsKeeps, Zenon

(* The end of the boot: no spin lock is held when interrupts come on.      *)
LEMMA EnableInterruptsKeeps == IInv /\ EnableInterrupts => IInv'
<1> SUFFICES ASSUME IInv, EnableInterrupts PROVE IInv'
  OBVIOUS
<1>1. Top(cur) \in Frame /\ cur \in Tasks
  BY TopFrame, Zenon DEF IInv
<1>h. Holds(Level(cur), Top(cur))
  BY Current, Zenon
<1>2. /\ Stays /\ UNCHANGED <<interrupt_enabled, locked, inService, waiting, sleeping>>
      /\ intr' = TRUE /\ Top(cur).pc = "body" /\ Top(cur).op = "boot"
  BY Zenon DEF EnableInterrupts, Stays, taskVars, waitVars, At
<1>3. Level(cur) = "thread" /\ Top(cur) = frame[cur]["thread"]
  BY RunningThread, Zenon DEF EnableInterrupts
<1> DEFINE f == Body("none")
<1>4. f \in Frame /\ f.pc = "body" /\ f.op = "none" /\ f.was = FALSE /\ f.target = Idle
  BY BodyFrame, ZenonT(60) DEF Ops
<1> HIDE DEF f
<1>5. Put(Level(cur), f)
  BY <1>3, <1>4, PutFrame, Zenon DEF IInv, Levels, EnableInterrupts, f
<1>6. TypeOK'
  BY <1>2, <1>5, ZenonT(60) DEF IInv, TypeOK, Put, Stays, Tasks
<1>7. spin[cur] = FALSE
  BY <1>2, <1>3, <1>h, ZenonT(60) DEF Holds
<1>8. Fits(Level(cur), f)
  BY <1>2, <1>3, <1>4, <1>7, <1>h, Zenon DEF Holds, Fits, Stays, ThreadOK, Alive
<1> QED BY <1>2, <1>4, <1>5, <1>6, <1>8, StaysKnown, FitsKeeps, Zenon

(* A device handler pops a waiter.                                         *)
LEMMA DeviceHandlerKeeps == IInv /\ DeviceHandler => IInv'
<1> SUFFICES ASSUME IInv, DeviceHandler PROVE IInv'
  OBVIOUS
<1>1. Top(cur) \in Frame /\ cur \in Tasks
  BY TopFrame DEF IInv
<1>h. Holds(Level(cur), Top(cur))
  BY Current, Zenon
<1>2. /\ Stays /\ UNCHANGED <<interrupt_enabled, locked, intr, inService, sleeping>>
      /\ Top(cur).pc = "handler"
  BY Zenon DEF DeviceHandler, Stays, taskVars, cpuVars, At
<1>3. Level(cur) = "trap" /\ Top(cur) = frame[cur]["trap"]
  BY HandlerTrap, Zenon DEF DeviceHandler
<1>4. PICK t \in waiting : /\ waiting' = waiting \ {t}
                          /\ frame' = [frame EXCEPT ![cur]["trap"] = CallOf(@, "wake", t)]
  BY Zenon DEF DeviceHandler, CallOf
<1> DEFINE f == CallOf(Top(cur), "wake", t)
<1>5. t \in Alive /\ t \in Tasks
  BY <1>4, Zenon DEF IInv, Known, Alive, Created
<1>6. /\ f \in Frame
      /\ f.pc = "lock" /\ f.op = "wake" /\ f.was = Top(cur).was /\ f.target = t
  BY <1>1, <1>5, CallFrame DEF Ops
<1>7. frame' = [frame EXCEPT ![cur][Level(cur)] = f]
  BY <1>3, <1>4, Zenon
<1> HIDE DEF f
<1>8. Put(Level(cur), f)
  BY <1>3, <1>6, <1>7, PutFrame, Zenon DEF IInv, Levels
<1>9. TypeOK'
  BY <1>2, <1>4, <1>8, ZenonT(60) DEF IInv, TypeOK, Put, Stays, Tasks
<1>10. Fits(Level(cur), f)
  BY <1>2, <1>3, <1>5, <1>6, <1>h, ZenonT(60) DEF Holds, Fits, Stays, TrapOK
<1> QED BY <1>2, <1>4, <1>6, <1>8, <1>9, <1>10, StaysKnown, FitsKeeps, ZenonT(60)

(* The timer handler makes the sleepers that are due runnable.             *)
LEMMA TimerHandlerKeeps == IInv /\ TimerHandler => IInv'
<1> SUFFICES ASSUME IInv, TimerHandler PROVE IInv'
  OBVIOUS
<1>1. Top(cur) \in Frame /\ cur \in Tasks
  BY TopFrame DEF IInv
<1>h. Holds(Level(cur), Top(cur))
  BY Current, Zenon
<1>2. /\ UNCHANGED <<time, nextTaskId, cur, nested, spin, interrupt_enabled, locked, intr, waiting>>
      /\ inService' = FALSE /\ Top(cur).pc = "handler"
  BY Zenon DEF TimerHandler, At
<1>3. Level(cur) = "trap" /\ Top(cur) = frame[cur]["trap"]
  BY HandlerTrap, Zenon DEF TimerHandler
<1>4. PICK due \in SUBSET sleeping :
       /\ sleeping' = sleeping \ due
       /\ info' = [t \in Tasks |-> [info[t] EXCEPT !.runnable = @ \/ t \in due]]
       /\ schedulable' = [t \in Tasks |-> IF t \in due THEN <<info[t].total_runtime>>
                                                       ELSE schedulable[t]]
  BY Zenon DEF TimerHandler
<1> DEFINE f == CheckOf(Top(cur))
<1>5. /\ f \in Frame
      /\ f.pc = "lock" /\ f.op = "check" /\ f.was = Top(cur).was /\ f.target = Top(cur).target
  BY <1>1, CheckFrame, Zenon
<1>6. frame' = [frame EXCEPT ![cur][Level(cur)] = f]
  BY <1>3, Zenon DEF TimerHandler, CheckOf
<1> HIDE DEF f
<1>7. Put(Level(cur), f)
  BY <1>3, <1>5, <1>6, PutFrame, Zenon DEF IInv, Levels
<1>8. /\ info' \in [Tasks -> TaskInfo]
      /\ \A t \in Tasks : info'[t].last_scheduled = info[t].last_scheduled
  BY <1>4, ZenonT(60) DEF IInv, TypeOK, TaskInfo
<1>9. schedulable' \in [Tasks -> Seq(Nat)]
  BY <1>4 DEF IInv, TypeOK, TaskInfo
<1>10. TypeOK'
  BY <1>2, <1>4, <1>7, <1>8, <1>9, Zenon DEF IInv, TypeOK, Put, Tasks
<1>11. Known'
  BY <1>2, <1>4, <1>8, Zenon DEF IInv, Known, Created
<1>12. Fits(Level(cur), f)
  BY <1>2, <1>3, <1>5, <1>h, ZenonT(60) DEF Holds, Fits, TrapOK
<1> QED BY <1>5, <1>7, <1>10, <1>11, <1>12, FitsKeeps, Zenon

(* A wake-up aims at a created task, so the heap keeps holding created     *)
(* tasks only.                                                             *)
LEMMA WakeKeeps == IInv /\ Wake => IInv'
<1> SUFFICES ASSUME IInv, Wake PROVE IInv'
  OBVIOUS
<1>1. Level(cur) \in Levels /\ Top(cur) \in Frame /\ cur \in Tasks
  BY TopFrame DEF IInv
<1>h. Holds(Level(cur), Top(cur))
  BY Current, Zenon
<1>2. /\ UNCHANGED <<time, nextTaskId, cur, nested, spin, interrupt_enabled, locked, intr,
                     inService, waiting, sleeping>>
      /\ Top(cur).pc = "crit" /\ Top(cur).op = "wake"
  BY ZenonT(60) DEF Wake, InCrit, At, cpuVars, waitVars
<1>3. PICK f \in Frame :
        /\ f.pc = "drop" /\ f.op = Top(cur).op /\ f.was = Top(cur).was
        /\ f.target = Top(cur).target /\ f.saved = Top(cur).saved
        /\ Put(Level(cur), f)
  BY PutPc, Zenon DEF Wake, IInv, Places
<1> DEFINE t == Top(cur).target
<1>4. t \in Created /\ t \in Tasks
  <2>1. t \in Alive
    BY <1>h, Zenon DEF Holds
  <2> QED BY <1>2, <2>1, AliveCreated, Zenon DEF Created
<1>5. /\ info' = SetRunnable(info, t, TRUE)
      /\ schedulable' = SetRunnableQueue(schedulable, info, t, TRUE)
  BY Zenon DEF Wake
<1> HIDE DEF t
<1>6. /\ info' \in [Tasks -> TaskInfo]
      /\ \A u \in Tasks : info'[u].last_scheduled = info[u].last_scheduled
  <2>1. info \in [Tasks -> TaskInfo]
    BY Zenon DEF IInv, TypeOK
  <2> QED BY <1>4, <1>5, <2>1, Zenon DEF SetRunnable, TaskInfo
<1>7. /\ schedulable' \in [Tasks -> Seq(Nat)]
      /\ \A u \in Tasks \ {t} : schedulable'[u] = schedulable[u]
  <2>1. info \in [Tasks -> TaskInfo] /\ schedulable \in [Tasks -> Seq(Nat)]
    BY Zenon DEF IInv, TypeOK
  <2> DEFINE p == SetRunnableQueue(schedulable, info, t, TRUE)
  <2>2. p \in [Tasks -> Seq(Nat)] /\ \A u \in Tasks \ {t} : p[u] = schedulable[u]
    BY <1>4, <2>1, QueueOn, ZenonT(60)
  <2>3. schedulable' = p
    BY <1>5, Zenon
  <2> HIDE DEF p
  <2> QED BY <2>2, <2>3, Zenon
<1>8. TypeOK'
  BY <1>2, <1>3, <1>6, <1>7, ZenonT(60) DEF IInv, TypeOK, Put, Tasks
<1>9. Known'
  BY <1>2, <1>4, <1>6, <1>7, Zenon DEF IInv, Known, Created
<1>10. Fits(Level(cur), f)
  BY <1>2, <1>3, <1>h, ZenonT(60) DEF Holds, Fits, ThreadOK, TrapOK
<1> QED BY <1>3, <1>8, <1>9, <1>10, FitsKeeps, ZenonT(60)

-----------------------------------------------------------------------------

(* A step that leaves the frames, the running task and the lock alone.     *)
LEMMA SameFrames ==
  ASSUME IInv, UNCHANGED <<frame, nextTaskId, cur, interrupt_enabled, locked, inService>>
  PROVE  /\ Created' = Created /\ Alive' = Alive
         /\ Shape' /\ Saved' /\ Service'
         /\ (locked = TRUE => intr' = FALSE) => Guard'
<1>1. Created' = Created /\ Alive' = Alive
  BY Zenon DEF Created, Alive
<1>2. \A t : Level(t)' = Level(t) /\ Top(t)' = Top(t)
  BY Zenon DEF Level, Top
<1>3. Shape'
  BY <1>1, Zenon DEF IInv, Shape
<1>4. Saved'
  BY <1>2, Zenon DEF IInv, Saved
<1>5. Service'
  BY Zenon DEF IInv, Service
<1>6. (locked = TRUE => intr' = FALSE) => Guard'
  BY <1>1, <1>2, Zenon DEF IInv, Guard
<1> QED BY <1>1, <1>3, <1>4, <1>5, <1>6, Zenon

(* Taking and releasing a WithSpinLock.                                    *)
LEMMA SpinKeeps == IInv /\ (SpinLock \/ SpinUnlock) => IInv'
<1> SUFFICES ASSUME IInv, SpinLock \/ SpinUnlock PROVE IInv'
  OBVIOUS
<1>1. Top(cur) \in Frame /\ cur \in Tasks
  BY TopFrame, Zenon DEF IInv
<1>2. /\ UNCHANGED <<time, nextTaskId, info, schedulable, cur, nested, interrupt_enabled, locked,
                     inService, frame, waiting, sleeping>>
      /\ Top(cur).pc = "body" /\ Top(cur).op = "none" /\ At("body")
  BY Zenon DEF SpinLock, SpinUnlock, Running, At, taskVars, waitVars
<1>3. Level(cur) = "thread" /\ Top(cur) = frame[cur]["thread"]
  BY <1>2, RunningThread, Zenon
<1>4. \E b \in BOOLEAN : intr' = (b = FALSE) /\ spin' = [spin EXCEPT ![cur] = b]
  BY Zenon DEF SpinLock, SpinUnlock
<1>5. PICK b \in BOOLEAN : intr' = (b = FALSE) /\ spin' = [spin EXCEPT ![cur] = b]
  BY <1>4, Zenon
<1>6. (b = TRUE => intr' = FALSE) /\ intr' \in BOOLEAN
  BY <1>5, Zenon
<1>7. TypeOK'
  BY <1>2, <1>5, <1>6, Zenon DEF IInv, TypeOK, Tasks
<1>8. Holds("thread", Top(cur))
  BY <1>3, Current, Zenon
<1>9. locked # TRUE
  BY <1>2, <1>8, Zenon DEF Holds
<1>10. /\ Created' = Created /\ Alive' = Alive
       /\ Shape' /\ Saved' /\ Service' /\ Guard'
  BY <1>2, <1>9, SameFrames, Zenon
<1>11. Known'
  BY <1>2, <1>10, Zenon DEF IInv, Known
<1>12. Starting'
  <2>1. frame[Idle]["thread"].op \in {"init", "boot"} => cur = Idle
    BY Zenon DEF IInv, Starting
  <2>2. frame[Idle]["thread"].op \notin {"init", "boot"}
    BY <1>2, <1>3, <2>1, Zenon
  <2> QED BY <1>2, <1>10, <2>2, Zenon DEF IInv, Starting
<1>13. Masked'
  BY <1>2, <1>3, Zenon DEF IInv, Masked, Level
<1>14. Spinning'
  <2>1. frame[cur]["thread"].was = FALSE
    BY <1>2, <1>3, <1>8, Zenon DEF Holds, ThreadOK
  <2>2. frame[cur]["trap"].pc = "none"
    BY <1>3, Zenon DEF Level
  <2>3. spin \in [Tasks -> BOOLEAN]
    BY Zenon DEF IInv, TypeOK
  <2>4. \A t \in Tasks : spin'[t] = IF t = cur THEN b ELSE spin[t]
    BY <1>5, <2>3, Zenon
  <2>5. \A t \in Tasks : spin[t] = TRUE => t = cur
    BY Zenon DEF IInv, Spinning
  <2>6. \A t \in Tasks : spin'[t] = TRUE => t = cur /\ b = TRUE
    BY <2>4, <2>5, Zenon
  <2> QED BY <1>2, <1>6, <2>1, <2>2, <2>6, Zenon DEF Spinning
<1> QED BY <1>7, <1>10, <1>11, <1>12, <1>13, <1>14, Zenon DEF IInv

(* The clock advances.                                                     *)
LEMMA AdvanceKeeps == IInv /\ Advance => IInv'
<1> SUFFICES ASSUME IInv, Advance PROVE IInv'
  OBVIOUS
<1>1. /\ UNCHANGED <<nextTaskId, info, schedulable, cur, intr, nested, interrupt_enabled, locked,
                     inService, frame, spin, waiting, sleeping>>
      /\ time' = time + 1
  BY Zenon DEF Advance, taskVars, cpuVars, waitVars
<1>2. TypeOK' /\ Known'
  <2>1. TypeOK'
    BY <1>1 DEF IInv, TypeOK, Tasks
  <2>2. time \in Nat /\ \A t \in Tasks : info[t].last_scheduled \in Nat
    BY Zenon DEF IInv, TypeOK, TaskInfo
  <2>3. \A t \in Tasks : info[t].last_scheduled <= time + 1
    BY <2>2, SMTT(60) DEF IInv, Known
  <2> QED BY <1>1, <2>1, <2>3, Zenon DEF IInv, Known, Created
<1>3. locked = TRUE => intr' = FALSE
  BY <1>1, Zenon DEF IInv, Guard
<1>4. Alive' = Alive /\ Shape' /\ Saved' /\ Service' /\ Guard'
  BY <1>1, <1>3, SameFrames, Zenon
<1>5. Starting'
  BY <1>1, <1>4, Zenon DEF IInv, Starting
<1>6. Masked' /\ Spinning'
  BY <1>1, Zenon DEF IInv, Masked, Spinning
<1> QED BY <1>2, <1>4, <1>5, <1>6, Zenon DEF IInv

(* A step that replaces the trap frame of the running task.                *)
LEMMA PutTrap ==
  ASSUME NEW f, Put("trap", f), cur \in Tasks
  PROVE  /\ frame'[cur]["trap"] = f
         /\ \A t \in Tasks : frame'[t]["thread"] = frame[t]["thread"]
         /\ \A t \in Tasks : t # cur => /\ frame'[t]["trap"] = frame[t]["trap"]
                                        /\ Level(t)' = Level(t) /\ Top(t)' = Top(t)
<1>1. "thread" \in Levels /\ "trap" \in Levels /\ "thread" # "trap"
  BY Zenon DEF Levels
<1>2. /\ frame'[cur]["trap"] = f
      /\ \A t \in Tasks : frame'[t]["thread"] = frame[t]["thread"]
      /\ \A t \in Tasks : t # cur => frame'[t]["trap"] = frame[t]["trap"]
  BY <1>1, Zenon DEF Put
<1>3. \A t \in Tasks : t # cur => Level(t)' = Level(t)
  BY <1>2, Zenon DEF Level
<1>4. \A t \in Tasks : t # cur => Top(t)' = Top(t)
  <2> SUFFICES ASSUME NEW t \in Tasks, t # cur PROVE Top(t)' = Top(t)
    BY Zenon
  <2>1. Level(t) = "thread" \/ Level(t) = "trap"
    BY Zenon DEF Level
  <2> QED BY <1>2, <1>3, <2>1, Zenon DEF Top
<1> QED BY <1>2, <1>3, <1>4, Zenon

(* It keeps the invariant if the thread below is outside the critical      *)
(* section, and the trap, if there is one, has interrupts off.             *)
LEMMA PutTrapKeeps ==
  ASSUME IInv, NEW f \in Frame, Put("trap", f), TypeOK', Known', Shape',
         Stays, UNCHANGED <<interrupt_enabled, locked>>, locked = FALSE,
         frame[cur]["thread"].pc \in Interruptible,
         frame[cur]["thread"].op \notin {"init", "boot"}, spin[cur] = FALSE,
         f.pc \notin {"crit", "drop"}, f.pc # "none" => intr' = FALSE,
         inService' = TRUE => f.pc # "none" /\ f.op \in {"irq", "wake"}
  PROVE  IInv'
<1>1. cur \in Tasks /\ cur' = cur /\ Created' = Created /\ Alive' = Alive
  BY Zenon DEF IInv, TypeOK, Stays, Created, Alive
<1>2. /\ frame'[cur]["trap"] = f
      /\ \A t \in Tasks : frame'[t]["thread"] = frame[t]["thread"]
      /\ \A t \in Tasks : t # cur => /\ frame'[t]["trap"] = frame[t]["trap"]
                                     /\ Level(t)' = Level(t) /\ Top(t)' = Top(t)
  BY <1>1, PutTrap, Zenon
<1>3. (Top(cur).pc \notin {"crit", "drop"})'
  <2>1. Top(cur)' = f \/ Top(cur)' = frame[cur]["thread"]
    BY <1>1, <1>2, Zenon DEF Top, Level
  <2>2. frame[cur]["thread"].pc \notin {"crit", "drop"}
    BY Zenon DEF Interruptible
  <2> QED BY <1>1, <2>1, <2>2, Zenon
<1>4. Saved'
  BY <1>1, <1>2, <1>3, Zenon DEF IInv, Saved
<1>5. Starting'
  <2>1. frame[Idle]["thread"].op \in {"init", "boot"} => cur = Idle
    BY Zenon DEF IInv, Starting
  <2>2. frame[Idle]["thread"].op \notin {"init", "boot"}
    BY <2>1, Zenon
  <2>3. frame'[Idle]["thread"] = frame[Idle]["thread"]
    BY <1>2, IdleTask, Zenon
  <2> QED BY <1>1, <2>2, <2>3, Zenon DEF IInv, Starting, Stays
<1>6. Masked'
  BY <1>1, <1>2, Zenon DEF IInv, Masked, Stays
<1>7. Service'
  BY <1>1, <1>2, Zenon DEF Service
<1>8. Spinning'
  <2>1. \A t \in Tasks : spin[t] # TRUE
    BY Zenon DEF IInv, Spinning
  <2> QED BY <2>1, Zenon DEF Spinning, Stays
<1>9. Guard'
  <2>1. \A t \in Created : t \in Tasks
    BY Zenon DEF Created
  <2> QED BY <1>1, <1>2, <1>3, <2>1, Zenon DEF IInv, Guard
<1> QED BY <1>4, <1>5, <1>6, <1>7, <1>8, <1>9, Zenon DEF IInv

(* Entering a trap from a thread that is outside the critical section and  *)
(* holds no spin lock.                                                     *)
LEMMA TrapsKeep ==
  ASSUME IInv, Level(cur) = "thread", frame[cur]["thread"].pc \in Interruptible,
         frame[cur]["thread"].op \notin {"init", "boot"}, spin[cur] = FALSE, locked = FALSE,
         NEW p \in {"lock", "handler"}, NEW o \in {"yield", "sleep", "irq"},
         p = "handler" <=> o = "irq",
         frame' = Trap(p, o), intr' = FALSE, inService' = (o = "irq"),
         Stays, UNCHANGED <<interrupt_enabled, locked, waiting, sleeping>>
  PROVE  IInv'
<1>1. cur \in Tasks /\ intr \in BOOLEAN
  BY Zenon DEF IInv, TypeOK
<1> DEFINE f == TrapOf(p, o, intr)
<1>2. f \in Frame /\ f.pc = p /\ f.op = o /\ f.was = FALSE /\ f.target = Idle
  <2>1. p \in Places /\ o \in Ops
    BY Zenon DEF Places, Ops
  <2> QED BY <1>1, <2>1, IdleTask, Zenon DEF TrapOf, NoFrame, Frame
<1>3. frame' = [frame EXCEPT ![cur]["trap"] = f]
  BY Zenon DEF Trap, TrapOf
<1> HIDE DEF f
<1>4. Put("trap", f)
  BY <1>2, <1>3, PutFrame, Zenon DEF IInv, Levels
<1>5. TypeOK'
  <2>1. inService' \in BOOLEAN
    OBVIOUS
  <2> QED BY <1>4, <2>1, ZenonT(60) DEF IInv, TypeOK, Put, Stays, Tasks
<1>6. Known'
  BY StaysKnown, ZenonT(60)
<1>7. Shape'
  <2>1. TrapOK(f) /\ f.target \in Alive
    BY <1>2, Zenon DEF TrapOK, Alive
  <2> QED BY <1>1, <1>2, <1>4, <2>1, PutShape, Zenon DEF IInv, Levels, Stays
<1>8. f.pc \notin {"crit", "drop"} /\ (inService' = TRUE => f.pc # "none" /\ f.op \in {"irq", "wake"})
  BY <1>2, Zenon
<1> QED BY <1>2, <1>4, <1>5, <1>6, <1>7, <1>8, PutTrapKeeps, Zenon

(* A system call is made by ordinary code.                                 *)
LEMMA SyscallKeeps == IInv /\ Syscall => IInv'
<1> SUFFICES ASSUME IInv, Syscall PROVE IInv'
  OBVIOUS
<1>1. At("body") /\ Top(cur).pc = "body" /\ Top(cur).op = "none"
  BY Zenon DEF Syscall, Running, At
<1>2. Level(cur) = "thread" /\ Top(cur) = frame[cur]["thread"]
  BY <1>1, RunningThread, Zenon
<1>3. spin[cur] = FALSE
  BY Zenon DEF Syscall, IInv, TypeOK
<1>4. locked = FALSE
  BY <1>1, Zenon DEF IInv, TypeOK, Guard
<1>5. PICK o \in {"yield", "sleep"} : frame' = Trap("lock", o)
  BY Zenon DEF Syscall
<1>6. /\ Stays /\ UNCHANGED <<interrupt_enabled, locked, waiting, sleeping>>
      /\ intr' = FALSE /\ inService' = FALSE
  BY Zenon DEF Syscall, Stays, taskVars, waitVars
<1> QED BY <1>1, <1>2, <1>3, <1>4, <1>5, <1>6, TrapsKeep, Zenon DEF Interruptible

(* An interrupt finds interrupts on, so it finds a thread outside the      *)
(* critical section.                                                       *)
LEMMA InterruptKeeps == IInv /\ Interrupt => IInv'
<1> SUFFICES ASSUME IInv, Interrupt PROVE IInv'
  OBVIOUS
<1>1. intr = TRUE /\ cur \in Tasks
  BY Zenon DEF Interrupt, IInv, TypeOK
<1>2. Level(cur) = "thread" /\ Top(cur) = frame[cur]["thread"]
  BY <1>1, Zenon DEF IInv, Masked, Level, Top
<1>3. spin[cur] = FALSE /\ locked = FALSE
  BY <1>1, ZenonT(60) DEF IInv, TypeOK, Spinning, Guard
<1>4. frame[cur]["thread"].pc \in Interruptible
  <2>1. Holds("thread", frame[cur]["thread"])
    BY <1>2, Current, Zenon
  <2> QED BY <1>3, <2>1, Zenon DEF Holds, ThreadOK, Interruptible
<1>5. frame[cur]["thread"].op \notin {"init", "boot"}
  BY <1>1, ZenonT(60) DEF IInv, Starting, Shape
<1>6. /\ Stays /\ UNCHANGED <<interrupt_enabled, locked, waiting, sleeping>>
      /\ intr' = FALSE /\ inService' = TRUE /\ frame' = Trap("handler", "irq")
  BY <1>2, Zenon DEF Interrupt, Stays, taskVars, waitVars
<1> QED BY <1>1, <1>2, <1>3, <1>4, <1>5, <1>6, TrapsKeep, ZenonT(60)

(* iretq returns to a thread that was outside the critical section, after  *)
(* the interrupt was acknowledged.                                         *)
LEMMA IretKeeps == IInv /\ Iret => IInv'
<1> SUFFICES ASSUME IInv, Iret PROVE IInv'
  OBVIOUS
<1>1. cur \in Tasks /\ Top(cur) \in Frame
  BY TopFrame DEF IInv
<1>2. /\ Stays /\ UNCHANGED <<interrupt_enabled, locked, inService, waiting, sleeping>>
      /\ Top(cur).pc = "iret" /\ intr' = Top(cur).saved
      /\ frame' = [frame EXCEPT ![cur]["trap"] = NoFrame]
  BY Zenon DEF Iret, Stays, taskVars, waitVars, At
<1>3. frame[cur]["trap"].pc = "iret" /\ Top(cur) = frame[cur]["trap"]
  <2>1. Holds(Level(cur), Top(cur))
    BY Current, Zenon
  <2>2. Level(cur) # "thread"
    BY <1>2, <2>1, Zenon DEF Holds, ThreadOK
  <2> QED BY <1>2, <2>2, Zenon DEF Top, Level
<1>4. /\ frame[cur]["trap"].op = "check" /\ frame[cur]["thread"].pc \in Interruptible
      /\ inService = FALSE /\ spin[cur] = FALSE /\ locked = FALSE
      /\ frame[cur]["thread"].op \notin {"init", "boot"}
  <2>1. Holds("trap", frame[cur]["trap"])
    <3>1. Level(cur) = "trap"
      BY <1>3, Zenon DEF Level
    <3> QED BY <1>3, <3>1, Current, Zenon
  <2>2. inService \in BOOLEAN /\ locked \in BOOLEAN
    BY Zenon DEF IInv, TypeOK
  <2>3. /\ frame[cur]["trap"].op = "check" /\ spin[cur] = FALSE
        /\ inService = FALSE /\ locked = FALSE
    BY <1>3, <2>1, <2>2, Zenon DEF Holds, TrapOK
  <2>4. frame[cur]["thread"].pc \in Interruptible
    BY <1>1, <1>3, Zenon DEF IInv, Shape
  <2>5. frame[cur]["thread"].op \in {"init", "boot"} => cur = Idle
    BY <1>1, Zenon DEF IInv, Shape
  <2>6. frame[cur]["thread"].op \notin {"init", "boot"}
    BY <1>3, <2>5, Zenon DEF IInv, Starting
  <2> QED BY <2>3, <2>4, <2>6, Zenon
<1>5. Put("trap", NoFrame)
  BY <1>2, EmptyFrame, PutFrame, Zenon DEF IInv, Levels
<1>6. TypeOK'
  <2>1. intr' \in BOOLEAN
    BY <1>1, <1>2, Zenon DEF Frame
  <2> QED BY <1>2, <1>5, <2>1, Zenon DEF IInv, TypeOK, Put, Stays, Tasks
<1>7. Known'
  BY <1>2, StaysKnown, Zenon
<1>8. Shape'
  <2>1. TrapOK(NoFrame) /\ NoFrame.target \in Alive
    BY EmptyFrame, Zenon DEF TrapOK, Alive
  <2> QED BY <1>1, <1>2, <1>5, <2>1, PutShape, EmptyFrame, Zenon DEF IInv, Levels, Stays
<1> QED BY <1>2, <1>4, <1>5, <1>6, <1>7, <1>8, EmptyFrame, PutTrapKeeps, Zenon

-----------------------------------------------------------------------------

(* SCHED_YIELD and the preemption of check_runtime: they run in a trap, so *)
(* no spin lock is held.                                                   *)
LEMMA VoluntaryKeeps == IInv /\ (Yield \/ Preempt) => IInv'
<1> SUFFICES ASSUME IInv, Yield \/ Preempt PROVE IInv'
  OBVIOUS
<1>1. /\ At("crit") /\ Top(cur).op \in {"yield", "check"} /\ Switch(info, schedulable, nextTaskId)
      /\ UNCHANGED <<time, nextTaskId, interrupt_enabled, locked, intr, inService, nested, spin,
                     waiting, sleeping>>
  BY Zenon DEF Yield, Preempt, InCrit, waitVars
<1>2. /\ info \in [Tasks -> TaskInfo] /\ schedulable \in [Tasks -> Seq(Nat)]
      /\ \A t \in Tasks : info[t].last_scheduled <= time
      /\ \A t \in Tasks : schedulable[t] # <<>> => t \in Created
      /\ waiting' \subseteq Created /\ sleeping' \subseteq Created
  BY <1>1, ZenonT(60) DEF IInv, TypeOK, Known
<1>3. spin[cur] = FALSE
  <2>1. Holds(Level(cur), Top(cur)) /\ Level(cur) \in Levels
    BY Current, TopFrame, Zenon DEF IInv
  <2> QED BY <1>1, <2>1, Zenon DEF Holds, ThreadOK, Levels
<1> QED BY <1>1, <1>2, <1>3, SwitchKeeps, Zenon

(* A task that blocks takes itself out of the heap and switches.           *)
LEMMA BlockingKeeps == IInv /\ (Sleep \/ Block) => IInv'
<1> SUFFICES ASSUME IInv, Sleep \/ Block PROVE IInv'
  OBVIOUS
<1> DEFINE i == SetRunnable(info, cur, FALSE)
           q == SetRunnableQueue(schedulable, info, cur, FALSE)
<1>1. /\ At("crit") /\ Top(cur).op \in {"sleep", "wait"} /\ Switch(i, q, nextTaskId)
      /\ UNCHANGED <<time, nextTaskId, interrupt_enabled, locked, intr, inService, nested, spin>>
      /\ waiting' \subseteq waiting \cup {cur} /\ sleeping' \subseteq sleeping \cup {cur}
  BY Zenon DEF Sleep, Block, InCrit
<1>2. cur \in Created /\ cur \in Tasks
  BY <1>1, AliveCreated, Zenon DEF Created
<1>3. /\ info \in [Tasks -> TaskInfo] /\ schedulable \in [Tasks -> Seq(Nat)]
      /\ \A t \in Tasks : info[t].last_scheduled <= time
      /\ \A t \in Tasks : schedulable[t] # <<>> => t \in Created
      /\ waiting' \subseteq Created /\ sleeping' \subseteq Created
  BY <1>1, <1>2, Zenon DEF IInv, TypeOK, Known
<1>4. i \in [Tasks -> TaskInfo] /\ \A t \in Tasks : i[t].last_scheduled = info[t].last_scheduled
  BY <1>2, <1>3, Zenon DEF SetRunnable, TaskInfo
<1>5. /\ q \in [Tasks -> Seq(Nat)]
      /\ \A t \in Tasks : q[t] # <<>> => t \in Created
  BY <1>2, <1>3 DEF SetRunnableQueue
<1>6. spin[cur] = FALSE
  <2>1. CASE Sleep
    <3>1. Holds(Level(cur), Top(cur)) /\ Level(cur) \in Levels /\ Top(cur).op = "sleep"
      BY <2>1, Current, TopFrame, Zenon DEF IInv, Sleep, InCrit
    <3> QED BY <3>1, Zenon DEF Holds, ThreadOK, Levels
  <2>2. CASE Block
    BY <1>2, <2>2, Zenon DEF Block, IInv, TypeOK
  <2> QED BY <2>1, <2>2, Zenon
<1> HIDE DEF i, q
<1> QED BY <1>1, <1>3, <1>4, <1>5, <1>6, SwitchKeeps, Zenon

(* sched::init makes the boot stack task 0 and switches to it: the heap    *)
(* holds no other task.                                                    *)
LEMMA SchedInitKeeps == IInv /\ SchedInit => IInv'
<1> SUFFICES ASSUME IInv, SchedInit PROVE IInv'
  OBVIOUS
<1> DEFINE i == Init_(info)
<1>1. /\ Top(cur).pc = "crit" /\ Top(cur).op = "init" /\ Switch(i, schedulable, 1)
      /\ nextTaskId' = 1
      /\ interrupt_enabled' = [interrupt_enabled EXCEPT ![Idle] = intr]
      /\ UNCHANGED <<time, locked, intr, inService, nested, spin, waiting, sleeping>>
  BY Zenon DEF SchedInit, InCrit, At, waitVars
<1>2. cur \in Tasks /\ Top(cur) \in Frame
  BY TopFrame DEF IInv
<1>3. Level(cur) = "thread" /\ Top(cur) = frame[cur]["thread"] /\ cur = Idle
  <2>1. Holds(Level(cur), Top(cur)) /\ Level(cur) \in Levels
    BY Current, TopFrame, Zenon DEF IInv
  <2>2. Level(cur) = "thread" /\ cur = Idle
    BY <1>1, <2>1, ZenonT(60) DEF Holds, TrapOK, Levels
  <2> QED BY <2>2, Zenon DEF Top
<1>4. nextTaskId = 0 /\ intr = FALSE /\ spin[Idle] = FALSE /\ frame[Idle]["trap"].pc = "none"
  BY <1>1, <1>3, Zenon DEF IInv, Starting
<1>5. Created = {} /\ Created' = {Idle} /\ Alive = {Idle} /\ Alive' = {Idle}
  BY <1>1, <1>4, IdleTask DEF Created, Alive, Idle, Tasks
<1>6. waiting = {} /\ sleeping = {} /\ \A t \in Tasks : schedulable[t] = <<>>
  BY <1>5, Zenon DEF IInv, Known
<1>7. /\ i \in [Tasks -> TaskInfo] /\ \A t \in Tasks : i[t].last_scheduled <= time
      /\ schedulable \in [Tasks -> Seq(Nat)]
  <2>1. info \in [Tasks -> TaskInfo] /\ schedulable \in [Tasks -> Seq(Nat)] /\ time \in Nat
    BY Zenon DEF IInv, TypeOK
  <2>2. i \in [Tasks -> TaskInfo]
    BY <2>1, Zenon DEF Init_, TaskInfo
  <2>3. i[Idle].last_scheduled = time /\ \A t \in Tasks \ {Idle} : i[t] = info[t]
    BY <2>1, IdleTask, Zenon DEF Init_
  <2>4. time <= time
    BY <2>1
  <2>5. \A t \in Tasks : info[t].last_scheduled <= time
    BY Zenon DEF IInv, Known
  <2> HIDE DEF i
  <2> QED BY <2>1, <2>2, <2>3, <2>4, <2>5, Zenon
<1> HIDE DEF i
<1>8. /\ schedulable' \in [Tasks -> Seq(Nat)]
      /\ info' \in [Tasks -> TaskInfo]
      /\ cur' \in {Idle}
      /\ frame' = SetPc("drop")
      /\ \A t \in Tasks : info'[t].last_scheduled <= time
      /\ \A t \in Tasks : schedulable'[t] # <<>> => t \in {Idle}
  <2>1. {Idle} \in SUBSET Tasks /\ cur \in {Idle} /\ 1 \in Nat \ {0}
    BY <1>3, IdleTask
  <2>2. \A t \in Tasks : schedulable[t] # <<>> => t \in {Idle}
    BY <1>6, ZenonT(60)
  <2> QED BY <1>1, <1>7, <2>1, <2>2, SwitchFacts, ZenonT(60) DEF IInv
<1>9. PICK f \in Frame :
        /\ f.pc = "drop" /\ f.op = Top(cur).op /\ f.was = Top(cur).was
        /\ f.target = Top(cur).target /\ f.saved = Top(cur).saved
        /\ Put(Level(cur), f)
  BY <1>8, PutPc, ZenonT(60) DEF IInv, Places
<1>10. f.was = FALSE /\ f.target = Idle /\ locked = TRUE /\ inService = FALSE
  <2>1. Holds("thread", Top(cur)) /\ inService \in BOOLEAN /\ locked \in BOOLEAN
    BY <1>3, Current, Zenon DEF IInv, TypeOK
  <2> QED BY <1>1, <1>5, <1>9, <2>1, ZenonT(60) DEF Holds, ThreadOK
<1>11. \A t \in Tasks : Level(t)' = Level(t) /\ Top(t)' = IF t = cur THEN f ELSE Top(t)
  BY <1>9, PutTop, Zenon DEF IInv
<1>12. TypeOK'
  <2>1. interrupt_enabled \in [Tasks -> BOOLEAN] /\ intr \in BOOLEAN
    BY Zenon DEF IInv, TypeOK
  <2>2. interrupt_enabled' \in [Tasks -> BOOLEAN]
    BY <1>1, <2>1, Zenon
  <2>3. nextTaskId' \in 0 .. MaxTasks /\ cur' \in Tasks
    BY <1>1, <1>8, IdleTask, SchedulerAssumption
  <2>4. frame' \in [Tasks -> [Levels -> Frame]]
    BY <1>9, Zenon DEF Put
  <2> QED BY <1>1, <1>8, <2>2, <2>3, <2>4, ZenonT(60) DEF IInv, TypeOK
<1>13. Known'
  BY <1>1, <1>5, <1>6, <1>8, Zenon DEF Known
<1>14. Shape'
  BY <1>1, <1>2, <1>3, <1>4, <1>5, <1>9, <1>10, PutShapeAlive, ZenonT(60) DEF IInv, ThreadOK, Levels
<1>15. Saved'
  <2>1. interrupt_enabled \in [Tasks -> BOOLEAN]
    BY Zenon DEF IInv, TypeOK
  <2>2. /\ interrupt_enabled'[Idle] = FALSE
        /\ \A t \in Tasks : t # Idle => interrupt_enabled'[t] = interrupt_enabled[t]
    BY <1>1, <1>4, <2>1, IdleTask, ZenonT(60)
  <2> QED BY <1>3, <1>10, <1>11, <2>2, ZenonT(60) DEF IInv, Saved
<1>16. Starting'
  <2>1. frame'[Idle]["thread"] = f /\ frame'[Idle]["trap"].pc = "none" /\ cur' = Idle
    BY <1>2, <1>3, <1>4, <1>8, <1>9, ZenonT(60) DEF Put, Levels
  <2> QED BY <1>1, <1>4, <1>5, <1>9, <2>1, SMTT(60) DEF Starting
<1>17. Masked' /\ Service' /\ Spinning'
  <2>1. Masked'
    BY <1>1, <1>4, Zenon DEF IInv, Masked
  <2>2. Service'
    BY <1>1, <1>10, Zenon DEF Service
  <2>3. \A t \in Tasks : spin[t] # TRUE
    BY <1>3, <1>4, Zenon DEF IInv, Spinning
  <2> QED BY <1>1, <2>1, <2>2, <2>3, Zenon DEF Spinning
<1>18. Guard'
  <2>1. Top(cur)' = f
    BY <1>2, <1>3, <1>8, <1>11, ZenonT(60) DEF Top, Level
  <2>2. cur' = Idle
    BY <1>8, Zenon
  <2> QED BY <1>1, <1>4, <1>5, <1>9, <1>10, <2>1, <2>2, ZenonT(60) DEF Guard
<1> QED BY <1>12, <1>13, <1>14, <1>15, <1>16, <1>17, <1>18, ZenonT(60) DEF IInv

(* A new task has the interrupt state that task_entry restores.            *)
LEMMA NewTaskKeeps == IInv /\ NewTask => IInv'
<1> SUFFICES ASSUME IInv, NewTask PROVE IInv'
  OBVIOUS
<1> DEFINE n == nextTaskId
<1>1. /\ Top(cur).pc = "crit" /\ Top(cur).op = "new"
      /\ n' = n + 1
      /\ interrupt_enabled' = [interrupt_enabled EXCEPT ![n] = TRUE]
      /\ schedulable' = Push(schedulable, info', n)
      /\ UNCHANGED <<time, locked, cur, intr, inService, nested, spin, waiting, sleeping>>
  BY Zenon DEF NewTask, InCrit, At, cpuVars, waitVars
<1>2. cur \in Tasks /\ Top(cur) \in Frame
  BY TopFrame DEF IInv
<1>3. Level(cur) = "thread" /\ Top(cur) = frame[cur]["thread"] /\ cur = Idle
  BY NewTaskFrames, Zenon
<1>4. n \in Nat \ {0} /\ n < MaxTasks /\ n \in Tasks /\ n # cur /\ n \notin Alive
  BY NewTaskFrames, Zenon
<1>5. Created' = Created \cup {n} /\ Alive' = Alive \cup {n} /\ Alive = Created
  BY NewTaskFrames, Zenon
<1>6. PICK f \in Frame, g \in Frame :
        /\ f.pc = "drop" /\ f.op = "new" /\ f.was = Top(cur).was /\ f.target = Top(cur).target
        /\ g.pc = "drop" /\ g.op = "entry" /\ g.was = TRUE /\ g.target = Idle
        /\ frame' \in [Tasks -> [Levels -> Frame]]
        /\ frame'[n]["thread"] = g /\ frame'[n]["trap"] = NoFrame
        /\ frame'[cur]["thread"] = f /\ frame'[cur]["trap"] = frame[cur]["trap"]
        /\ \A t \in Tasks \ {cur, n} : frame'[t] = frame[t]
  BY NewTaskFrames, Zenon
<1>7. /\ info' \in [Tasks -> TaskInfo]
      /\ \A t \in Tasks : info'[t].last_scheduled <= time
  <2>1. PICK r \in Garbage :
          info' = [info EXCEPT ![n] = [runnable |-> TRUE, total_runtime |-> 0,
                                       last_scheduled |-> 0, run_until |-> r]]
    BY Zenon DEF NewTask
  <2>2. r \in Nat
    BY SchedulerAssumption, Zenon
  <2>3. info \in [Tasks -> TaskInfo] /\ time \in Nat
    BY Zenon DEF IInv, TypeOK
  <2>4. info' \in [Tasks -> TaskInfo]
    BY <2>1, <2>2, <2>3, Zenon DEF TaskInfo
  <2>5. info'[n].last_scheduled = 0 /\ \A t \in Tasks \ {n} : info'[t] = info[t]
    BY <1>4, <2>1, <2>3, Zenon
  <2> QED BY <2>3, <2>4, <2>5, SMTT(60) DEF IInv, Known
<1>8. /\ schedulable' \in [Tasks -> Seq(Nat)]
      /\ \A t \in Tasks \ {n} : schedulable'[t] = schedulable[t]
  <2>1. schedulable \in [Tasks -> Seq(Nat)] /\ info'[n].total_runtime \in Nat
    <3>1. info'[n] \in TaskInfo
      BY <1>4, <1>7, Zenon
    <3> QED BY <3>1, Zenon DEF IInv, TypeOK, TaskInfo
  <2> DEFINE x == Append(schedulable[n], info'[n].total_runtime)
  <2>2. x \in Seq(Nat)
    BY <1>4, <2>1, AppendFacts, Zenon
  <2>3. schedulable' = [schedulable EXCEPT ![n] = x]
    BY <1>1, Zenon DEF Push
  <2> HIDE DEF x
  <2> QED BY <2>1, <2>2, <2>3, Zenon
<1>9. TypeOK'
  <2>1. interrupt_enabled \in [Tasks -> BOOLEAN]
    BY Zenon DEF IInv, TypeOK
  <2>2. interrupt_enabled' \in [Tasks -> BOOLEAN]
    BY <1>1, <2>1, Zenon
  <2>3. n' \in 0 .. MaxTasks
    BY <1>1, <1>4, SchedulerAssumption
  <2> QED BY <1>1, <1>6, <1>7, <1>8, <2>2, <2>3, ZenonT(60) DEF IInv, TypeOK
<1>10. Known'
  BY <1>1, <1>5, <1>7, <1>8, Zenon DEF IInv, Known
<1>11. Shape'
  <2> SUFFICES ASSUME NEW t \in Tasks
               PROVE  (/\ ThreadOK(frame[t]["thread"])
                       /\ TrapOK(frame[t]["trap"])
                       /\ frame[t]["trap"].pc # "none" => frame[t]["thread"].pc \in Interruptible
                       /\ t \in Alive => frame[t]["thread"].pc # "none"
                       /\ frame[t]["thread"].op \in {"init", "boot", "new"} => t = Idle
                       /\ \A l \in Levels : frame[t][l].target \in Alive)'
    BY ZenonT(60) DEF Shape
  <2>1. CASE t = n
    BY <1>4, <1>5, <1>6, <2>1, EmptyFrame, ZenonT(60) DEF ThreadOK, TrapOK, Levels, Alive
  <2>2. CASE t = cur
    <3>1. Holds("thread", Top(cur))
      BY <1>3, Current, Zenon
    <3>2. frame[cur]["trap"].pc = "none" /\ TrapOK(frame[cur]["trap"])
      BY <1>2, <1>3, Zenon DEF IInv, Shape, Level
    <3>3. frame[cur]["trap"].target \in Alive
      BY <1>2, Zenon DEF IInv, Shape, Levels
    <3>4. ThreadOK(f) /\ f.target \in Alive
      BY <1>1, <1>6, <3>1, ZenonT(60) DEF Holds, ThreadOK
    <3> QED BY <1>3, <1>5, <1>6, <2>2, <3>2, <3>3, <3>4, SMTT(60) DEF Levels
  <2>3. CASE t \notin {cur, n}
    <3>1. frame'[t] = frame[t] /\ (t \in Alive' <=> t \in Alive) /\ Alive \subseteq Alive'
      BY <1>5, <1>6, <2>3, Zenon
    <3> QED BY <3>1, ZenonT(60) DEF IInv, Shape
  <2> QED BY <2>1, <2>2, <2>3, Zenon
<1>12. Saved'
  <2>1. interrupt_enabled \in [Tasks -> BOOLEAN]
    BY Zenon DEF IInv, TypeOK
  <2>2. interrupt_enabled'[n] = TRUE /\ \A t \in Tasks \ {n} : interrupt_enabled'[t] = interrupt_enabled[t]
    BY <1>1, <1>4, <2>1, ZenonT(60)
  <2>3. interrupt_enabled[cur] = f.was
    BY <1>1, <1>2, <1>6, ZenonT(60) DEF IInv, Saved
  <2> SUFFICES ASSUME NEW t \in Tasks
               PROVE  (Top(t).pc \in {"crit", "drop"} => interrupt_enabled[t] = Top(t).was)'
    BY Zenon DEF Saved
  <2>4. CASE t = n
    BY <1>6, <2>2, <2>4, EmptyFrame, ZenonT(60) DEF Top, Level
  <2>5. CASE t = cur
    BY <1>2, <1>3, <1>4, <1>6, <2>2, <2>3, <2>5, ZenonT(60) DEF Top, Level
  <2>6. CASE t \notin {cur, n}
    <3>1. frame'[t] = frame[t] /\ interrupt_enabled'[t] = interrupt_enabled[t]
      BY <1>6, <2>2, <2>6, ZenonT(60)
    <3> QED BY <3>1, Zenon DEF IInv, Saved, Top, Level
  <2> QED BY <2>4, <2>5, <2>6, ZenonT(60)
<1>13. Starting'
  <2>1. cur' \in Alive'
    BY <1>1, <1>5, Zenon DEF IInv, Starting
  <2>2. n' # 0 /\ frame'[Idle]["thread"] = f
    BY <1>1, <1>3, <1>4, <1>6, SMTT(60)
  <2> QED BY <1>6, <2>1, <2>2, Zenon DEF Starting
<1>14. Masked' /\ Service'
  BY <1>1, <1>6, Zenon DEF IInv, Masked, Service
<1>15. Spinning'
  <2>1. /\ frame'[cur]["thread"].was = frame[cur]["thread"].was
        /\ frame'[cur]["trap"] = frame[cur]["trap"]
    BY <1>3, <1>6, Zenon
  <2>2. UNCHANGED <<spin, cur, intr>>
    BY <1>1, Zenon
  <2> QED BY <2>1, <2>2, Zenon DEF IInv, Spinning
<1>16. Guard'
  <2>1. Top(cur)' = f
    <3>1. cur' = cur /\ frame'[cur]["thread"] = f
      BY <1>1, <1>6, Zenon
    <3>2. frame'[cur]["trap"].pc = "none"
      BY <1>3, <1>6 DEF Level
    <3> QED BY <3>1, <3>2, Zenon DEF Top, Level
  <2>a. frame'[n]["thread"].pc = "drop" /\ frame'[n]["trap"].pc = "none"
    BY <1>6, EmptyFrame, Zenon
  <2>2. \A t \in Tasks \ {cur, n} : Top(t)' = Top(t)
    BY <1>6, Zenon DEF Top, Level
  <2>3. \A t \in Created : t \in Tasks
    BY Zenon DEF Created
  <2>4. ASSUME NEW t \in Created' \ {cur} PROVE (Top(t).pc)' = "drop"
    <3>1. CASE t = n
      BY <2>a, <3>1, Zenon DEF Top, Level
    <3>2. CASE t # n
      <4>1. t \in Created \ {cur} /\ t \in Tasks \ {cur, n}
        BY <1>5, <2>3, <2>4, <3>2, ZenonT(60)
      <4>2. Top(t).pc = "drop"
        BY <4>1, Zenon DEF IInv, Guard
      <4> QED BY <2>2, <4>1, <4>2, Zenon
    <3> QED BY <3>1, <3>2, Zenon
  <2>5. locked = TRUE /\ intr = FALSE
    BY <1>1, Zenon DEF IInv, Guard
  <2> QED BY <1>1, <1>6, <2>1, <2>4, <2>5, ZenonT(60) DEF Guard
<1> QED BY <1>9, <1>10, <1>11, <1>12, <1>13, <1>14, <1>15, <1>16, ZenonT(60) DEF IInv

-----------------------------------------------------------------------------

(* The invariant holds when the kernel calls sched::init.                  *)
LEMMA InitIInv == Init => IInv
<1> SUFFICES ASSUME Init PROVE IInv
  OBVIOUS
<1> DEFINE g == [Body("init") EXCEPT !.pc = "lock"]
<1>1. g \in Frame /\ g.pc = "lock" /\ g.op = "init" /\ g.was = FALSE /\ g.target = Idle
  BY IdleTask, Zenon DEF Body, NoFrame, Frame, Places, Ops
<1>2. frame = [t \in Tasks |-> [l \in Levels |-> IF t = Idle /\ l = "thread" THEN g ELSE NoFrame]]
  BY Zenon DEF Init
<1> HIDE DEF g
<1>3. /\ frame \in [Tasks -> [Levels -> Frame]]
      /\ frame[Idle]["thread"] = g /\ \A t \in Tasks : frame[t]["trap"] = NoFrame
      /\ \A t \in Tasks \ {Idle} : frame[t]["thread"] = NoFrame
  BY <1>1, <1>2, EmptyFrame, IdleTask, Zenon DEF Levels
<1>4. Created = {} /\ Alive = {Idle}
  BY DEF Init, Created, Alive, Tasks
<1>5. TypeOK
  <2>1. info \in [Tasks -> TaskInfo]
    BY Zenon DEF Init, TaskInfo
  <2>2. schedulable \in [Tasks -> Seq(Nat)] /\ nextTaskId \in 0 .. MaxTasks /\ time \in Nat
    BY SchedulerAssumption DEF Init
  <2>3. interrupt_enabled \in [Tasks -> BOOLEAN] /\ spin \in [Tasks -> BOOLEAN]
    BY Zenon DEF Init
  <2>4. /\ locked \in BOOLEAN /\ cur \in Tasks /\ intr \in BOOLEAN /\ inService \in BOOLEAN
        /\ nested \in BOOLEAN /\ waiting \in SUBSET Tasks /\ sleeping \in SUBSET Tasks
    BY IdleTask, Zenon DEF Init
  <2> QED BY <1>3, <2>1, <2>2, <2>3, <2>4, Zenon DEF TypeOK
<1>6. Shape
  <2>1. ThreadOK(g) /\ ThreadOK(NoFrame) /\ TrapOK(NoFrame)
    BY <1>1, EmptyFrame, Zenon DEF ThreadOK, TrapOK
  <2> QED BY <1>1, <1>3, <1>4, <2>1, EmptyFrame, SMTT(60) DEF Shape, Levels
<1>7. Saved
  BY <1>1, <1>3, EmptyFrame, IdleTask, Zenon DEF Saved, Top, Level
<1>8. Starting
  BY <1>1, <1>3, <1>4, EmptyFrame, IdleTask, Zenon DEF Init, Starting
<1>9. Known
  <2>1. \A t \in Tasks : info[t].last_scheduled <= time
    BY DEF Init
  <2> QED BY <2>1, Zenon DEF Init, Known
<1>10. Masked /\ Service /\ Spinning
  BY <1>3, EmptyFrame, IdleTask, Zenon DEF Init, Masked, Service, Spinning
<1>11. Guard
  BY <1>1, <1>3, <1>4, EmptyFrame, IdleTask, ZenonT(60) DEF Init, Guard, Top, Level
<1> QED BY <1>5, <1>6, <1>7, <1>8, <1>9, <1>10, <1>11, ZenonT(60) DEF IInv

(* It depends on the variables only.                                       *)
LEMMA StutterIInv == IInv /\ UNCHANGED vars => IInv'
<1> SUFFICES ASSUME IInv, UNCHANGED vars PROVE IInv'
  OBVIOUS
<1>1. UNCHANGED <<time, nextTaskId, info, interrupt_enabled, schedulable, locked, cur, intr,
                  inService, nested, frame, spin, waiting, sleeping>>
  BY Zenon DEF vars
<1>2. Created' = Created /\ Alive' = Alive /\ \A t : Level(t)' = Level(t) /\ Top(t)' = Top(t)
  BY <1>1, Zenon DEF Created, Alive, Level, Top
<1>3. TypeOK' /\ Known'
  BY <1>1, <1>2, Zenon DEF IInv, TypeOK, Known
<1>4. Shape' /\ Saved' /\ Starting'
  BY <1>1, <1>2, Zenon DEF IInv, Shape, Saved, Starting
<1>5. Masked' /\ Spinning' /\ Service' /\ Guard'
  BY <1>1, <1>2, Zenon DEF IInv, Masked, Spinning, Service, Guard
<1> QED BY <1>3, <1>4, <1>5, Zenon DEF IInv

(* Every step keeps it.                                                    *)
LEMMA NextIInv == IInv /\ [Next]_vars => IInv'
<1> SUFFICES ASSUME IInv, [Next]_vars PROVE IInv'
  OBVIOUS
<1>1. CASE KernelStep
  <2>1. CASE LockRead \/ LockAcquire \/ Drop
    BY <2>1, LockReadKeeps, LockAcquireKeeps, DropKeeps, Zenon
  <2>2. CASE SchedInit \/ NewTask
    BY <2>2, SchedInitKeeps, NewTaskKeeps, Zenon
  <2>3. CASE Yield \/ Sleep \/ Block \/ Preempt
    BY <2>3, VoluntaryKeeps, BlockingKeeps, ZenonT(60)
  <2>4. CASE WaitPass \/ KeepRunning
    BY <2>4, LeaveKeeps, Zenon DEF WaitPass, KeepRunning, InCrit
  <2>5. CASE Wake \/ EnableInterrupts
    BY <2>5, WakeKeeps, EnableInterruptsKeeps, Zenon
  <2>6. CASE TimerHandler \/ DeviceHandler \/ Iret
    BY <2>6, TimerHandlerKeeps, DeviceHandlerKeeps, IretKeeps, Zenon
  <2> QED BY <1>1, <2>1, <2>2, <2>3, <2>4, <2>5, <2>6, ZenonT(60) DEF KernelStep
<1>2. CASE ThreadStep
  <2>1. CASE CallNewTask
    BY <2>1, CallKeeps, Zenon DEF CallNewTask, Alive, waitVars
  <2>2. CASE CallWait
    BY <2>2, CallKeeps, Zenon DEF CallWait, Alive, waitVars
  <2>3. CASE CallWake
    <3>1. PICK t \in waiting : waiting' = waiting \ {t} /\ frame' = Call("wake", t)
      BY <2>3, Zenon DEF CallWake
    <3>2. t \in Alive
      BY Zenon DEF IInv, Known, Alive
    <3> QED BY <2>3, <3>1, <3>2, CallKeeps, Zenon DEF CallWake
  <2>4. CASE SpinLock \/ SpinUnlock
    BY <2>4, SpinKeeps, Zenon
  <2>5. CASE Syscall
    BY <2>5, SyscallKeeps, Zenon
  <2> QED BY <1>2, <2>1, <2>2, <2>3, <2>4, <2>5, ZenonT(60) DEF ThreadStep
<1>3. CASE Interrupt \/ Advance
  BY <1>3, InterruptKeeps, AdvanceKeeps
<1>4. CASE UNCHANGED vars
  BY <1>4, StutterIInv, Zenon
<1> QED BY <1>1, <1>2, <1>3, <1>4, Zenon DEF Next

(* It is an invariant.                                                     *)
LEMMA Inductive == Spec => []IInv
<1> QED BY InitIInv, NextIInv, PTL DEF Spec

-----------------------------------------------------------------------------

(* Every variable keeps its type.                                          *)
THEOREM TypeTheorem == Spec => []TypeOK
<1>1. IInv => TypeOK
  BY Zenon DEF IInv
<1> QED BY <1>1, Inductive, PTL

(* For any number of tasks, the scheduler lock is held exactly between     *)
(* lock() and the drop of the guard, with interrupts off, and every task   *)
(* that is not running is parked with the guard still to be dropped        *)
(* (SchedulerGuard::switch, task_entry).                                   *)
THEOREM GuardTheorem == Spec => []GuardHandover
<1>1. IInv => GuardHandover
  <2> SUFFICES ASSUME IInv PROVE GuardHandover
    OBVIOUS
  <2>1. locked \in BOOLEAN /\ intr \in BOOLEAN
    BY ZenonT(60) DEF IInv, TypeOK
  <2> QED BY <2>1, Zenon DEF IInv, Guard, GuardHandover
<1> QED BY <1>1, Inductive, PTL

(* For any number of tasks, the drop of a guard restores the interrupt     *)
(* state that the same call of lock() read (set_resume_interrupts,         *)
(* SchedulerGuard::drop).                                                  *)
THEOREM InterruptStateTheorem == Spec => []ResumesOwnInterruptState
<1>1. IInv => ResumesOwnInterruptState
  BY Zenon DEF IInv, Saved, ResumesOwnInterruptState, Created
<1> QED BY <1>1, Inductive, PTL

(* For any number of tasks, no interrupt is taken in a handler, although   *)
(* handlers take and drop scheduler guards and switch tasks (isr.s,        *)
(* check_runtime).                                                         *)
THEOREM NestingTheorem == Spec => []NoNesting
<1>1. IInv => NoNesting
  BY Zenon DEF IInv, Masked, NoNesting, Level
<1> QED BY <1>1, Inductive, PTL

(* For any number of tasks, a WithSpinLock is held only by the running     *)
(* task, with interrupts off.                                              *)
THEOREM SpinLockTheorem == Spec => []NoSwitchHoldingSpinLock
<1>1. IInv => NoSwitchHoldingSpinLock
  <2> SUFFICES ASSUME IInv PROVE NoSwitchHoldingSpinLock
    OBVIOUS
  <2>1. intr \in BOOLEAN /\ spin \in [Tasks -> BOOLEAN]
    BY Zenon DEF IInv, TypeOK
  <2> QED BY <2>1, Zenon DEF IInv, Spinning, NoSwitchHoldingSpinLock
<1> QED BY <1>1, Inductive, PTL

(* For any number of tasks, an interrupt is acknowledged before its trap   *)
(* can switch to another task (end_of_interrupt in the handlers).          *)
THEOREM AcknowledgedTheorem == Spec => []AcknowledgedBeforeSwitch
<1>1. IInv => AcknowledgedBeforeSwitch
  BY Zenon DEF IInv, TypeOK, Service, AcknowledgedBeforeSwitch, Level, Top
<1> QED BY <1>1, Inductive, PTL

-----------------------------------------------------------------------------
(* A quotient is not more than what is divided.                            *)
LEMMA Quotient ==
  ASSUME NEW c \in Nat, NEW n \in Nat \ {0}
  PROVE  c \div n \in Nat /\ c \div n <= c
OBVIOUS

(* update_runtime changes no runnable flag and one run time.               *)
LEMMA UpdateFacts ==
  ASSUME NEW i \in [Tasks -> TaskInfo], NEW t \in Tasks, NEW n \in Nat, time \in Nat,
         i[t].last_scheduled <= time
  PROVE  LET j == UpdateRuntime(i, t, n) IN
         /\ j \in [Tasks -> TaskInfo]
         /\ \A u \in Tasks : j[u].runnable = i[u].runnable
         /\ \A u \in Tasks \ {t} : j[u].total_runtime = i[u].total_runtime
<1>1. i[t].last_scheduled \in Nat /\ i[t].total_runtime \in Nat
  BY Zenon DEF TaskInfo
<1>2. time - i[t].last_scheduled \in Nat
  BY <1>1
<1>3. \A x \in Nat : x * n \in Nat
  OBVIOUS
<1>4. i[t].total_runtime + (time - i[t].last_scheduled) * n \in Nat
  BY <1>1, <1>2, <1>3
<1> QED BY <1>4, Zenon DEF UpdateRuntime, TaskInfo

(* set_current_task and set_run_until set the task's deadline.             *)
LEMMA DeadlineFacts ==
  ASSUME NEW i \in [Tasks -> TaskInfo], NEW t \in Tasks, NEW n \in Nat \ {0}, time \in Nat
  PROVE  LET j == SetRunUntil(SetCurrentTask(i, t), t, n) IN
         /\ \A u \in Tasks : /\ j[u].runnable = i[u].runnable
                             /\ j[u].total_runtime = i[u].total_runtime
         /\ i[t].runnable = TRUE => Deadline(j[t])
<1> DEFINE k == SetCurrentTask(i, t)
           j == SetRunUntil(k, t, n)
<1>1. /\ k \in [Tasks -> TaskInfo] /\ k[t].last_scheduled = time
      /\ \A u \in Tasks : k[u].runnable = i[u].runnable /\ k[u].total_runtime = i[u].total_runtime
  BY Zenon DEF SetCurrentTask, TaskInfo
<1> HIDE DEF k
<1>2. SchedLatency \div n \in Nat /\ SchedLatency \div n <= SchedLatency /\ SchedLatency \in Nat
  BY Quotient, SchedulerAssumption, Zenon
<1> DEFINE d == SchedLatency \div n
<1>3. j = [k EXCEPT ![t].run_until = time + d]
  BY Zenon DEF SetRunUntil
<1> HIDE DEF d, j
<1>4. /\ j[t].run_until = time + d /\ j[t].last_scheduled = time
      /\ \A u \in Tasks : j[u].runnable = k[u].runnable /\ j[u].total_runtime = k[u].total_runtime
  BY <1>1, <1>3, SMTT(60) DEF TaskInfo
<1>5. i[t].runnable = TRUE => Deadline(j[t])
  <2>1. d \in Nat /\ d <= SchedLatency /\ SchedLatency \in Nat
    BY <1>2, Zenon DEF d
  <2>2. j[t].run_until >= j[t].last_scheduled /\ j[t].run_until <= j[t].last_scheduled + SchedLatency
    BY <1>4, <2>1
  <2> QED BY <1>1, <1>4, <2>2, Zenon DEF Deadline
<1> QED BY <1>1, <1>4, <1>5, Zenon DEF j, k

(* What a heap with one copy of each task of C gives: the least task, and  *)
(* nothing of it is left once that copy is popped.                         *)
LEMMA PopFacts ==
  ASSUME NEW i \in [Tasks -> TaskInfo], NEW q \in [Tasks -> Seq(Nat)], NEW C \in SUBSET Tasks,
         Exact(i, q, C), NEW t \in Lowest(q)
  PROVE  /\ t \in C /\ i[t].runnable = TRUE
         /\ Tail(q[t]) = <<>>
         /\ \A u \in C : i[u].runnable = TRUE => i[t].total_runtime <= i[u].total_runtime
<1>1. t \in Tasks /\ q[t] # <<>> /\ \A v \in Tasks : q[v] # <<>> => Head(q[t]) <= Head(q[v])
  BY Zenon DEF Lowest
<1>2. \A u \in Tasks : i[u].total_runtime \in Nat
  BY Zenon DEF TaskInfo
<1>3. t \in C /\ i[t].runnable = TRUE /\ q[t] = <<i[t].total_runtime>>
  BY <1>1, Zenon DEF Exact
<1>4. \A x \in Nat : Tail(<<x>>) = <<>> /\ Head(<<x>>) = x /\ <<x>> # <<>>
  OBVIOUS
<1>5. Tail(q[t]) = <<>> /\ Head(q[t]) = i[t].total_runtime
  BY <1>1, <1>2, <1>3, <1>4, Zenon
<1>6. ASSUME NEW u \in C, i[u].runnable = TRUE
      PROVE  i[t].total_runtime <= i[u].total_runtime
  <2>1. u \in Tasks /\ q[u] = <<i[u].total_runtime>>
    BY <1>6, Zenon DEF Exact
  <2>2. q[u] # <<>> /\ Head(q[u]) = i[u].total_runtime
    BY <1>2, <1>4, <2>1, Zenon
  <2> QED BY <1>1, <1>5, <2>1, <2>2, Zenon
<1> QED BY <1>3, <1>5, <1>6, Zenon

(* switch() keeps the heap exact, sets the deadline of the task it picks,  *)
(* which is runnable and has the least run time.                           *)
LEMMA SwitchExact ==
  ASSUME LowestFound, TypeOK,
         NEW i \in [Tasks -> TaskInfo], NEW q \in [Tasks -> Seq(Nat)],
         NEW n \in Nat \ {0}, NEW C \in SUBSET Tasks, cur \in C, Idle \in C,
         \A t \in Tasks : i[t].last_scheduled <= time,
         Exact(i, q, C \ {cur}), i[Idle].runnable = TRUE,
         Switch(i, q, n)
  PROVE  /\ cur' \in C
         /\ Exact(info', schedulable', C \ {cur'})
         /\ Deadline(info'[cur'])
         /\ \A t \in Tasks : info'[t].runnable = i[t].runnable
         /\ \A t \in C : info'[t].runnable = TRUE =>
                           info'[cur'].total_runtime <= info'[t].total_runtime
         /\ frame' = SetPc("drop")
<1> DEFINE i1 == UpdateRuntime(i, cur, n)
           q1 == Requeue(q, i1, cur)
           low == Lowest(q1)
<1>1. cur \in Tasks /\ time \in Nat /\ n \in Nat
  BY Zenon DEF TypeOK
<1>2. /\ i1 \in [Tasks -> TaskInfo]
      /\ \A t \in Tasks : i1[t].runnable = i[t].runnable
      /\ \A t \in Tasks \ {cur} : i1[t].total_runtime = i[t].total_runtime
  BY <1>1, UpdateFacts, Zenon
<1> HIDE DEF i1
<1>3. q1 \in [Tasks -> Seq(Nat)] /\ Exact(i1, q1, C)
  <2>1. q[cur] = <<>>
    BY <1>1, Zenon DEF Exact
  <2>2. i1[cur].total_runtime \in Nat /\ i1[cur].runnable \in BOOLEAN
    BY <1>1, <1>2, ZenonT(60) DEF TaskInfo
  <2>3. CASE i1[cur].runnable = TRUE
    <3>1. q1 = Push(q, i1, cur)
      BY <2>3, Zenon DEF Requeue
    <3> HIDE DEF q1
    <3>2. /\ q1 \in [Tasks -> Seq(Nat)]
          /\ q1[cur] = Append(q[cur], i1[cur].total_runtime)
          /\ \A u \in Tasks \ {cur} : q1[u] = q[u]
      <4> DEFINE p == Push(q, i1, cur)
      <4>1. /\ p \in [Tasks -> Seq(Nat)]
            /\ p[cur] = Append(q[cur], i1[cur].total_runtime)
            /\ \A u \in Tasks \ {cur} : p[u] = q[u]
        BY <1>1, <1>2, PushFacts, ZenonT(60)
      <4> HIDE DEF p
      <4> QED BY <3>1, <4>1, Zenon DEF p
    <3>3. q1[cur] = <<i1[cur].total_runtime>>
      BY <2>1, <2>2, <3>2
    <3> QED BY <1>1, <1>2, <2>3, <3>2, <3>3, ZenonT(60) DEF Exact
  <2>4. CASE i1[cur].runnable = FALSE
    <3>1. q1 = q
      BY <2>4, Zenon DEF Requeue
    <3> HIDE DEF q1
    <3> QED BY <1>1, <1>2, <2>1, <2>4, <3>1, Zenon DEF Exact
  <2> QED BY <2>2, <2>3, <2>4, Zenon
<1> HIDE DEF q1
<1>4. low # {}
  <2>1. q1[Idle] = <<i1[Idle].total_runtime>> /\ i1[Idle].total_runtime \in Nat
    BY <1>2, <1>3, IdleTask, ZenonT(60) DEF Exact, TaskInfo
  <2>2. q1[Idle] # <<>>
    BY <2>1
  <2> QED BY <1>3, <2>2, IdleTask, Zenon DEF LowestFound
<1>5. PICK to \in low :
        /\ schedulable' = [q1 EXCEPT ![to] = Tail(@)]
        /\ info' = SetRunUntil(SetCurrentTask(i1, to), to, n)
        /\ cur' = to
        /\ frame' = SetPc("drop")
  BY <1>4, Zenon DEF Switch, i1, q1
<1>6. /\ to \in Tasks /\ to \in C /\ i1[to].runnable = TRUE
      /\ Tail(q1[to]) = <<>>
      /\ \A u \in C : i1[u].runnable = TRUE => i1[to].total_runtime <= i1[u].total_runtime
  BY <1>2, <1>3, <1>5, PopFacts, ZenonT(60)
<1>7. /\ \A u \in Tasks : /\ info'[u].runnable = i1[u].runnable
                          /\ info'[u].total_runtime = i1[u].total_runtime
      /\ Deadline(info'[to])
  <2> DEFINE j == SetRunUntil(SetCurrentTask(i1, to), to, n)
  <2>1. /\ \A u \in Tasks : j[u].runnable = i1[u].runnable /\ j[u].total_runtime = i1[u].total_runtime
        /\ Deadline(j[to])
    BY <1>1, <1>2, <1>6, DeadlineFacts, ZenonT(60)
  <2> HIDE DEF j
  <2>2. info' = j
    BY <1>5, Zenon DEF j
  <2> QED BY <2>1, <2>2, Zenon
<1>8. schedulable'[to] = <<>> /\ \A u \in Tasks \ {to} : schedulable'[u] = q1[u]
  BY <1>3, <1>5, <1>6, Zenon
<1>9. Exact(info', schedulable', C \ {to})
  BY <1>3, <1>6, <1>7, <1>8, Zenon DEF Exact
<1> QED BY <1>2, <1>5, <1>6, <1>7, <1>9, Zenon

-----------------------------------------------------------------------------
(* The frame is about to wake a task.                                      *)
Waking(f) == f.op = "wake" /\ f.pc \in {"lock", "cli", "crit"}

(* The step neither adds nor ends a wake-up under way.                     *)
SamePending ==
  \A u \in Tasks, l \in Levels :
    /\ WakePending(u, l)' <=> WakePending(u, l)
    /\ WakePending(u, l) => frame'[u][l].target = frame[u][l].target

(* Replacing a frame adds or ends a wake-up at most in that frame.         *)
LEMMA PutPending ==
  ASSUME TypeOK, NEW l \in Levels, NEW f \in Frame, Put(l, f),
         WakePending(cur, l) <=> Waking(f),
         WakePending(cur, l) => f.target = frame[cur][l].target
  PROVE  SamePending
<1> SUFFICES ASSUME NEW u \in Tasks, NEW m \in Levels
             PROVE  /\ WakePending(u, m)' <=> WakePending(u, m)
                    /\ WakePending(u, m) => frame'[u][m].target = frame[u][m].target
  BY Zenon DEF SamePending
<1>1. CASE u = cur /\ m = l
  BY <1>1, Zenon DEF Put, WakePending, Waking
<1>2. CASE u # cur \/ m # l
  BY <1>2, Zenon DEF Put, WakePending
<1> QED BY <1>1, <1>2, Zenon

(* The wake-ups under way keep their targets, as long as the tasks they    *)
(* are to wake stay blocked and out of the queues.                         *)
LEMMA TargetsKept ==
  ASSUME Targets, SamePending, \A t \in Created : t \in Created',
         \A u \in Tasks, l \in Levels : WakePending(u, l) =>
           /\ info'[frame[u][l].target].runnable = FALSE
           /\ frame[u][l].target \notin waiting' \cup sleeping'
  PROVE  Targets'
<1> SUFFICES ASSUME NEW u \in Tasks, NEW l \in Levels, WakePending(u, l)'
             PROVE  (/\ u \in Created
                     /\ frame[u][l].target \in Created
                     /\ info[frame[u][l].target].runnable = FALSE
                     /\ frame[u][l].target \notin waiting \cup sleeping
                     /\ \A v \in Tasks, m \in Levels :
                          WakePending(v, m) /\ frame[v][m].target = frame[u][l].target
                            => v = u /\ m = l)'
  BY Zenon DEF Targets
<1>1. WakePending(u, l) /\ frame'[u][l].target = frame[u][l].target
  BY Zenon DEF SamePending
<1>2. \A v \in Tasks, m \in Levels : WakePending(v, m)' =>
        WakePending(v, m) /\ frame'[v][m].target = frame[v][m].target
  BY Zenon DEF SamePending
<1>3. /\ u \in Created /\ frame[u][l].target \in Created
      /\ \A v \in Tasks, m \in Levels :
           WakePending(v, m) /\ frame[v][m].target = frame[u][l].target => v = u /\ m = l
  BY <1>1, Zenon DEF Targets
<1>4. /\ u \in Created' /\ frame'[u][l].target \in Created'
      /\ info'[frame'[u][l].target].runnable = FALSE
      /\ frame'[u][l].target \notin waiting' \cup sleeping'
  BY <1>1, <1>3, Zenon
<1>5. ASSUME NEW v \in Tasks, NEW m \in Levels, WakePending(v, m)',
             frame'[v][m].target = frame'[u][l].target
      PROVE  v = u /\ m = l
  <2>1. WakePending(v, m) /\ frame[v][m].target = frame[u][l].target
    BY <1>1, <1>2, <1>5, Zenon
  <2> QED BY <1>3, <2>1, Zenon
<1> QED BY <1>4, <1>5, Zenon

(* A blocked task keeps its waker, as long as nobody leaves the queues.    *)
LEMMA BlockedKept ==
  ASSUME Blocked, SamePending, waiting \cup sleeping \subseteq waiting' \cup sleeping',
         \A t \in Created' : info'[t].runnable = FALSE =>
           \/ t \in waiting' \cup sleeping'
           \/ t \in Created /\ info[t].runnable = FALSE
  PROVE  Blocked'
<1> SUFFICES ASSUME NEW t \in Created', info'[t].runnable = FALSE,
                    t \notin waiting' \cup sleeping'
             PROVE  (\E u \in Tasks, l \in Levels : WakePending(u, l) /\ frame[u][l].target = t)'
  BY Zenon DEF Blocked
<1>1. PICK u \in Tasks, l \in Levels : WakePending(u, l) /\ frame[u][l].target = t
  BY Zenon DEF Blocked
<1>2. WakePending(u, l)' /\ frame'[u][l].target = t
  BY <1>1, Zenon DEF SamePending
<1> QED BY <1>2, Zenon

(* The wakers are as they were if only tasks that nobody wakes change.     *)
LEMMA SamePendingWakers ==
  ASSUME IInv, QInv, SamePending, nextTaskId' = nextTaskId, waiting' = waiting, sleeping' = sleeping,
         \A t \in Tasks : info'[t].runnable = info[t].runnable
  PROVE  Targets' /\ Queued' /\ Blocked'
<1>1. Created' = Created /\ Created \in SUBSET Tasks
  BY Zenon DEF Created, Tasks
<1>2. Queued'
  BY <1>1, Zenon DEF IInv, TypeOK, QInv, Queued
<1>3. Targets'
  <2>1. Targets
    BY Zenon DEF QInv
  <2>2. \A u \in Tasks, l \in Levels : WakePending(u, l) =>
          /\ info'[frame[u][l].target].runnable = FALSE
          /\ frame[u][l].target \notin waiting' \cup sleeping'
    BY <1>1, <2>1, Zenon DEF Targets
  <2> QED BY <1>1, <2>1, <2>2, TargetsKept, Zenon
<1>4. Blocked'
  <2>1. Blocked
    BY Zenon DEF QInv
  <2>2. \A t \in Created' : info'[t].runnable = FALSE => t \in Created /\ info[t].runnable = FALSE
    BY <1>1, Zenon
  <2> QED BY <2>1, <2>2, BlockedKept, Zenon
<1> QED BY <1>2, <1>3, <1>4, ZenonT(60)

(* A step within a frame that wakes nobody keeps the invariant.            *)
LEMMA QuietKeeps ==
  ASSUME IInv, QInv, SamePending, IdleCalls',
         UNCHANGED <<nextTaskId, info, schedulable, cur, waiting, sleeping>>
  PROVE  QInv'
<1>1. Targets' /\ Queued' /\ Blocked'
  BY SamePendingWakers, Zenon
<1>2. Created' = Created
  BY Zenon DEF Created, Tasks
<1>3. Exact(info, schedulable, Created \ {cur})'
  BY <1>2, Zenon DEF QInv, Exact, Tasks
<1> QED BY <1>1, <1>2, <1>3, ZenonT(60) DEF QInv, Deadline, IdleRuns

(* The same, for a step that replaces one frame.                           *)
LEMMA PutKeeps ==
  ASSUME IInv, QInv, NEW l \in Levels, NEW f \in Frame, Put(l, f),
         WakePending(cur, l) <=> Waking(f),
         WakePending(cur, l) => f.target = frame[cur][l].target,
         cur = Idle => f.op \notin {"wait", "sleep"},
         UNCHANGED <<nextTaskId, info, schedulable, cur, waiting, sleeping>>
  PROVE  QInv'
<1>1. SamePending
  BY PutPending, Zenon DEF IInv
<1>2. IdleCalls'
  BY IdleTask, Zenon DEF QInv, IdleCalls, Put
<1> QED BY <1>1, <1>2, QuietKeeps, Zenon

-----------------------------------------------------------------------------

(* lock() changes no more than its frame's place.                          *)
LEMMA LockQueue == IInv /\ QInv /\ (LockRead \/ LockAcquire) => QInv'
<1> SUFFICES ASSUME IInv, QInv, LockRead \/ LockAcquire PROVE QInv'
  OBVIOUS
<1>1. Level(cur) \in Levels /\ Top(cur) \in Frame /\ cur \in Tasks
  BY TopFrame, Zenon DEF IInv
<1>2. /\ UNCHANGED <<nextTaskId, info, schedulable, cur, waiting, sleeping>>
      /\ Top(cur).pc \in {"lock", "cli"}
  BY Zenon DEF LockRead, LockAcquire, taskVars, cpuVars, waitVars, At
<1>3. PICK f \in Frame :
        /\ f.pc \in {"cli", "crit"} /\ f.op = Top(cur).op /\ f.target = Top(cur).target
        /\ Put(Level(cur), f)
  <2>1. CASE LockRead
    <3> DEFINE f == ReadOf(Top(cur), intr)
    <3>1. intr \in BOOLEAN
      BY Zenon DEF IInv, TypeOK
    <3>2. f \in Frame /\ f.pc = "cli" /\ f.op = Top(cur).op /\ f.target = Top(cur).target
      BY <1>1, <3>1, ReadFrame, Zenon
    <3>3. frame' = [frame EXCEPT ![cur][Level(cur)] = f]
      BY <1>1, <2>1, Zenon DEF LockRead, Top, ReadOf
    <3> HIDE DEF f
    <3>4. Put(Level(cur), f)
      BY <1>1, <3>2, <3>3, PutFrame, Zenon DEF IInv
    <3> QED BY <3>2, <3>4, Zenon
  <2>2. CASE LockAcquire
    <3>1. frame' = SetPc("crit") /\ "crit" \in Places
      BY <2>2, Zenon DEF LockAcquire, Places
    <3> QED BY <3>1, PutPc, Zenon DEF IInv
  <2> QED BY <2>1, <2>2, Zenon
<1>4. /\ WakePending(cur, Level(cur)) <=> Waking(f)
      /\ f.target = frame[cur][Level(cur)].target
  BY <1>2, <1>3, Zenon DEF WakePending, Waking, Top
<1>5. cur = Idle => f.op \notin {"wait", "sleep"}
  BY <1>1, <1>3, Zenon DEF QInv, IdleCalls, Top
<1> QED BY <1>1, <1>2, <1>3, <1>4, <1>5, PutKeeps, ZenonT(60)

(* A section that is left without a switch.                                *)
LEMMA LeaveQueue == IInv /\ QInv /\ (WaitPass \/ KeepRunning) => QInv'
<1> SUFFICES ASSUME IInv, QInv, WaitPass \/ KeepRunning PROVE QInv'
  OBVIOUS
<1>1. Level(cur) \in Levels /\ Top(cur) \in Frame /\ cur \in Tasks
  BY TopFrame DEF IInv
<1>2. /\ UNCHANGED <<nextTaskId, info, schedulable, cur, waiting, sleeping>>
      /\ Top(cur).op \in {"wait", "check"} /\ frame' = SetPc("drop") /\ "drop" \in Places
  BY Zenon DEF WaitPass, KeepRunning, InCrit, taskVars, cpuVars, waitVars, Places
<1>3. PICK f \in Frame : f.pc = "drop" /\ f.op = Top(cur).op /\ Put(Level(cur), f)
  BY <1>2, PutPc, Zenon DEF IInv
<1>4. ~WakePending(cur, Level(cur)) /\ ~Waking(f)
  BY <1>2, <1>3, Zenon DEF WakePending, Waking, Top
<1>5. cur = Idle => f.op \notin {"wait", "sleep"}
  BY <1>1, <1>3, Zenon DEF QInv, IdleCalls, Top
<1> QED BY <1>1, <1>2, <1>3, <1>4, <1>5, PutKeeps, Zenon

(* The drop of the guard.                                                  *)
LEMMA DropQueue == IInv /\ QInv /\ Drop => QInv'
<1> SUFFICES ASSUME IInv, QInv, Drop PROVE QInv'
  OBVIOUS
<1>1. Level(cur) \in Levels /\ Top(cur) \in Frame /\ cur \in Tasks
  BY TopFrame, Zenon DEF IInv
<1>2. /\ UNCHANGED <<nextTaskId, info, schedulable, cur, waiting, sleeping>>
      /\ Top(cur).pc = "drop"
      /\ frame' = [frame EXCEPT ![cur][Level(cur)] = AfterDrop(Level(cur), Top(cur))]
  BY Zenon DEF Drop, taskVars, cpuVars, waitVars, At
<1> DEFINE f == AfterDrop(Level(cur), Top(cur))
<1>3. f \in Frame /\ f.op \in {"none", "boot", "check"}
  <2>1. CASE Level(cur) = "thread"
    <3>1. f = Body("boot") \/ f = Body("none")
      BY <2>1, Zenon DEF AfterDrop
    <3> QED BY <3>1, BodyFrame, Zenon DEF Ops
  <2>2. CASE Level(cur) = "trap" /\ Top(cur).op = "check"
    <3>1. f = [Top(cur) EXCEPT !.pc = "iret"]
      BY <2>2, Zenon DEF AfterDrop
    <3> QED BY <1>1, <2>2, <3>1, Zenon DEF Frame, Places
  <2>3. CASE Level(cur) = "trap" /\ Top(cur).op # "check"
    <3>1. f = CheckOf(Top(cur))
      BY <2>3, Zenon DEF AfterDrop, CheckOf
    <3> QED BY <1>1, <3>1, CheckFrame, ZenonT(60)
  <2> QED BY <1>1, <2>1, <2>2, <2>3, Zenon DEF Levels
<1> HIDE DEF f
<1>4. Put(Level(cur), f)
  BY <1>1, <1>2, <1>3, PutFrame, Zenon DEF IInv, f
<1>5. ~WakePending(cur, Level(cur)) /\ ~Waking(f)
  BY <1>2, <1>3, Zenon DEF WakePending, Waking, Top
<1> QED BY <1>1, <1>2, <1>3, <1>4, <1>5, PutKeeps, Zenon

(* A thread that turns interrupts on or calls new_task or wait.            *)
LEMMA ThreadQueue == IInv /\ QInv /\ (EnableInterrupts \/ CallNewTask \/ CallWait) => QInv'
<1> SUFFICES ASSUME IInv, QInv, EnableInterrupts \/ CallNewTask \/ CallWait PROVE QInv'
  OBVIOUS
<1>1. /\ UNCHANGED <<nextTaskId, info, schedulable, cur, waiting, sleeping>>
      /\ At("body") /\ Top(cur).pc = "body"
  BY Zenon DEF EnableInterrupts, CallNewTask, CallWait, Running, taskVars, cpuVars, waitVars, At
<1>2. cur \in Tasks /\ Top(cur) = frame[cur]["thread"] /\ Top(cur) \in Frame /\ "thread" \in Levels
  BY <1>1, RunningThread, TopFrame, Zenon DEF IInv, Levels
<1>3. PICK f \in Frame :
        /\ f.op \in {"none", "new", "wait"} /\ (cur = Idle => f.op # "wait")
        /\ frame' = [frame EXCEPT ![cur]["thread"] = f]
  <2>1. CASE EnableInterrupts
    <3>1. Body("none") \in Frame /\ Body("none").op = "none"
      BY BodyFrame, Zenon DEF Ops
    <3> QED BY <2>1, <3>1, Zenon DEF EnableInterrupts
  <2>2. CASE CallNewTask \/ CallWait
    <3>1. PICK o \in {"new", "wait"} : frame' = Call(o, Idle) /\ (cur = Idle => o # "wait")
      BY <2>2, Zenon DEF CallNewTask, CallWait
    <3> DEFINE f == CallOf(frame[cur]["thread"], o, Idle)
    <3>2. f \in Frame /\ f.op = o
      <4>1. o \in Ops /\ frame[cur]["thread"] \in Frame
        BY <1>2, Zenon DEF Ops
      <4> QED BY <4>1, IdleTask, CallFrame
    <3>3. frame' = [frame EXCEPT ![cur]["thread"] = f]
      BY <1>2, <3>1, Zenon DEF Call, CallOf
    <3> HIDE DEF f
    <3> QED BY <3>1, <3>2, <3>3, Zenon
  <2> QED BY <2>1, <2>2, Zenon
<1>4. Put("thread", f)
  BY <1>2, <1>3, PutFrame, Zenon DEF IInv
<1>5. ~WakePending(cur, "thread") /\ ~Waking(f)
  BY <1>1, <1>2, <1>3, Zenon DEF WakePending, Waking
<1> QED BY <1>1, <1>2, <1>3, <1>4, <1>5, PutKeeps, Zenon

(* The entry of a trap and its iretq.                                      *)
LEMMA TrapQueue == IInv /\ QInv /\ (Syscall \/ Interrupt \/ Iret) => QInv'
<1> SUFFICES ASSUME IInv, QInv, Syscall \/ Interrupt \/ Iret PROVE QInv'
  OBVIOUS
<1>1. UNCHANGED <<nextTaskId, info, schedulable, cur, waiting, sleeping>>
  BY Zenon DEF Syscall, Interrupt, Iret, taskVars, waitVars
<1>2. cur \in Tasks /\ Top(cur) \in Frame /\ "trap" \in Levels /\ intr \in BOOLEAN
  BY TopFrame, Zenon DEF IInv, TypeOK, Levels
<1>3. frame[cur]["trap"].pc \in {"none", "iret"}
  <2>1. CASE Syscall
    BY <2>1, RunningThread, Zenon DEF Syscall, Running, Level
  <2>2. CASE Interrupt
    BY <2>2, Zenon DEF Interrupt, IInv, Masked
  <2>3. CASE Iret
    BY <2>3, TopFrame, Zenon DEF Iret, At, Top, Level
  <2> QED BY <2>1, <2>2, <2>3, Zenon
<1>4. PICK f \in Frame :
        /\ f.op \in {"none", "yield", "sleep", "irq"} /\ (cur = Idle => f.op # "sleep")
        /\ frame' = [frame EXCEPT ![cur]["trap"] = f]
  <2>1. CASE Syscall \/ Interrupt
    <3>1. PICK p \in {"lock", "handler"}, o \in {"yield", "sleep", "irq"} :
            frame' = Trap(p, o) /\ (cur = Idle => o # "sleep")
      <4>1. CASE Syscall
        BY <4>1, Zenon DEF Syscall
      <4>2. CASE Interrupt
        BY <4>2, Zenon DEF Interrupt, IInv, Masked, Level
      <4> QED BY <2>1, <4>1, <4>2, Zenon
    <3> DEFINE f == TrapOf(p, o, intr)
    <3>2. f \in Frame /\ f.op = o
      <4>1. p \in Places /\ o \in Ops
        BY Zenon DEF Places, Ops
      <4> QED BY <1>2, <4>1, IdleTask, Zenon DEF TrapOf, NoFrame, Frame
    <3>3. frame' = [frame EXCEPT ![cur]["trap"] = f]
      BY <3>1, Zenon DEF Trap, TrapOf
    <3> HIDE DEF f
    <3> QED BY <3>1, <3>2, <3>3, Zenon
  <2>2. CASE Iret
    <3>1. frame' = [frame EXCEPT ![cur]["trap"] = NoFrame]
      BY <2>2, Zenon DEF Iret
    <3> QED BY <3>1, EmptyFrame, Zenon
  <2> QED BY <2>1, <2>2, Zenon
<1>5. Put("trap", f)
  BY <1>2, <1>4, PutFrame, Zenon DEF IInv
<1>6. ~WakePending(cur, "trap") /\ ~Waking(f)
  BY <1>3, <1>4, Zenon DEF WakePending, Waking
<1> QED BY <1>1, <1>2, <1>4, <1>5, <1>6, PutKeeps, Zenon

(* Steps that leave the frames alone.                                      *)
LEMMA StillQueue ==
  ASSUME IInv, QInv, UNCHANGED <<nextTaskId, info, schedulable, cur, frame, waiting, sleeping>>
  PROVE  QInv'
<1>1. SamePending /\ IdleCalls'
  BY Zenon DEF SamePending, WakePending, QInv, IdleCalls
<1> QED BY <1>1, QuietKeeps, Zenon

-----------------------------------------------------------------------------

(* Popping a waiter moves it from the queue to the context that wakes it.  *)
LEMMA PopQueue ==
  ASSUME IInv, QInv, NEW l \in Levels, NEW f \in Frame, Put(l, f), NEW t \in waiting,
         ~WakePending(cur, l), f.pc = "lock", f.op = "wake", f.target = t, cur \in Created,
         waiting' = waiting \ {t},
         UNCHANGED <<nextTaskId, info, schedulable, cur, sleeping>>
  PROVE  QInv'
<1>1. Created' = Created /\ t \in Created /\ cur \in Tasks
  BY Zenon DEF IInv, Known, Created, Tasks, TypeOK
<1>2. /\ WakePending(cur, l)' /\ frame'[cur][l].target = t
      /\ \A u \in Tasks, m \in Levels : (u # cur \/ m # l) =>
           (WakePending(u, m)' <=> WakePending(u, m)) /\ frame'[u][m].target = frame[u][m].target
  BY <1>1, Zenon DEF Put, WakePending
<1>3. t \notin sleeping /\ info[t].runnable = FALSE
  BY Zenon DEF QInv, Queued
<1>4. \A u \in Tasks, m \in Levels : WakePending(u, m) => frame[u][m].target # t
  BY Zenon DEF QInv, Targets
<1>5. Targets'
  <2> SUFFICES ASSUME NEW u \in Tasks, NEW m \in Levels, WakePending(u, m)'
               PROVE  (/\ u \in Created
                       /\ frame[u][m].target \in Created
                       /\ info[frame[u][m].target].runnable = FALSE
                       /\ frame[u][m].target \notin waiting \cup sleeping
                       /\ \A v \in Tasks, k \in Levels :
                            WakePending(v, k) /\ frame[v][k].target = frame[u][m].target
                              => v = u /\ k = m)'
    BY ZenonT(60) DEF Targets
  <2>1. CASE u = cur /\ m = l
    BY <1>1, <1>2, <1>3, <1>4, <2>1, ZenonT(60)
  <2>2. CASE u # cur \/ m # l
    BY <1>1, <1>2, <1>3, <1>4, <2>2, SMTT(60) DEF QInv, Targets
  <2> QED BY <2>1, <2>2, Zenon
<1>6. Queued'
  BY Zenon DEF QInv, Queued
<1>7. Blocked'
  BY <1>1, <1>2, SMTT(60) DEF QInv, Blocked
<1>8. Exact(info, schedulable, Created \ {cur})'
  BY <1>1, Zenon DEF QInv, Exact, Tasks
<1>9. IdleCalls'
  BY IdleTask, Zenon DEF QInv, IdleCalls, Put
<1> QED BY <1>1, <1>5, <1>6, <1>7, <1>8, <1>9, ZenonT(60) DEF QInv, Deadline, IdleRuns

(* The second half of a semaphore operation, in a thread or a handler.     *)
LEMMA PopperQueue == IInv /\ QInv /\ (CallWake \/ DeviceHandler) => QInv'
<1> SUFFICES ASSUME IInv, QInv, CallWake \/ DeviceHandler PROVE QInv'
  OBVIOUS
<1>1. Level(cur) \in Levels /\ Top(cur) \in Frame /\ cur \in Tasks
  BY TopFrame DEF IInv
<1>2. /\ UNCHANGED <<nextTaskId, info, schedulable, cur, sleeping>>
      /\ Top(cur).pc \in {"body", "handler"} /\ Top(cur).op \in {"none", "irq"}
  <2>1. CASE CallWake
    BY <2>1, Zenon DEF CallWake, Running, At, taskVars, cpuVars
  <2>2. CASE DeviceHandler
    <3>1. At("handler")
      BY <2>2, Zenon DEF DeviceHandler
    <3>2. Top(cur) = frame[cur]["trap"]
      BY <3>1, HandlerTrap, Zenon
    <3>3. Top(cur).pc = "handler" /\ Top(cur).op = "irq"
      BY <1>1, <3>1, <3>2, ZenonT(60) DEF IInv, Shape, TrapOK, At
    <3> QED BY <2>2, <3>3, Zenon DEF DeviceHandler, taskVars, cpuVars
  <2> QED BY <2>1, <2>2, ZenonT(60)
<1>3. PICK t \in waiting : /\ waiting' = waiting \ {t}
                           /\ frame' = [frame EXCEPT ![cur][Level(cur)] = CallOf(Top(cur), "wake", t)]
  <2>1. CASE CallWake
    <3>1. Level(cur) = "thread" /\ Top(cur) = frame[cur]["thread"]
      BY <2>1, RunningThread, Zenon DEF CallWake, Running
    <3> QED BY <2>1, <3>1, Zenon DEF CallWake, Call, CallOf
  <2>2. CASE DeviceHandler
    <3>1. Level(cur) = "trap" /\ Top(cur) = frame[cur]["trap"]
      <4>1. At("handler")
        BY <2>2, Zenon DEF DeviceHandler
      <4> QED BY <4>1, HandlerTrap, Zenon
    <3> QED BY <2>2, <3>1, Zenon DEF DeviceHandler, CallOf
  <2> QED BY <2>1, <2>2, ZenonT(60)
<1> DEFINE f == CallOf(Top(cur), "wake", t)
<1>4. t \in Tasks /\ "wake" \in Ops
  BY Zenon DEF IInv, TypeOK, Ops
<1>5. f \in Frame /\ f.pc = "lock" /\ f.op = "wake" /\ f.target = t
  BY <1>1, <1>4, CallFrame
<1>6. frame' = [frame EXCEPT ![cur][Level(cur)] = f]
  BY <1>3, ZenonT(60)
<1> HIDE DEF f
<1>7. Put(Level(cur), f)
  BY <1>1, <1>5, <1>6, PutFrame, Zenon DEF IInv
<1>8. ~WakePending(cur, Level(cur)) /\ cur \in Created
  BY <1>2, AliveCreated, ZenonT(60) DEF WakePending, Top
<1> QED BY <1>1, <1>2, <1>3, <1>5, <1>7, <1>8, PopQueue, ZenonT(60)

(* Making the blocked tasks of D runnable, with the contexts that were to  *)
(* wake them done and their callbacks gone, keeps the invariant.           *)
LEMMA WokenKeeps ==
  ASSUME IInv, QInv, NEW D \in SUBSET Created, cur \in Created,
         \A t \in D : info[t].runnable = FALSE /\ t \notin waiting,
         \A t \in Tasks :
           /\ t \in D => info'[t].runnable = TRUE /\ schedulable'[t] = <<info[t].total_runtime>>
           /\ t \notin D => info'[t].runnable = info[t].runnable /\ schedulable'[t] = schedulable[t]
           /\ info'[t].total_runtime = info[t].total_runtime
           /\ info'[t].last_scheduled = info[t].last_scheduled
           /\ info'[t].run_until = info[t].run_until,
         waiting' = waiting, sleeping' = sleeping \ D,
         \A u \in Tasks, l \in Levels :
           /\ WakePending(u, l)' <=> WakePending(u, l) /\ frame[u][l].target \notin D
           /\ WakePending(u, l)' => frame'[u][l].target = frame[u][l].target,
         IdleCalls', UNCHANGED <<nextTaskId, cur>>
  PROVE  QInv' /\ \E W \in SUBSET Tasks : Wakes(W)
<1>1. Created' = Created /\ Created \in SUBSET Tasks /\ cur \in Tasks
  BY ZenonT(60) DEF Created, Tasks, IInv, TypeOK
<1>2. cur \notin D /\ Deadline(info[cur])
  BY Zenon DEF QInv, Deadline
<1>3. Exact(info, schedulable, Created \ {cur})'
  <2>1. Exact(info', schedulable', Created \ {cur})
    <3> SUFFICES ASSUME NEW t \in Tasks
                 PROVE  /\ t \in Created \ {cur} /\ info'[t].runnable = TRUE
                             => schedulable'[t] = <<info'[t].total_runtime>>
                        /\ ~(t \in Created \ {cur} /\ info'[t].runnable = TRUE)
                             => schedulable'[t] = <<>>
      BY Zenon DEF Exact
    <3>1. CASE t \in D
      <4>1. t \in Created \ {cur}
        BY <1>2, <3>1, Zenon
      <4>2. /\ info'[t].runnable = TRUE /\ schedulable'[t] = <<info[t].total_runtime>>
            /\ info'[t].total_runtime = info[t].total_runtime
        BY <3>1, Zenon
      <4> QED BY <4>1, <4>2, ZenonT(60)
    <3>2. CASE t \notin D
      <4>1. /\ info'[t].runnable = info[t].runnable /\ schedulable'[t] = schedulable[t]
            /\ info'[t].total_runtime = info[t].total_runtime
        BY <3>2, Zenon
      <4>2. /\ t \in Created \ {cur} /\ info[t].runnable = TRUE
                 => schedulable[t] = <<info[t].total_runtime>>
            /\ ~(t \in Created \ {cur} /\ info[t].runnable = TRUE) => schedulable[t] = <<>>
        BY Zenon DEF QInv, Exact
      <4> QED BY <4>1, <4>2, ZenonT(60)
    <3> QED BY <3>1, <3>2, Zenon
  <2> QED BY <1>1, <2>1, ZenonT(60)
<1>4. Deadline(info[cur])'
  BY <1>1, <1>2, ZenonT(60) DEF Deadline
<1>5. Queued'
  BY <1>1, ZenonT(60) DEF IInv, TypeOK, QInv, Queued
<1>6. Targets'
  BY <1>1, SMTT(60) DEF QInv, Targets
<1>7. Blocked'
  BY <1>1, SMTT(60) DEF QInv, Blocked
<1>8. IdleRuns'
  BY <1>1, IdleTask, ZenonT(60) DEF QInv, IdleRuns
<1>9. D \in SUBSET Tasks /\ Wakes(D)
  BY <1>1, Zenon DEF Wakes
<1> QED BY <1>3, <1>4, <1>5, <1>6, <1>7, <1>8, <1>9, ZenonT(60) DEF QInv

(* wake() makes the one task runnable that its context was to wake.        *)
LEMMA WakeQueue ==
  ASSUME IInv, QInv, Wake
  PROVE  QInv' /\ \E W \in SUBSET Tasks : Wakes(W)
<1>1. Level(cur) \in Levels /\ Top(cur) \in Frame /\ cur \in Tasks
  BY TopFrame DEF IInv
<1>2. /\ UNCHANGED <<nextTaskId, cur, waiting, sleeping>>
      /\ Top(cur).pc = "crit" /\ Top(cur).op = "wake"
      /\ frame' = SetPc("drop") /\ "drop" \in Places
  BY Zenon DEF Wake, InCrit, At, cpuVars, waitVars, Places
<1>3. PICK f \in Frame : f.pc = "drop" /\ f.op = Top(cur).op /\ Put(Level(cur), f)
  BY <1>2, PutPc, Zenon DEF IInv
<1> DEFINE t == Top(cur).target
<1>4. WakePending(cur, Level(cur)) /\ t = frame[cur][Level(cur)].target /\ cur \in Created
  BY <1>2, AliveCreated, ZenonT(60) DEF WakePending, Top
<1>5. /\ t \in Created /\ info[t].runnable = FALSE /\ t \notin waiting /\ t \notin sleeping
      /\ \A v \in Tasks, m \in Levels :
           WakePending(v, m) /\ frame[v][m].target = t => v = cur /\ m = Level(cur)
  BY <1>1, <1>4 DEF QInv, Targets
<1>6. /\ info' = SetRunnable(info, t, TRUE)
      /\ schedulable' = SetRunnableQueue(schedulable, info, t, TRUE)
  BY Zenon DEF Wake
<1> HIDE DEF t
<1>7. t \in Tasks /\ info \in [Tasks -> TaskInfo] /\ schedulable \in [Tasks -> Seq(Nat)]
  BY <1>5, ZenonT(60) DEF Created, IInv, TypeOK
<1>8. /\ info'[t].runnable = TRUE
      /\ \A u \in Tasks \ {t} : info'[u].runnable = info[u].runnable
      /\ \A u \in Tasks : /\ info'[u].total_runtime = info[u].total_runtime
                          /\ info'[u].last_scheduled = info[u].last_scheduled
                          /\ info'[u].run_until = info[u].run_until
  BY <1>6, <1>7, Zenon DEF SetRunnable, TaskInfo
<1>9. /\ schedulable'[t] = <<info[t].total_runtime>>
      /\ \A u \in Tasks \ {t} : schedulable'[u] = schedulable[u]
  <2> DEFINE p == SetRunnableQueue(schedulable, info, t, TRUE)
  <2>1. p[t] = <<info[t].total_runtime>> /\ \A u \in Tasks \ {t} : p[u] = schedulable[u]
    BY <1>7, QueueOn, ZenonT(60)
  <2>2. schedulable' = p
    BY <1>6, Zenon
  <2> HIDE DEF p
  <2> QED BY <2>1, <2>2, ZenonT(60)
<1>10. ASSUME NEW u \in Tasks, NEW l \in Levels
       PROVE  /\ WakePending(u, l)' <=> WakePending(u, l) /\ frame[u][l].target \notin {t}
              /\ WakePending(u, l)' => frame'[u][l].target = frame[u][l].target
  <2>1. CASE u = cur /\ l = Level(cur)
    BY <1>3, <1>4, <2>1, ZenonT(60) DEF Put, WakePending
  <2>2. CASE u # cur \/ l # Level(cur)
    BY <1>3, <1>5, <2>2, ZenonT(60) DEF Put, WakePending
  <2> QED BY <2>1, <2>2, ZenonT(60)
<1>11. IdleCalls'
  BY <1>1, <1>2, <1>3, IdleTask, ZenonT(60) DEF QInv, IdleCalls, Put
<1> DEFINE D == {t}
<1>12. /\ D \in SUBSET Created /\ sleeping' = sleeping \ D
       /\ \A u \in D : info[u].runnable = FALSE /\ u \notin waiting
  BY <1>2, <1>5, ZenonT(60)
<1>13. \A u \in Tasks :
         /\ u \in D => info'[u].runnable = TRUE /\ schedulable'[u] = <<info[u].total_runtime>>
         /\ u \notin D => info'[u].runnable = info[u].runnable /\ schedulable'[u] = schedulable[u]
         /\ info'[u].total_runtime = info[u].total_runtime
         /\ info'[u].last_scheduled = info[u].last_scheduled
         /\ info'[u].run_until = info[u].run_until
  BY <1>8, <1>9, Zenon
<1>14. \A u \in Tasks, l \in Levels :
         /\ WakePending(u, l)' <=> WakePending(u, l) /\ frame[u][l].target \notin D
         /\ WakePending(u, l)' => frame'[u][l].target = frame[u][l].target
  BY <1>10, Zenon
<1> HIDE DEF D
<1> QED BY <1>2, <1>4, <1>11, <1>12, <1>13, <1>14, WokenKeeps, Zenon

(* The timer handler makes the sleepers runnable whose callbacks it runs.  *)
LEMMA TimerQueue ==
  ASSUME IInv, QInv, TimerHandler
  PROVE  QInv' /\ \E W \in SUBSET Tasks : Wakes(W)
<1>1. Level(cur) \in Levels /\ Top(cur) \in Frame /\ cur \in Tasks
  BY TopFrame DEF IInv
<1>2. UNCHANGED <<nextTaskId, cur, waiting>> /\ At("handler") /\ Top(cur).pc = "handler"
  BY Zenon DEF TimerHandler, At
<1>3. Level(cur) = "trap" /\ Top(cur) = frame[cur]["trap"]
  BY <1>2, HandlerTrap, ZenonT(60)
<1>4. PICK due \in SUBSET sleeping :
       /\ sleeping' = sleeping \ due
       /\ info' = [t \in Tasks |-> [info[t] EXCEPT !.runnable = @ \/ t \in due]]
       /\ schedulable' = [t \in Tasks |-> IF t \in due THEN <<info[t].total_runtime>>
                                                       ELSE schedulable[t]]
  BY Zenon DEF TimerHandler
<1> DEFINE f == CheckOf(Top(cur))
<1>5. f \in Frame /\ f.op = "check"
  BY <1>1, CheckFrame, Zenon
<1>6. frame' = [frame EXCEPT ![cur][Level(cur)] = f]
  BY <1>3, Zenon DEF TimerHandler, CheckOf
<1> HIDE DEF f
<1>7. Put(Level(cur), f)
  BY <1>1, <1>5, <1>6, PutFrame, Zenon DEF IInv
<1>8. SamePending
  <2>1. ~WakePending(cur, Level(cur)) /\ ~Waking(f)
    BY <1>2, <1>5, Zenon DEF WakePending, Waking, Top
  <2> QED BY <1>1, <1>5, <1>7, <2>1, PutPending, ZenonT(60) DEF IInv
<1>9. IdleCalls'
  BY <1>1, <1>5, <1>7, IdleTask, ZenonT(60) DEF QInv, IdleCalls, Put
<1>10. cur \in Created
  <2>1. Top(cur).op = "irq"
    BY <1>1, <1>2, <1>3, ZenonT(60) DEF IInv, Shape, TrapOK
  <2> QED BY <2>1, AliveCreated, ZenonT(60)
<1>11. due \in SUBSET Created /\ \A t \in due : info[t].runnable = FALSE /\ t \notin waiting
  BY <1>4, Zenon DEF IInv, Known, QInv, Queued
<1>12. ASSUME NEW t \in Tasks
       PROVE
         /\ t \in due => info'[t].runnable = TRUE /\ schedulable'[t] = <<info[t].total_runtime>>
         /\ t \notin due => info'[t].runnable = info[t].runnable /\ schedulable'[t] = schedulable[t]
         /\ info'[t].total_runtime = info[t].total_runtime
         /\ info'[t].last_scheduled = info[t].last_scheduled
         /\ info'[t].run_until = info[t].run_until
  <2>1. info[t] \in TaskInfo /\ info[t].runnable \in BOOLEAN
    BY ZenonT(60) DEF IInv, TypeOK, TaskInfo
  <2>2. /\ info'[t] = [info[t] EXCEPT !.runnable = @ \/ t \in due]
        /\ schedulable'[t] = IF t \in due THEN <<info[t].total_runtime>> ELSE schedulable[t]
    BY <1>4, Zenon
  <2>3. /\ info'[t].runnable = (info[t].runnable \/ t \in due)
        /\ info'[t].total_runtime = info[t].total_runtime
        /\ info'[t].last_scheduled = info[t].last_scheduled
        /\ info'[t].run_until = info[t].run_until
    BY <2>1, <2>2, Zenon DEF TaskInfo
  <2> QED BY <2>1, <2>2, <2>3, Zenon
<1>13. \A u \in Tasks, l \in Levels :
         /\ WakePending(u, l)' <=> WakePending(u, l) /\ frame[u][l].target \notin due
         /\ WakePending(u, l)' => frame'[u][l].target = frame[u][l].target
  BY <1>4, <1>8, Zenon DEF SamePending, QInv, Targets
<1> QED BY <1>2, <1>4, <1>9, <1>10, <1>11, <1>12, <1>13, WokenKeeps, ZenonT(60)

-----------------------------------------------------------------------------

(* A switch wakes nobody, and what it does to the heap is SwitchExact.     *)
LEMMA SwitchStep ==
  ASSUME LowestFound, IInv, QInv,
         At("crit"), Top(cur).op \in {"yield", "sleep", "wait", "check"},
         NEW i \in [Tasks -> TaskInfo], NEW q \in [Tasks -> Seq(Nat)],
         \A t \in Tasks : i[t].last_scheduled <= time,
         Exact(i, q, Created \ {cur}), i[Idle].runnable = TRUE,
         Switch(i, q, nextTaskId), nextTaskId' = nextTaskId
  PROVE  /\ Exact(info, schedulable, Created \ {cur})'
         /\ Deadline(info[cur])'
         /\ \A t \in Tasks : info'[t].runnable = i[t].runnable
         /\ RunsLeast(info', cur', Created)
         /\ SamePending /\ IdleCalls'
         /\ Created' = Created /\ Idle \in Created /\ cur \in Created /\ cur' \in Created
<1>1. Level(cur) \in Levels /\ Top(cur) \in Frame /\ cur \in Tasks
  BY TopFrame, Zenon DEF IInv
<1>2. nextTaskId \in Nat \ {0} /\ Idle \in Created /\ cur \in Created
  BY AliveCreated, Zenon DEF Alive
<1>3. Created' = Created /\ Created \in SUBSET Tasks
  BY Zenon DEF Created, Tasks
<1>4. /\ cur' \in Created
      /\ Exact(info', schedulable', Created \ {cur'})
      /\ Deadline(info'[cur'])
      /\ \A t \in Tasks : info'[t].runnable = i[t].runnable
      /\ \A t \in Created : info'[t].runnable = TRUE =>
                              info'[cur'].total_runtime <= info'[t].total_runtime
      /\ frame' = SetPc("drop")
  BY <1>2, <1>3, SwitchExact, Zenon DEF IInv
<1>5. PICK f \in Frame : f.pc = "drop" /\ f.op = Top(cur).op /\ Put(Level(cur), f)
  <2>1. "drop" \in Places
    BY ZenonT(60) DEF Places
  <2> QED BY <1>4, <2>1, PutPc, Zenon DEF IInv
<1>6. ~WakePending(cur, Level(cur)) /\ ~Waking(f)
  BY <1>5, ZenonT(60) DEF WakePending, Waking, Top
<1>7. SamePending
  BY <1>1, <1>5, <1>6, PutPending, ZenonT(60) DEF IInv
<1>8. IdleCalls'
  BY <1>1, <1>5, IdleTask, ZenonT(60) DEF QInv, IdleCalls, Put, Top
<1>9. Exact(info, schedulable, Created \ {cur})'
  BY <1>3, <1>4, Zenon
<1> QED BY <1>2, <1>3, <1>4, <1>7, <1>8, <1>9, Zenon DEF RunsLeast

(* SCHED_YIELD and the preemption of check_runtime.                        *)
LEMMA VoluntaryQueue ==
  ASSUME LowestFound, IInv, QInv, Yield \/ Preempt
  PROVE  QInv' /\ Switches
<1>1. /\ At("crit") /\ Top(cur).op \in {"yield", "sleep", "wait", "check"}
      /\ Switch(info, schedulable, nextTaskId) /\ nextTaskId' = nextTaskId
      /\ waiting' = waiting /\ sleeping' = sleeping
  BY Zenon DEF Yield, Preempt, InCrit, waitVars
<1>2. /\ info \in [Tasks -> TaskInfo] /\ schedulable \in [Tasks -> Seq(Nat)]
      /\ \A t \in Tasks : info[t].last_scheduled <= time
      /\ Exact(info, schedulable, Created \ {cur})
  BY Zenon DEF IInv, TypeOK, Known, QInv
<1>3. info[Idle].runnable = TRUE
  <2>1. Idle \in Created
    BY <1>1, AliveCreated, Zenon DEF Alive
  <2> QED BY <2>1, Zenon DEF QInv, IdleRuns
<1>4. /\ Exact(info, schedulable, Created \ {cur})'
      /\ Deadline(info[cur])'
      /\ \A t \in Tasks : info'[t].runnable = info[t].runnable
      /\ RunsLeast(info', cur', Created)
      /\ SamePending /\ IdleCalls'
      /\ Created' = Created /\ cur \in Created /\ cur' \in Created
  BY <1>1, <1>2, <1>3, SwitchStep, Zenon
<1>5. Targets' /\ Queued' /\ Blocked'
  BY <1>1, <1>4, SamePendingWakers, Zenon
<1>6. IdleRuns'
  BY <1>3, <1>4, IdleTask, Zenon DEF IdleRuns
<1>7. Switches
  BY <1>3, <1>4, IdleTask, ZenonT(60) DEF Switches
<1> QED BY <1>4, <1>5, <1>6, <1>7, ZenonT(60) DEF QInv

(* A task that blocks has just been running: nobody is about to wake it,   *)
(* and it now waits or sleeps.                                             *)
LEMMA BlockingQueue ==
  ASSUME LowestFound, IInv, QInv, Sleep \/ Block
  PROVE  QInv' /\ Switches
<1> DEFINE i == SetRunnable(info, cur, FALSE)
           q == SetRunnableQueue(schedulable, info, cur, FALSE)
<1>1. /\ At("crit") /\ Top(cur).op \in {"sleep", "wait"} /\ Switch(i, q, nextTaskId)
      /\ nextTaskId' = nextTaskId
      /\ \/ waiting' = waiting \cup {cur} /\ sleeping' = sleeping
         \/ sleeping' = sleeping \cup {cur} /\ waiting' = waiting
  BY Zenon DEF Sleep, Block, InCrit
<1>2. cur \in Created /\ cur \in Tasks /\ Idle \in Created /\ Level(cur) \in Levels
  <2>1. Top(cur).op # "init"
    BY <1>1, ZenonT(60)
  <2> QED BY <2>1, AliveCreated, TopFrame, Zenon DEF Created, Alive, IInv
<1>3. cur # Idle
  BY <1>1, <1>2, ZenonT(60) DEF QInv, IdleCalls, Top
<1>4. /\ info \in [Tasks -> TaskInfo] /\ schedulable \in [Tasks -> Seq(Nat)]
      /\ \A t \in Tasks : info[t].last_scheduled <= time
      /\ Exact(info, schedulable, Created \ {cur})
      /\ info[cur].runnable = TRUE /\ info[Idle].runnable = TRUE
  BY <1>2, Zenon DEF IInv, TypeOK, Known, QInv, IdleRuns, Deadline
<1>5. /\ i \in [Tasks -> TaskInfo]
      /\ \A t \in Tasks : i[t].last_scheduled = info[t].last_scheduled
      /\ i[cur].runnable = FALSE /\ \A t \in Tasks \ {cur} : i[t] = info[t]
  BY <1>2, <1>4, Zenon DEF SetRunnable, TaskInfo
<1>6. /\ q \in [Tasks -> Seq(Nat)] /\ q[cur] = <<>>
      /\ \A t \in Tasks \ {cur} : q[t] = schedulable[t]
  BY <1>2, <1>4 DEF SetRunnableQueue
<1> HIDE DEF i, q
<1>7. /\ \A t \in Tasks : i[t].last_scheduled <= time
      /\ i[Idle].runnable = TRUE
  BY <1>3, <1>4, <1>5, IdleTask, Zenon
<1>8. Exact(i, q, Created \ {cur})
  BY <1>4, <1>5, <1>6, Zenon DEF Exact
<1>9. /\ Exact(info, schedulable, Created \ {cur})'
      /\ Deadline(info[cur])'
      /\ \A t \in Tasks : info'[t].runnable = i[t].runnable
      /\ RunsLeast(info', cur', Created)
      /\ SamePending /\ IdleCalls' /\ Created' = Created /\ cur' \in Created
  <2>1. Top(cur).op \in {"yield", "sleep", "wait", "check"}
    BY <1>1, Zenon
  <2> QED BY <1>1, <1>5, <1>6, <1>7, <1>8, <2>1, SwitchStep, Zenon
<1>10. /\ info'[cur].runnable = FALSE
       /\ \A t \in Tasks \ {cur} : info'[t].runnable = info[t].runnable
  BY <1>2, <1>5, <1>9, Zenon
<1>11. cur \notin waiting \cup sleeping
  BY <1>4, ZenonT(60) DEF QInv, Queued
<1>12. \A u \in Tasks, l \in Levels : WakePending(u, l) =>
         frame[u][l].target # cur /\ frame[u][l].target \in Tasks
  BY <1>4, Zenon DEF QInv, Targets, Created
<1>13. /\ waiting' \cup sleeping' = waiting \cup sleeping \cup {cur}
       /\ waiting \cup sleeping \subseteq Tasks /\ Created \subseteq Tasks
  BY <1>1, Zenon DEF IInv, TypeOK, Created
<1>14. Queued'
  <2>1. waiting' \cap sleeping' = {}
    BY <1>1, <1>11, Zenon DEF QInv, Queued
  <2>2. \A t \in waiting' \cup sleeping' : info'[t].runnable = FALSE
    BY <1>10, <1>13, ZenonT(60) DEF QInv, Queued
  <2> QED BY <2>1, <2>2, ZenonT(60) DEF Queued
<1>15. Targets'
  <2>1. Targets
    BY Zenon DEF QInv
  <2>2. \A u \in Tasks, l \in Levels : WakePending(u, l) =>
          /\ info[frame[u][l].target].runnable = FALSE
          /\ frame[u][l].target \notin waiting \cup sleeping
    BY <2>1, Zenon DEF Targets
  <2>3. \A u \in Tasks, l \in Levels : WakePending(u, l) =>
          /\ info'[frame[u][l].target].runnable = FALSE
          /\ frame[u][l].target \notin waiting' \cup sleeping'
    BY <1>10, <1>12, <1>13, <2>2, Zenon
  <2> QED BY <1>9, <2>1, <2>3, TargetsKept, Zenon
<1>16. Blocked'
  <2>1. Blocked
    BY Zenon DEF QInv
  <2>2. waiting \cup sleeping \subseteq waiting' \cup sleeping'
    BY <1>13, Zenon
  <2>3. \A t \in Created' : info'[t].runnable = FALSE =>
          \/ t \in waiting' \cup sleeping'
          \/ t \in Created /\ info[t].runnable = FALSE
    BY <1>9, <1>10, <1>13, Zenon
  <2> QED BY <1>9, <2>1, <2>2, <2>3, BlockedKept, Zenon
<1>17. IdleRuns'
  <2>1. info'[Idle].runnable = info[Idle].runnable
    BY <1>3, <1>10, IdleTask, Zenon
  <2> QED BY <1>4, <2>1, Zenon DEF IdleRuns
<1>18. Switches
  BY <1>2, <1>3, <1>9, <1>10, ZenonT(60) DEF Switches
<1> QED BY <1>9, <1>14, <1>15, <1>16, <1>17, <1>18, ZenonT(60) DEF QInv

-----------------------------------------------------------------------------
(* sched::init: the boot task is alone, and is the one to run.             *)
LEMMA SchedInitQueue ==
  ASSUME LowestFound, IInv, QInv, SchedInit
  PROVE  QInv' /\ Boots
<1> DEFINE i == Init_(info)
<1>1. /\ Top(cur).pc = "crit" /\ Top(cur).op = "init" /\ Switch(i, schedulable, 1)
      /\ nextTaskId' = 1 /\ UNCHANGED <<waiting, sleeping>>
  BY Zenon DEF SchedInit, InCrit, At, waitVars
<1>2. cur \in Tasks /\ Top(cur) \in Frame /\ Level(cur) \in Levels
  BY TopFrame, Zenon DEF IInv
<1>3. Level(cur) = "thread" /\ Top(cur) = frame[cur]["thread"] /\ cur = Idle
  <2>1. Holds(Level(cur), Top(cur))
    BY Current, Zenon
  <2>2. Level(cur) = "thread" /\ cur = Idle
    BY <1>1, <1>2, <2>1, ZenonT(60) DEF Holds, TrapOK, Levels
  <2> QED BY <2>2, Zenon DEF Top
<1>4. nextTaskId = 0
  BY <1>1, <1>3, Zenon DEF IInv, Starting
<1>5. Created = {} /\ Created' = {Idle}
  BY <1>1, <1>4, IdleTask DEF Created, Idle, Tasks
<1>6. waiting = {} /\ sleeping = {} /\ \A t \in Tasks : schedulable[t] = <<>>
  BY <1>5, Zenon DEF IInv, Known
<1>7. /\ i \in [Tasks -> TaskInfo] /\ i[Idle].runnable = TRUE
      /\ \A t \in Tasks : i[t].last_scheduled <= time
      /\ schedulable \in [Tasks -> Seq(Nat)]
  <2>1. info \in [Tasks -> TaskInfo] /\ schedulable \in [Tasks -> Seq(Nat)] /\ time \in Nat
    BY Zenon DEF IInv, TypeOK
  <2>2. i \in [Tasks -> TaskInfo]
    BY <2>1, Zenon DEF Init_, TaskInfo
  <2>3. /\ i[Idle].last_scheduled = time /\ i[Idle].runnable = TRUE
        /\ \A t \in Tasks \ {Idle} : i[t] = info[t]
    BY <2>1, IdleTask, Zenon DEF Init_
  <2>4. time <= time /\ \A t \in Tasks : info[t].last_scheduled <= time
    BY <2>1 DEF IInv, Known
  <2> HIDE DEF i
  <2> QED BY <2>1, <2>2, <2>3, <2>4, Zenon
<1> HIDE DEF i
<1>8. Exact(i, schedulable, {Idle} \ {cur})
  BY <1>3, <1>6, Zenon DEF Exact
<1>9. /\ cur' \in {Idle}
      /\ Exact(info', schedulable', {Idle} \ {cur'})
      /\ Deadline(info'[cur'])
      /\ \A t \in Tasks : info'[t].runnable = i[t].runnable
      /\ frame' = SetPc("drop")
  <2>1. {Idle} \in SUBSET Tasks /\ cur \in {Idle} /\ Idle \in {Idle} /\ 1 \in Nat \ {0}
    BY <1>3, IdleTask
  <2> QED BY <1>1, <1>7, <1>8, <2>1, SwitchExact, ZenonT(60) DEF IInv
<1>10. PICK f \in Frame : f.pc = "drop" /\ f.op = Top(cur).op /\ Put(Level(cur), f)
  <2>1. "drop" \in Places
    BY Zenon DEF Places
  <2> QED BY <1>9, <2>1, PutPc, Zenon DEF IInv
<1>11. SamePending
  <2>1. ~WakePending(cur, Level(cur)) /\ ~Waking(f)
    BY <1>1, <1>10, ZenonT(60) DEF WakePending, Waking, Top
  <2> QED BY <1>2, <1>10, <2>1, PutPending, ZenonT(60) DEF IInv
<1>12. \A u \in Tasks, l \in Levels : ~WakePending(u, l)'
  BY <1>5, <1>11, ZenonT(60) DEF SamePending, QInv, Targets
<1>13. Targets' /\ Queued'
  BY <1>1, <1>6, <1>12, ZenonT(60) DEF Targets, Queued
<1>14. Blocked' /\ IdleRuns'
  BY <1>5, <1>7, <1>9, IdleTask, ZenonT(60) DEF Blocked, IdleRuns
<1>15. IdleCalls'
  BY <1>1, <1>2, <1>10, IdleTask, ZenonT(60) DEF QInv, IdleCalls, Put, Top
<1>16. Exact(info, schedulable, Created \ {cur})'
  BY <1>5, <1>9, ZenonT(60)
<1> QED BY <1>3, <1>5, <1>9, <1>13, <1>14, <1>15, <1>16, ZenonT(60) DEF QInv, Boots

(* A new task is runnable and in the heap; nobody was about to wake it.    *)
LEMMA NewTaskQueue ==
  ASSUME IInv, QInv, NewTask
  PROVE  QInv' /\ \E n \in Tasks : Creates(n)
<1> DEFINE n == nextTaskId
<1>1. /\ schedulable' = Push(schedulable, info', n) /\ UNCHANGED <<cur, waiting, sleeping>>
      /\ Top(cur).op = "new"
  BY Zenon DEF NewTask, InCrit, cpuVars, waitVars
<1>2. /\ cur = Idle /\ Level(cur) = "thread" /\ Top(cur) = frame[cur]["thread"]
      /\ n \in Tasks /\ n # cur /\ n \notin Created
      /\ Created' = Created \cup {n} /\ cur \in Created
  BY <1>1, NewTaskFrames, AliveCreated, Zenon
<1>3. PICK f \in Frame, g \in Frame :
        /\ f.pc = "drop" /\ f.op = "new" /\ g.pc = "drop" /\ g.op = "entry"
        /\ frame'[n]["thread"] = g /\ frame'[n]["trap"] = NoFrame
        /\ frame'[cur]["thread"] = f /\ frame'[cur]["trap"] = frame[cur]["trap"]
        /\ \A t \in Tasks \ {cur, n} : frame'[t] = frame[t]
  BY NewTaskFrames, ZenonT(60)
<1>4. PICK r \in Garbage :
        info' = [info EXCEPT ![n] = [runnable |-> TRUE, total_runtime |-> 0,
                                     last_scheduled |-> 0, run_until |-> r]]
  BY Zenon DEF NewTask
<1>5. /\ info'[n].runnable = TRUE /\ info'[n].total_runtime = 0
      /\ \A t \in Tasks \ {n} : info'[t] = info[t]
      /\ info \in [Tasks -> TaskInfo] /\ schedulable \in [Tasks -> Seq(Nat)]
  BY <1>2, <1>4, ZenonT(60) DEF IInv, TypeOK
<1>6. schedulable'[n] = <<0>> /\ \A t \in Tasks \ {n} : schedulable'[t] = schedulable[t]
  <2>1. schedulable[n] = <<>>
    BY <1>2, Zenon DEF QInv, Exact
  <2>2. Append(schedulable[n], info'[n].total_runtime) = <<0>>
    BY <1>5, <2>1
  <2>3. schedulable' = [schedulable EXCEPT ![n] = Append(schedulable[n], info'[n].total_runtime)]
    BY <1>1, ZenonT(60) DEF Push
  <2> QED BY <1>2, <1>5, <2>2, <2>3, ZenonT(60)
<1>7. SamePending
  <2> SUFFICES ASSUME NEW u \in Tasks, NEW l \in Levels
               PROVE  /\ WakePending(u, l)' <=> WakePending(u, l)
                      /\ WakePending(u, l) => frame'[u][l].target = frame[u][l].target
    BY Zenon DEF SamePending
  <2>1. CASE u = n
    <3>1. ~WakePending(u, l)
      BY <1>2, <2>1, ZenonT(60) DEF QInv, Targets
    <3>2. ~WakePending(u, l)'
      BY <1>3, <2>1, EmptyFrame, ZenonT(60) DEF WakePending, Levels
    <3> QED BY <3>1, <3>2, ZenonT(60)
  <2>2. CASE u = cur
    BY <1>1, <1>2, <1>3, <2>2, ZenonT(60) DEF WakePending, Levels
  <2>3. CASE u \notin {cur, n}
    BY <1>3, <2>3, Zenon DEF WakePending
  <2> QED BY <2>1, <2>2, <2>3, ZenonT(60)
<1>8. Exact(info, schedulable, Created \ {cur})'
  <2>1. Exact(info', schedulable', Created' \ {cur})
    BY <1>2, <1>5, <1>6, ZenonT(60) DEF QInv, Exact
  <2> QED BY <1>1, <2>1, ZenonT(60)
<1>9. Deadline(info[cur])'
  <2>1. info'[cur] = info[cur] /\ cur' = cur
    BY <1>1, <1>2, <1>5, IdleTask, ZenonT(60)
  <2> QED BY <1>2, <2>1, ZenonT(60) DEF QInv
<1>10. Created \subseteq Tasks /\ n \notin waiting /\ n \notin sleeping
  BY <1>2, Zenon DEF IInv, Known, Created
<1>11. Queued'
  BY <1>1, <1>5, <1>10, ZenonT(60) DEF IInv, TypeOK, QInv, Queued
<1>12. /\ \A t \in Created : t \in Created' /\ info'[t].runnable = info[t].runnable
       /\ \A t \in Created' : info'[t].runnable = FALSE => t \in Created
  <2>1. \A t \in Created : t \in Tasks \ {n}
    BY <1>2, <1>10, Zenon
  <2>2. n \in Created' /\ \A t \in Created' : t = n \/ t \in Created
    BY <1>2, Zenon
  <2>3. \A t \in Created : t \in Created'
    BY <1>2, ZenonT(60)
  <2> QED BY <1>5, <2>1, <2>2, <2>3, ZenonT(60)
<1>13. IdleCalls' /\ IdleRuns'
  BY <1>2, <1>3, <1>5, IdleTask, ZenonT(60) DEF QInv, IdleCalls, IdleRuns, Levels
<1>14. waiting' = waiting /\ sleeping' = sleeping
  BY <1>1, ZenonT(60)
<1>15. Targets'
  <2>1. Targets
    BY Zenon DEF QInv
  <2>2. \A u \in Tasks, l \in Levels : WakePending(u, l) =>
          /\ info'[frame[u][l].target].runnable = FALSE
          /\ frame[u][l].target \notin waiting' \cup sleeping'
    BY <1>12, <1>14, <2>1, Zenon DEF Targets
  <2> QED BY <1>7, <1>12, <2>1, <2>2, TargetsKept, Zenon
<1>16. Blocked'
  <2>1. Blocked
    BY Zenon DEF QInv
  <2>2. \A t \in Created' : info'[t].runnable = FALSE => t \in Created /\ info[t].runnable = FALSE
    BY <1>12, Zenon
  <2> QED BY <1>7, <1>14, <2>1, <2>2, BlockedKept, Zenon
<1>17. Creates(n)
  BY <1>1, <1>2, <1>5, ZenonT(60) DEF Creates
<1> QED BY <1>1, <1>2, <1>8, <1>9, <1>11, <1>13, <1>15, <1>16, <1>17, ZenonT(60) DEF QInv

-----------------------------------------------------------------------------

(* The invariant holds when the kernel calls sched::init.                  *)
LEMMA InitQueue == Init => QInv
<1> SUFFICES ASSUME Init PROVE QInv
  OBVIOUS
<1>1. IInv /\ nextTaskId = 0 /\ waiting = {} /\ sleeping = {} /\ \A t \in Tasks : schedulable[t] = <<>>
  BY InitIInv, Zenon DEF Init
<1>2. Created = {}
  BY <1>1 DEF Created, Tasks
<1>3. \A u \in Tasks, l \in Levels : frame[u][l].op \in {"none", "init"}
  BY Zenon DEF Init, Body, NoFrame
<1>4. Targets /\ IdleCalls
  BY <1>3, IdleTask, Zenon DEF Targets, IdleCalls, WakePending
<1> QED BY <1>1, <1>2, <1>4, ZenonT(60) DEF QInv, Exact, Queued, Blocked, IdleRuns

(* Every step keeps it, and does one of the four things to the tasks.      *)
Moves == \/ Boots
         \/ \E n \in Tasks : Creates(n)
         \/ Switches
         \/ \E W \in SUBSET Tasks : Wakes(W)

LEMMA Unmoved ==
  ASSUME UNCHANGED <<nextTaskId, info, cur>>
  PROVE  Moves
<1>1. Wakes({})
  BY Zenon DEF Wakes, Created, Tasks
<1> QED BY <1>1, Zenon DEF Moves

LEMMA NextQueue ==
  ASSUME LowestFound, IInv, QInv, [Next]_vars
  PROVE  QInv' /\ Moves
<1>1. CASE KernelStep
  <2>1. CASE LockRead \/ LockAcquire \/ Drop
    BY <2>1, LockQueue, DropQueue, Unmoved, Zenon DEF LockRead, LockAcquire, Drop, cpuVars, taskVars
  <2>2. CASE SchedInit \/ NewTask
    BY <2>2, SchedInitQueue, NewTaskQueue, Zenon DEF Moves
  <2>3. CASE Yield \/ Preempt
    BY <2>3, VoluntaryQueue, Zenon DEF Moves
  <2>4. CASE Sleep \/ Block
    BY <2>4, BlockingQueue, Zenon DEF Moves
  <2>5. CASE WaitPass \/ KeepRunning
    BY <2>5, LeaveQueue, Unmoved, Zenon DEF WaitPass, KeepRunning, cpuVars, taskVars
  <2>6. CASE Wake \/ TimerHandler
    BY <2>6, WakeQueue, TimerQueue, Zenon DEF Moves
  <2>7. CASE EnableInterrupts
    BY <2>7, ThreadQueue, Unmoved, Zenon DEF EnableInterrupts, taskVars
  <2>8. CASE DeviceHandler
    <3>1. UNCHANGED <<nextTaskId, info, cur>>
      BY <2>8, Zenon DEF DeviceHandler, cpuVars, taskVars
    <3> QED BY <2>8, <3>1, PopperQueue, Unmoved, Zenon
  <2>9. CASE Iret
    <3>1. UNCHANGED <<nextTaskId, info, cur>>
      BY <2>9, Zenon DEF Iret, taskVars
    <3> QED BY <2>9, <3>1, TrapQueue, Unmoved, Zenon
  <2> QED BY <1>1, <2>1, <2>2, <2>3, <2>4, <2>5, <2>6, <2>7, <2>8, <2>9, ZenonT(60) DEF KernelStep
<1>2. CASE ThreadStep
  <2>1. CASE CallNewTask \/ CallWait
    BY <2>1, ThreadQueue, Unmoved, Zenon DEF CallNewTask, CallWait, cpuVars, taskVars
  <2>2. CASE CallWake
    <3>1. UNCHANGED <<nextTaskId, info, cur>>
      BY <2>2, Zenon DEF CallWake, cpuVars, taskVars
    <3> QED BY <2>2, <3>1, PopperQueue, Unmoved, Zenon
  <2>3. CASE SpinLock \/ SpinUnlock
    BY <2>3, StillQueue, Unmoved, Zenon DEF SpinLock, SpinUnlock, taskVars, waitVars
  <2>4. CASE Syscall
    <3>1. UNCHANGED <<nextTaskId, info, cur>>
      BY <2>4, Zenon DEF Syscall, taskVars
    <3> QED BY <2>4, <3>1, TrapQueue, Unmoved, Zenon
  <2> QED BY <1>2, <2>1, <2>2, <2>3, <2>4, Zenon DEF ThreadStep
<1>3. CASE Interrupt
  <2>1. UNCHANGED <<nextTaskId, info, cur>>
    BY <1>3, Zenon DEF Interrupt, taskVars
  <2> QED BY <1>3, <2>1, TrapQueue, Unmoved, Zenon
<1>4. CASE Advance \/ UNCHANGED vars
  BY <1>4, StillQueue, Unmoved, Zenon DEF Advance, vars, taskVars, cpuVars, waitVars
<1> QED BY <1>1, <1>2, <1>3, <1>4, Zenon DEF Next

-----------------------------------------------------------------------------
(* What QInv gives: the theorems about the heap, the deadline, the wakers, *)
(* the choice of the next task, and the life cycle of TaskLifecycle.       *)

INSTANCE WellFoundedInduction

(* A set of numbers that is not empty has a least element.                 *)
LEMMA LeastNumber ==
  ASSUME NEW S \in SUBSET Nat, S # {}
  PROVE  \E x \in S : \A y \in S : x <= y
<1> DEFINE R == OpToRel(<, Nat)
<1>1. IsWellFoundedOn(R, Nat)
  BY NatLessThanWellFounded, Zenon
<1>2. \A x, y \in Nat : y < x => <<y, x>> \in R
  BY Zenon DEF OpToRel
<1> HIDE DEF R
<1>3. PICK x \in S : \A y \in S : ~(<<y, x>> \in R)
  BY <1>1, WFMin, ZenonT(60)
<1>4. \A y \in S : ~(y < x)
  BY <1>2, <1>3, Zenon
<1> QED BY <1>4

(* f is the function that defines Cardinality(S).                         *)
Rounds(f, S) == f = [T \in SUBSET S |-> IF T = {} THEN 0 ELSE 1 + f[T \ {CHOOSE x : x \in T}]]

(* If the definition has one value, Cardinality is it.                     *)
LEMMA CardinalityIs ==
  ASSUME NEW S, NEW n, \A f : Rounds(f, S) => f[S] = n, \E f : Rounds(f, S)
  PROVE  Cardinality(S) = n
<1> DEFINE C == CHOOSE f : Rounds(f, S)
<1>1. Rounds(C, S)
  BY Zenon
<1>2. Cardinality(S) = C[S]
  BY Zenon DEF Cardinality, Rounds
<1> QED BY <1>1, <1>2, Zenon

(* The cardinality of the empty set.                                       *)
LEMMA CountNone == Cardinality({}) = 0
<1> DEFINE g == [T \in SUBSET {} |-> 0]
<1>1. Rounds(g, {})
  BY DEF Rounds
<1>2. \A f : Rounds(f, {}) => f[{}] = 0
  BY DEF Rounds
<1> QED BY <1>1, <1>2, CardinalityIs, Zenon

(* The cardinality of a set of one element.                                *)
LEMMA CountOne == ASSUME NEW a PROVE Cardinality({a}) = 1
<1> DEFINE g == [T \in SUBSET {a} |-> IF T = {} THEN 0 ELSE 1]
<1>1. (CHOOSE x : x \in {a}) = a /\ {a} \ {a} = {} /\ \A T \in SUBSET {a} : T = {} \/ T = {a}
  BY Zenon
<1>2. Rounds(g, {a})
  <2>1. \A T \in SUBSET {a} : g[T] = IF T = {} THEN 0 ELSE 1 + g[T \ {CHOOSE x : x \in T}]
    BY <1>1, SMTT(30)
  <2> QED BY <2>1, Zenon DEF Rounds
<1>3. ASSUME NEW f, Rounds(f, {a}) PROVE f[{a}] = 1
  <2>1. {} \in SUBSET {a} /\ {a} \in SUBSET {a} /\ {a} # {}
    BY Zenon
  <2>2. \A T \in SUBSET {a} : f[T] = IF T = {} THEN 0 ELSE 1 + f[T \ {CHOOSE x : x \in T}]
    BY <1>3, Zenon DEF Rounds
  <2>3. f[{}] = 0
    BY <2>1, <2>2, Zenon
  <2>4. f[{a}] = 1 + f[{a} \ {CHOOSE x : x \in {a}}]
    BY <2>1, <2>2, Zenon
  <2>5. {a} \ {CHOOSE x : x \in {a}} = {}
    BY <1>1, Zenon
  <2> QED BY <2>3, <2>4, <2>5
<1> QED BY <1>2, <1>3, CardinalityIs, Zenon

(* A heap with a task in it has a least one.                               *)
LEMMA LowestExists == LowestFound
<1> SUFFICES ASSUME NEW q \in [Tasks -> Seq(Nat)], NEW a \in Tasks, q[a] # <<>>
             PROVE  Lowest(q) # {}
  BY Zenon DEF LowestFound
<1> DEFINE In == {u \in Tasks : q[u] # <<>>}
           S == {Head(q[u]) : u \in In}
<1>1. S \in SUBSET Nat /\ S # {}
  <2>1. \A u \in In : Head(q[u]) \in Nat
    OBVIOUS
  <2> QED BY <2>1, Zenon
<1>2. PICK x \in S : \A y \in S : x <= y
  BY <1>1, LeastNumber, ZenonT(60)
<1>3. PICK u \in In : x = Head(q[u])
  OBVIOUS
<1>4. \A v \in Tasks : q[v] # <<>> => Head(q[v]) \in S
  BY ZenonT(60)
<1>5. u \in Lowest(q)
  <2>1. u \in Tasks /\ q[u] # <<>>
    BY <1>3, Zenon
  <2>2. \A v \in Tasks : q[v] # <<>> => Head(q[u]) <= Head(q[v])
    BY <1>2, <1>3, <1>4, Zenon
  <2> QED BY <2>1, <2>2, Zenon DEF Lowest
<1> QED BY <1>5, Zenon

(* It is an invariant, together with IInv.                                 *)
LEMMA InductiveQueue == Spec => [](IInv /\ QInv)
<1>1. Init => IInv /\ QInv
  BY InitIInv, InitQueue, ZenonT(60)
<1>2. IInv /\ QInv /\ [Next]_vars => IInv' /\ QInv'
  BY NextIInv, NextQueue, LowestExists, ZenonT(60)
<1> QED BY <1>1, <1>2, PTL DEF Spec

-----------------------------------------------------------------------------

(* For any number of tasks, the heap holds exactly the runnable tasks that *)
(* are not running, once each, with their present total_runtime            *)
(* (update_runtime, set_runnable, pop_runnable).                           *)
THEOREM HeapTheorem == Spec => []SchedulableExact
<1>1. IInv /\ QInv => SchedulableExact
  BY Zenon DEF QInv, Exact, SchedulableExact, IInv, TypeOK, TaskInfo
<1> QED BY <1>1, InductiveQueue, PTL

(* For any number of tasks and any garbage in run_until, the running task  *)
(* is runnable and runs on a deadline that set_run_until has set.          *)
THEOREM DeadlineTheorem == Spec => []RunningIsScheduled
<1>1. IInv /\ QInv => RunningIsScheduled
  BY Zenon DEF QInv, Deadline, RunningIsScheduled, IInv, Known, Created
<1> QED BY <1>1, InductiveQueue, PTL

(* For any number of tasks, a blocked task has exactly one waker, and a    *)
(* runnable one has none (block, sleep, wake, Semaphore's queues).         *)
THEOREM WakerTheorem == Spec => []BlockedHasOneWaker
<1>1. IInv /\ QInv => BlockedHasOneWaker
  <2> SUFFICES ASSUME IInv, QInv, NEW t \in Created
               PROVE  Cardinality(Wakers(t)) + (IF t \in waiting THEN 1 ELSE 0)
                                             + (IF t \in sleeping THEN 1 ELSE 0)
                        = IF info[t].runnable THEN 0 ELSE 1
    BY Zenon DEF BlockedHasOneWaker
  <2>1. info[t].runnable \in BOOLEAN
    BY Zenon DEF IInv, TypeOK, TaskInfo, Created
  <2>2. ASSUME NEW u \in Tasks, NEW l \in Levels, WakePending(u, l), frame[u][l].target = t
        PROVE  /\ Cardinality(Wakers(t)) = 1
               /\ t \notin waiting /\ t \notin sleeping /\ info[t].runnable = FALSE
    <3>1. /\ t \notin waiting \cup sleeping /\ info[t].runnable = FALSE
          /\ \A v \in Tasks, m \in Levels :
               WakePending(v, m) /\ frame[v][m].target = t => v = u /\ m = l
      BY <2>2, ZenonT(60) DEF QInv, Targets
    <3>2. Wakers(t) = {<<u, l>>}
      BY <2>2, <3>1, SMTT(60) DEF Wakers
    <3>3. Cardinality(Wakers(t)) = 1
      BY <3>2, CountOne, ZenonT(60)
    <3> QED BY <3>1, <3>3, ZenonT(60)
  <2>3. CASE \A u \in Tasks, l \in Levels : ~(WakePending(u, l) /\ frame[u][l].target = t)
    <3>1. Wakers(t) = {}
      BY <2>3, ZenonT(60) DEF Wakers
    <3>2. Cardinality(Wakers(t)) = 0
      BY <3>1, CountNone, Zenon
    <3>3. /\ info[t].runnable = FALSE <=> t \in waiting \/ t \in sleeping
          /\ ~(t \in waiting /\ t \in sleeping)
      BY <2>3, ZenonT(60) DEF QInv, Blocked, Queued
    <3> QED BY <2>1, <3>2, <3>3, SMTT(60)
  <2>4. CASE \E u \in Tasks, l \in Levels : WakePending(u, l) /\ frame[u][l].target = t
    <3>1. PICK u \in Tasks, l \in Levels : WakePending(u, l) /\ frame[u][l].target = t
      BY <2>4, ZenonT(60)
    <3>2. /\ Cardinality(Wakers(t)) = 1
          /\ t \notin waiting /\ t \notin sleeping /\ info[t].runnable = FALSE
      BY <2>2, <3>1, ZenonT(60)
    <3> QED BY <3>2
  <2> QED BY <2>3, <2>4, Zenon
<1> QED BY <1>1, InductiveQueue, PTL

(* For any number of tasks, a switch to another task picks one with the    *)
(* least total_runtime of all the tasks that could run (pop_runnable).     *)
THEOREM LeastTheorem == Spec => SwitchPicksLeast
<1>1. IInv /\ QInv /\ [Next]_vars =>
        [cur' # cur => \A t \in Created : info'[t].runnable =>
           info'[cur'].total_runtime <= info'[t].total_runtime]_vars
  <2> SUFFICES ASSUME IInv, QInv, [Next]_vars, cur' # cur, NEW t \in Created, info'[t].runnable
               PROVE  info'[cur'].total_runtime <= info'[t].total_runtime
    OBVIOUS
  <2>1. RunsLeast(info', cur', Created)
    BY NextQueue, LowestExists, ZenonT(60) DEF Moves, Boots, Creates, Switches, Wakes
  <2>2. info'[t].runnable \in BOOLEAN
    BY NextIInv, ZenonT(60) DEF IInv, TypeOK, TaskInfo, Created, Tasks
  <2> QED BY <2>1, <2>2, ZenonT(60) DEF RunsLeast
<1> QED BY <1>1, InductiveQueue, PTL DEF Spec, SwitchPicksLeast

-----------------------------------------------------------------------------

(* The state that TaskLifecycle gives to each task, as a function of what  *)
(* it is read from.                                                        *)
View(C, c, q) == [t \in Tasks |-> IF t \notin C THEN "absent"
                                  ELSE IF t = c THEN "running"
                                  ELSE IF q[t] # <<>> THEN "ready"
                                  ELSE "blocked"]

(* The heap being exact, a task is ready or blocked by its runnable flag.  *)
Reads(v, C, c, i, t) ==
  /\ t \notin C => v[t] = "absent"
  /\ t \in C /\ t = c => v[t] = "running"
  /\ t \in C /\ t # c /\ i[t].runnable = TRUE => v[t] = "ready"
  /\ t \in C /\ t # c /\ i[t].runnable # TRUE => v[t] = "blocked"

LEMMA ViewFacts ==
  ASSUME NEW C \in SUBSET Tasks, NEW c, NEW i, NEW q, Exact(i, q, C \ {c}), NEW t \in Tasks
  PROVE  Reads(View(C, c, q), C, c, i, t)
<1>1. t \in C \ {c} /\ i[t].runnable = TRUE => q[t] # <<>>
  <2>1. \A x : <<x>> # <<>>
    OBVIOUS
  <2> QED BY <2>1, Zenon DEF Exact
<1>2. ~(t \in C \ {c} /\ i[t].runnable = TRUE) => q[t] = <<>>
  BY ZenonT(60) DEF Exact
<1> QED BY <1>1, <1>2, Zenon DEF View, Reads

(* A task for which nothing changed that its state is read from.           *)
Unread(t) == /\ t \in Created <=> t \in Created'
             /\ t = cur <=> t = cur'
             /\ t \in Created /\ t # cur => info'[t].runnable = info[t].runnable

LEMMA SameRead ==
  ASSUME NEW v, NEW w, NEW t, Unread(t),
         Reads(v, Created, cur, info, t), Reads(w, Created', cur', info', t)
  PROVE  w[t] = v[t]
<1>1. CASE t \notin Created
  BY <1>1, ZenonT(60) DEF Reads, Unread
<1>2. CASE t \in Created /\ t # cur /\ info[t].runnable = TRUE
  <2>1. t \in Created' /\ t # cur' /\ info'[t].runnable = TRUE
    BY <1>2, ZenonT(60) DEF Unread
  <2> QED BY <1>2, <2>1, SMTT(60) DEF Reads
<1>3. CASE t \in Created /\ t # cur /\ info[t].runnable # TRUE
  <2>1. t \in Created' /\ t # cur' /\ info'[t].runnable # TRUE
    BY <1>3, Zenon DEF Unread
  <2> QED BY <1>3, <2>1, ZenonT(60) DEF Reads
<1>4. CASE t \in Created /\ t = cur
  BY <1>4, ZenonT(60) DEF Reads, Unread
<1> QED BY <1>1, <1>2, <1>3, <1>4, ZenonT(60)

(* Each of the four things a step does to the tasks is a step of the life  *)
(* cycle, or none.                                                         *)
LEMMA MovesLive ==
  ASSUME IInv, QInv, QInv', IInv', Moves
  PROVE  [Lifecycle!Next]_(View(Created, cur, schedulable))
<1> DEFINE v == View(Created, cur, schedulable)
           w == View(Created', cur', schedulable')
<1>1. Created \in SUBSET Tasks /\ Created' \in SUBSET Tasks /\ cur \in Tasks /\ cur' \in Tasks
  BY ZenonT(60) DEF Created, Tasks, IInv, TypeOK
<1>2. ASSUME NEW t \in Tasks
      PROVE  Reads(v, Created, cur, info, t) /\ Reads(w, Created', cur', info', t)
  <2>1. Exact(info, schedulable, Created \ {cur}) /\ Exact(info', schedulable', Created' \ {cur'})
    BY Zenon DEF QInv
  <2>2. Reads(v, Created, cur, info, t)
    BY <1>1, <2>1, ViewFacts, ZenonT(60)
  <2>3. Reads(w, Created', cur', info', t)
    BY <1>1, <2>1, ViewFacts, ZenonT(60)
  <2> QED BY <2>2, <2>3, ZenonT(60)
<1>3. v = [t \in Tasks |-> v[t]] /\ w = [t \in Tasks |-> w[t]]
  BY ZenonT(60) DEF View
<1>4. \/ w = v
      \/ v[Idle] = "absent" /\ w = [v EXCEPT ![Idle] = "running"]
      \/ \E n \in Tasks : v[Idle] # "absent" /\ v[n] = "absent" /\ w = [v EXCEPT ![n] = "ready"]
      \/ \E from, to \in Tasks, left \in {"ready", "blocked"} :
           /\ v[from] = "running" /\ v[to] = "ready" /\ (from = Idle => left = "ready")
           /\ w = [v EXCEPT ![from] = left, ![to] = "running"]
      \/ \E W \in SUBSET Tasks :
           /\ W # {} /\ \A t \in W : v[t] = "blocked"
           /\ w = [t \in Tasks |-> IF t \in W THEN "ready" ELSE v[t]]
  <2> HIDE DEF v, w
  <2>1. CASE Boots
    <3>1. v[Idle] = "absent" /\ w[Idle] = "running"
      BY <1>2, <2>1, IdleTask, ZenonT(60) DEF Boots, Reads
    <3>2. ASSUME NEW t \in Tasks \ {Idle} PROVE w[t] = v[t]
      <4>1. Reads(v, Created, cur, info, t) /\ Reads(w, Created', cur', info', t)
        BY <1>2, Zenon
      <4>2. Unread(t)
        BY <2>1, ZenonT(60) DEF Boots, Unread
      <4> QED BY <4>1, <4>2, SameRead, ZenonT(60)
    <3>3. w = [v EXCEPT ![Idle] = "running"]
      BY <1>3, <3>1, <3>2, IdleTask, ZenonT(60)
    <3> QED BY <3>1, <3>3, ZenonT(60)
  <2>2. ASSUME NEW n \in Tasks, Creates(n)
        PROVE  v[Idle] # "absent" /\ v[n] = "absent" /\ w = [v EXCEPT ![n] = "ready"]
    <3>1. v[Idle] # "absent" /\ v[n] = "absent" /\ w[n] = "ready"
      BY <1>2, <2>2, IdleTask, ZenonT(60) DEF Creates, Reads
    <3>2. ASSUME NEW t \in Tasks \ {n} PROVE w[t] = v[t]
      <4>1. Reads(v, Created, cur, info, t) /\ Reads(w, Created', cur', info', t)
        BY <1>2, ZenonT(60)
      <4>2. Unread(t)
        BY <2>2, ZenonT(60) DEF Creates, Unread
      <4> QED BY <4>1, <4>2, SameRead, ZenonT(60)
    <3>3. w = [v EXCEPT ![n] = "ready"]
      BY <1>3, <3>1, <3>2, ZenonT(60)
    <3> QED BY <3>1, <3>3, ZenonT(60)
  <2>3. CASE Switches /\ cur' = cur
    <3>1. info[cur].runnable = TRUE /\ info'[cur'].runnable = TRUE
      BY <2>3, ZenonT(60) DEF QInv, Deadline, Switches
    <3>2. ASSUME NEW t \in Tasks PROVE w[t] = v[t]
      <4>1. Reads(v, Created, cur, info, t) /\ Reads(w, Created', cur', info', t)
        BY <1>2, ZenonT(60)
      <4>2. Unread(t)
        BY <2>3, <3>1, ZenonT(60) DEF Switches, Unread
      <4> QED BY <4>1, <4>2, SameRead, ZenonT(60)
    <3> QED BY <1>3, <3>2, ZenonT(60)
  <2>4. CASE Switches /\ cur' # cur
    <3> DEFINE left == IF info'[cur].runnable = TRUE THEN "ready" ELSE "blocked"
    <3>1. info'[cur'].runnable = TRUE /\ info[cur'].runnable = TRUE
      BY <1>1, <2>4, ZenonT(60) DEF QInv, Deadline, Switches
    <3>2. /\ v[cur] = "running" /\ v[cur'] = "ready" /\ (cur = Idle => left = "ready")
          /\ w[cur] = left /\ w[cur'] = "running" /\ left \in {"ready", "blocked"}
      BY <1>1, <1>2, <2>4, <3>1, ZenonT(60) DEF Switches, Reads
    <3>3. ASSUME NEW t \in Tasks \ {cur, cur'} PROVE w[t] = v[t]
      <4>1. Reads(v, Created, cur, info, t) /\ Reads(w, Created', cur', info', t)
        BY <1>2, ZenonT(60)
      <4>2. Unread(t)
        BY <2>4, ZenonT(60) DEF Switches, Unread
      <4> QED BY <4>1, <4>2, SameRead, ZenonT(60)
    <3> HIDE DEF left
    <3>4. w = [v EXCEPT ![cur] = left, ![cur'] = "running"]
      BY <1>1, <1>3, <2>4, <3>2, <3>3, ZenonT(60)
    <3> QED BY <1>1, <3>2, <3>4, ZenonT(60)
  <2>5. ASSUME NEW W \in SUBSET Tasks, Wakes(W)
        PROVE  \/ w = v
               \/ \E X \in SUBSET Tasks :
                    /\ X # {} /\ \A t \in X : v[t] = "blocked"
                    /\ w = [t \in Tasks |-> IF t \in X THEN "ready" ELSE v[t]]
    <3> DEFINE X == W \cap Created
    <3>1. \A t \in X : v[t] = "blocked" /\ w[t] = "ready"
      BY <1>2, <2>5, ZenonT(60) DEF QInv, Deadline, Wakes, Reads
    <3>2. ASSUME NEW t \in Tasks \ X PROVE w[t] = v[t]
      <4>1. Reads(v, Created, cur, info, t) /\ Reads(w, Created', cur', info', t)
        BY <1>2, ZenonT(60)
      <4>2. Unread(t)
        BY <2>5, ZenonT(60) DEF Wakes, Unread
      <4> QED BY <4>1, <4>2, SameRead, ZenonT(60)
    <3> HIDE DEF X
    <3>3. w = [t \in Tasks |-> IF t \in X THEN "ready" ELSE v[t]]
      BY <1>3, <3>1, <3>2, ZenonT(60)
    <3>4. X \in SUBSET Tasks
      BY Zenon DEF X
    <3>5. X = {} => w = v
      BY <1>3, <3>2, ZenonT(60)
    <3> QED BY <3>1, <3>3, <3>4, <3>5, ZenonT(60)
  <2> QED BY <2>1, <2>2, <2>3, <2>4, <2>5, ZenonT(60) DEF Moves
<1>5. v' = w
  BY Zenon DEF View
<1>6. v[Idle] = "absent" /\ w = [v EXCEPT ![Idle] = "running"] => Lifecycle!Boot
  BY <1>5, ZenonT(60) DEF View, Lifecycle!Boot
<1>7. ASSUME NEW n \in Tasks, v[Idle] # "absent", v[n] = "absent", w = [v EXCEPT ![n] = "ready"]
      PROVE  Lifecycle!Create(n)
  BY <1>5, <1>7, ZenonT(60) DEF View, Lifecycle!Create
<1>8. ASSUME NEW from \in Tasks, NEW to \in Tasks, NEW left \in {"ready", "blocked"},
             v[from] = "running", v[to] = "ready", from = Idle => left = "ready",
             w = [v EXCEPT ![from] = left, ![to] = "running"]
      PROVE  Lifecycle!Dispatch(from, to, left)
  BY <1>5, <1>8, ZenonT(60) DEF View, Lifecycle!Dispatch
<1>9. ASSUME NEW W \in SUBSET Tasks, W # {}, \A t \in W : v[t] = "blocked",
             w = [t \in Tasks |-> IF t \in W THEN "ready" ELSE v[t]]
      PROVE  Lifecycle!Wake(W)
  BY <1>5, <1>9, ZenonT(60) DEF View, Lifecycle!Wake
<1> HIDE DEF v, w
<1>10. Lifecycle!Next \/ v' = v
  BY <1>4, <1>5, <1>6, <1>7, <1>8, <1>9, ZenonT(60) DEF Lifecycle!Next
<1> QED BY <1>10, ZenonT(60) DEF v

(* For any number of tasks, the scheduler implements the life cycle: task  *)
(* 0 never blocks, a task is switched to only when it is ready, and woken  *)
(* only when it is blocked.                                                *)
THEOREM LifecycleTheorem == Spec => ImplementsLifecycle
<1>1. Init => Lifecycle!Init
  BY InitIInv DEF Init, Created, Tasks, Lifecycle!Init
<1>2. IInv /\ QInv /\ [Next]_vars => [Lifecycle!Next]_(View(Created, cur, schedulable))
  BY NextIInv, NextQueue, LowestExists, MovesLive, ZenonT(60)
<1> QED BY <1>1, <1>2, InductiveQueue, PTL DEF Spec, ImplementsLifecycle, Lifecycle!Spec, View

=============================================================================
