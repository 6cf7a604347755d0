------------------------------- MODULE Clock -------------------------------
(***************************************************************************)
(* The system clock (src/src/kernel/clock.rs) on top of the HPET           *)
(* (src/src/arch/x86_64/hpet.rs), with the two ways of sleeping: NANOSLEEP,*)
(* which blocks the task and leaves a callback behind, and clock::sleep,   *)
(* which the boot task spins in.                                           *)
(*                                                                         *)
(* Clock.ticks has two writers: the timer interrupt adds the time since    *)
(* the interrupt before, and get_tick stores the counter itself.  Both run *)
(* with interrupts off, so each is one step.  A counter unit is one        *)
(* nanosecond of the model.                                                *)
(***************************************************************************)
EXTENDS Integers

CONSTANTS
  Tasks,      \* the tasks that call NANOSLEEP
  Durations,  \* the durations they, and the boot task, sleep for
  Gap,        \* bound on the time between two timer interrupts
  BootTime,   \* bound on the counter when the clock is installed
  MaxTime     \* bound on the counter

ASSUME ClockAssumption ==
  /\ Durations \subseteq Nat
  /\ Gap \in Nat /\ BootTime \in Nat /\ MaxTime \in Nat
  /\ BootTime <= MaxTime

VARIABLES
  counter,    \* the HPET main counter
  stage,      \* how far main has come: hpet::init, register_tick, clock::init
  last,       \* HPET.last_tick_count_timer_0
  ticks,      \* Clock.ticks
  callbacks,  \* Clock.callbacks: deadline -> the task the callback wakes
  sleeping,   \* the tasks blocked in NANOSLEEP
  deadline,   \* the time each sleeping task asked to be woken at
  busy        \* {until} while the boot task is in clock::sleep, or {}

vars == <<counter, stage, last, ticks, callbacks, sleeping, deadline, busy>>
taskVars == <<sleeping, deadline, busy>>

Stages == {"hpet", "registered", "clock"}

(* hpet::init has started the counter, which stood at 0.                   *)
Init ==
  /\ counter = 0 /\ last = 0 /\ ticks = 0
  /\ stage = "hpet"
  /\ callbacks = [k \in {} |-> k]
  /\ sleeping = {}
  /\ deadline = [t \in Tasks |-> 0]
  /\ busy = {}

(* Time passes, at most Gap units between two timer interrupts: the timer  *)
(* is periodic and every stretch of code with interrupts off is short.     *)
Advance ==
  /\ counter < (IF stage = "clock" THEN MaxTime ELSE BootTime)
  /\ counter - last < Gap
  /\ counter' = counter + 1
  /\ UNCHANGED <<stage, last, ticks, callbacks, taskVars>>

(* hpet::register_tick, then clock::init.                                  *)
RegisterTick ==
  /\ stage = "hpet"
  /\ stage' = "registered"
  /\ UNCHANGED <<counter, last, ticks, callbacks, taskVars>>

ClockInit ==
  /\ stage = "registered"
  /\ stage' = "clock"
  /\ ticks' = 0
  /\ UNCHANGED <<counter, last, callbacks, taskVars>>

Without(f, S) == [k \in DOMAIN f \ S |-> f[k]]

(* Faulty variants: the callbacks are run and not removed; only a callback *)
(* for exactly this time is run; the increment is not added.               *)
TickKeeps(increment) ==
  LET now == ticks + increment
      woken == {callbacks[k] : k \in {j \in DOMAIN callbacks : j <= now}}
  IN  /\ ticks' = now
      /\ sleeping' = sleeping \ woken
      /\ deadline' = [t \in Tasks |-> IF t \in woken THEN 0 ELSE deadline[t]]
      /\ UNCHANGED callbacks

TickExact(increment) ==
  LET now == ticks + increment
      due == {k \in DOMAIN callbacks : k = now}
      woken == {callbacks[k] : k \in due}
  IN  /\ ticks' = now
      /\ callbacks' = Without(callbacks, due)
      /\ sleeping' = sleeping \ woken
      /\ deadline' = [t \in Tasks |-> IF t \in woken THEN 0 ELSE deadline[t]]

TickNoAdd(increment) ==
  LET due == {k \in DOMAIN callbacks : k <= ticks}
      woken == {callbacks[k] : k \in due}
  IN  /\ callbacks' = Without(callbacks, due)
      /\ sleeping' = sleeping \ woken
      /\ deadline' = [t \in Tasks |-> IF t \in woken THEN 0 ELSE deadline[t]]
      /\ UNCHANGED ticks

(* Clock::tick: add the increment, then run and remove the callbacks that  *)
(* are due.                                                                *)
Tick(increment) ==
  LET now == ticks + increment
      due == {k \in DOMAIN callbacks : k <= now}
      woken == {callbacks[k] : k \in due}
  IN  /\ ticks' = now
      /\ callbacks' = Without(callbacks, due)
      /\ sleeping' = sleeping \ woken
      /\ deadline' = [t \in Tasks |-> IF t \in woken THEN 0 ELSE deadline[t]]

(* Faulty variant: last_tick_count_timer_0 is not updated.                 *)
HpetTickKeepsLast ==
  /\ counter > last
  /\ IF stage = "clock"
     THEN Tick(counter - last)
     ELSE UNCHANGED <<ticks, callbacks, sleeping, deadline>>
  /\ UNCHANGED <<counter, stage, last, busy>>

(* hpet_tick, the timer interrupt.  Before the clock is installed only the *)
(* last count is updated.  (With no time passed it changes nothing.)       *)
HpetTick ==
  /\ counter > last
  /\ IF stage = "clock"
     THEN Tick(counter - last)
     ELSE UNCHANGED <<ticks, callbacks, sleeping, deadline>>
  /\ last' = counter
  /\ UNCHANGED <<counter, stage, busy>>

(* Clock::callback_at: BTreeMap::insert, which replaces an existing entry. *)
CallbackAt(ns, t) ==
  callbacks' = [k \in DOMAIN callbacks \cup {ns} |-> IF k = ns THEN t ELSE callbacks[k]]

(* Faulty variant: get_tick without its store.                             *)
GetTickNoStore == UNCHANGED ticks

(* Clock::get_tick.                                                        *)
GetTick == ticks' = counter

(* SchedulerGuard::sleep.  The sum stays below MaxTime, so that the clock  *)
(* can pass it.                                                            *)
Nanosleep(t, ns) ==
  /\ stage = "clock"
  /\ t \notin sleeping
  /\ counter + ns < MaxTime
  /\ GetTick
  /\ CallbackAt(counter + ns, t)
  /\ sleeping' = sleeping \cup {t}
  /\ deadline' = [deadline EXCEPT ![t] = counter + ns]
  /\ UNCHANGED <<counter, stage, last, busy>>

(* clock::sleep: until is computed from ticks, and the loop ends when      *)
(* ticks has reached it.  The sum is bounded so that it can be reached     *)
(* although the ticks before clock::init are not counted.                  *)
BusySleep(ns) ==
  /\ stage = "clock"
  /\ busy = {}
  /\ ticks + ns <= MaxTime - BootTime
  /\ busy' = {ticks + ns}
  /\ UNCHANGED <<counter, stage, last, ticks, callbacks, sleeping, deadline>>

BusySleepEnds ==
  /\ \E until \in busy : ticks >= until
  /\ busy' = {}
  /\ UNCHANGED <<counter, stage, last, ticks, callbacks, sleeping, deadline>>

Next ==
  \/ Advance \/ RegisterTick \/ ClockInit \/ HpetTick
  \/ \E t \in Tasks, ns \in Durations : Nanosleep(t, ns)
  \/ \E ns \in Durations : BusySleep(ns)
  \/ BusySleepEnds

Spec == Init /\ [][Next]_vars

(* Time passes, timer interrupts arrive, main goes on and the spinning     *)
(* boot task gets to look at the clock again.                              *)
FairSpec ==
  /\ Spec
  /\ WF_vars(Advance) /\ WF_vars(HpetTick)
  /\ WF_vars(RegisterTick) /\ WF_vars(ClockInit) /\ WF_vars(BusySleepEnds)

-----------------------------------------------------------------------------
(* Properties.                                                             *)

(* Every variable keeps its type.                                          *)
TypeOK ==
  /\ counter \in 0 .. MaxTime
  /\ stage \in Stages
  /\ last \in 0 .. MaxTime
  /\ ticks \in Nat
  /\ DOMAIN callbacks \subseteq 0 .. MaxTime
  /\ \A k \in DOMAIN callbacks : callbacks[k] \in Tasks
  /\ sleeping \subseteq Tasks
  /\ deadline \in [Tasks -> 0 .. MaxTime]
  /\ busy \in SUBSET Nat

(* No callback is late: after a timer interrupt none is left whose time    *)
(* had come, although Clock.ticks misses the interrupts that came before   *)
(* clock::init and is set back by every get_tick.                          *)
NoCallbackLate == \A k \in DOMAIN callbacks : k >= last

(* A callback wakes the task that asked for that time, and that task is    *)
(* asleep: no task is woken by a callback it left behind earlier.          *)
CallbackWakesSleeper ==
  \A k \in DOMAIN callbacks : callbacks[k] \in sleeping /\ deadline[callbacks[k]] = k

(* A callback that runs early is early by at most the time between two     *)
(* interrupts: the error in Clock.ticks does not add up.                   *)
EarlyByAtMostOneGap ==
  [][\A t \in sleeping \ sleeping' : deadline[t] <= counter + Gap]_vars

(* Every callback is run in the end.                                       *)
CallbacksRun ==
  \A k \in 0 .. MaxTime : k \in DOMAIN callbacks ~> k \notin DOMAIN callbacks

(* The busy loop of clock::sleep ends, although ticks may go backwards     *)
(* while it spins.                                                         *)
BusySleepReturns == busy # {} ~> busy = {}

(* clock.rs:57 says of callback_at, "Schedule an FnOnce to run at or after *)
(* the given time": the callback of every sleeping task is run, so the     *)
(* task wakes.                                                             *)
SleepersWake == \A t \in Tasks : t \in sleeping ~> t \notin sleeping

=============================================================================
