---------------------------- MODULE ClockProofs ----------------------------
(***************************************************************************)
(* For any tasks, durations and bounds: no callback is late, a callback    *)
(* wakes the sleeper that left it, and one that is early is early by at    *)
(* most the time between two interrupts.                                   *)
(*                                                                         *)
(* The strengthening is about the error in Clock.ticks.  hpet_tick adds    *)
(* to ticks what it adds to last, so it keeps their difference; get_tick   *)
(* makes the difference counter - last.  While there is a callback, a      *)
(* get_tick has been made, and the difference is between 0 and Gap.        *)
(***************************************************************************)
EXTENDS Clock, TLAPS

(* The counter is at most Gap ahead of the last interrupt, ticks at most   *)
(* Gap ahead of it, and not behind it while a callback waits.              *)
TicksNearLast ==
  /\ last <= counter /\ counter <= last + Gap
  /\ ticks <= last + Gap
  /\ \A k \in DOMAIN callbacks : last <= ticks

(* There are callbacks only once the clock is installed.                   *)
CallbacksAfterInit == stage # "clock" => DOMAIN callbacks = {}

IInv ==
  /\ TypeOK /\ TicksNearLast /\ CallbacksAfterInit
  /\ NoCallbackLate /\ CallbackWakesSleeper

(* The invariant holds at boot.                                            *)
LEMMA InitHolds == Init => IInv
BY ClockAssumption
   DEF Init, IInv, TypeOK, Stages, TicksNearLast, CallbacksAfterInit, NoCallbackLate,
       CallbackWakesSleeper

(* Time passes, main goes on.                                              *)
LEMMA MainSteps ==
  ASSUME IInv, Advance \/ RegisterTick \/ ClockInit
  PROVE  IInv'
<1> USE ClockAssumption
     DEF IInv, TypeOK, Stages, TicksNearLast, CallbacksAfterInit, NoCallbackLate,
         CallbackWakesSleeper, taskVars
<1>1. CASE Advance
  BY <1>1 DEF Advance
<1>2. CASE RegisterTick
  BY <1>2 DEF RegisterTick
<1>3. CASE ClockInit
  BY <1>3 DEF ClockInit
<1> QED BY <1>1, <1>2, <1>3, SMTT(60)

(* What tick leaves behind: only callbacks after the new ticks, of tasks   *)
(* it did not wake.                                                        *)
LEMMA TickKeepsOthers ==
  ASSUME TypeOK, CallbackWakesSleeper, NEW n \in Nat, Tick(n)
  PROVE  /\ ticks' = ticks + n
         /\ DOMAIN callbacks' \subseteq DOMAIN callbacks
         /\ \A k \in DOMAIN callbacks' : k > ticks' /\ callbacks'[k] = callbacks[k]
         /\ CallbackWakesSleeper'
         /\ sleeping' \subseteq Tasks
         /\ deadline' \in [Tasks -> 0 .. MaxTime]
         /\ \A t \in sleeping \ sleeping' : deadline[t] <= ticks'
<1> DEFINE now == ticks + n
           due == {k \in DOMAIN callbacks : k <= now}
           woken == {callbacks[k] : k \in due}
<1>1. /\ ticks' = now
      /\ callbacks' = [k \in DOMAIN callbacks \ due |-> callbacks[k]]
      /\ sleeping' = sleeping \ woken
      /\ deadline' = [t \in Tasks |-> IF t \in woken THEN 0 ELSE deadline[t]]
  BY DEF Tick, Without
<1>2. DOMAIN callbacks' = DOMAIN callbacks \ due
  BY <1>1
<1>3. ASSUME NEW k \in DOMAIN callbacks'
      PROVE  k > now /\ callbacks'[k] = callbacks[k] /\ callbacks[k] \notin woken
  <2>1. k \in DOMAIN callbacks /\ k \notin due /\ callbacks'[k] = callbacks[k]
    BY <1>1, <1>2, <1>3
  <2>2. k > now
    BY <2>1 DEF TypeOK
  <2>3. callbacks[k] \notin woken
    BY <2>1 DEF CallbackWakesSleeper
  <2> QED BY <2>1, <2>2, <2>3
<1>4. CallbackWakesSleeper'
  <2> SUFFICES ASSUME NEW k \in DOMAIN callbacks'
               PROVE  callbacks'[k] \in sleeping' /\ deadline'[callbacks'[k]] = k
    BY DEF CallbackWakesSleeper
  <2>1. k \in DOMAIN callbacks
    BY <1>2
  <2>2. callbacks[k] \in sleeping /\ deadline[callbacks[k]] = k /\ callbacks[k] \in Tasks
    BY <2>1 DEF CallbackWakesSleeper, TypeOK
  <2>3. callbacks'[k] = callbacks[k] /\ callbacks[k] \notin woken
    BY <1>3
  <2> QED BY <1>1, <2>2, <2>3
<1>5. deadline' \in [Tasks -> 0 .. MaxTime]
  BY <1>1, ClockAssumption DEF TypeOK
<1>6. ASSUME NEW t \in sleeping \ sleeping' PROVE deadline[t] <= now
  BY <1>1, <1>6 DEF CallbackWakesSleeper
<1> HIDE DEF now, due, woken
<1>7. sleeping' \subseteq Tasks
  BY <1>1 DEF TypeOK
<1> QED BY <1>1, <1>2, <1>3, <1>4, <1>5, <1>6, <1>7 DEF now

(* The timer interrupt.                                                    *)
LEMMA HpetTickStep ==
  ASSUME IInv, HpetTick
  PROVE  IInv' /\ \A t \in sleeping \ sleeping' : deadline[t] <= counter + Gap
<1>1. /\ counter > last /\ last' = counter
      /\ counter' = counter /\ stage' = stage /\ busy' = busy
  BY DEF HpetTick
<1>2. CASE stage = "clock"
  <2>1. counter - last \in Nat /\ Tick(counter - last)
    BY <1>1, <1>2, ClockAssumption DEF HpetTick, IInv, TypeOK
  <2>2. TypeOK /\ CallbackWakesSleeper
    BY DEF IInv
  <2>3. /\ ticks' = ticks + (counter - last)
        /\ DOMAIN callbacks' \subseteq DOMAIN callbacks
        /\ \A k \in DOMAIN callbacks' : k > ticks' /\ callbacks'[k] = callbacks[k]
        /\ CallbackWakesSleeper'
        /\ sleeping' \subseteq Tasks
        /\ deadline' \in [Tasks -> 0 .. MaxTime]
        /\ \A t \in sleeping \ sleeping' : deadline[t] <= ticks'
    BY <2>1, <2>2, TickKeepsOthers
  <2>4. TypeOK'
    BY <1>1, <2>1, <2>3 DEF IInv, TypeOK
  <2>5. ticks' <= counter + Gap
    BY <2>3, ClockAssumption DEF IInv, TypeOK, TicksNearLast
  <2>6. TicksNearLast' /\ NoCallbackLate'
    BY <1>1, <2>3, <2>4, <2>5, ClockAssumption
       DEF IInv, TypeOK, TicksNearLast, NoCallbackLate
  <2>7. CallbacksAfterInit'
    BY <1>1, <1>2 DEF CallbacksAfterInit
  <2>8. ASSUME NEW t \in sleeping \ sleeping' PROVE deadline[t] <= counter + Gap
    <3>1. deadline[t] <= ticks' /\ deadline[t] \in Nat
      BY <2>3, <2>8 DEF IInv, TypeOK
    <3> QED BY <2>3, <2>4, <2>5, <3>1, ClockAssumption DEF IInv, TypeOK
  <2> QED BY <2>3, <2>4, <2>6, <2>7, <2>8 DEF IInv
<1>3. CASE stage # "clock"
  BY <1>1, <1>3, ClockAssumption
     DEF HpetTick, IInv, TypeOK, TicksNearLast, CallbacksAfterInit, NoCallbackLate,
         CallbackWakesSleeper
<1> QED BY <1>2, <1>3

(* A task goes to sleep.                                                   *)
LEMMA NanosleepStep ==
  ASSUME IInv, NEW t \in Tasks, NEW ns \in Durations, Nanosleep(t, ns)
  PROVE  IInv' /\ sleeping \subseteq sleeping'
<1> DEFINE at == counter + ns
<1>1. at \in 0 .. MaxTime /\ at >= counter
  BY ClockAssumption DEF Nanosleep, IInv, TypeOK
<1>2. /\ stage = "clock" /\ stage' = stage /\ t \notin sleeping
      /\ counter' = counter /\ last' = last /\ busy' = busy /\ ticks' = counter
      /\ callbacks' = [k \in DOMAIN callbacks \cup {at} |-> IF k = at THEN t ELSE callbacks[k]]
      /\ sleeping' = sleeping \cup {t}
      /\ deadline' = [deadline EXCEPT ![t] = at]
  BY DEF Nanosleep, GetTick, CallbackAt
<1> HIDE DEF at
<1>3. DOMAIN callbacks' = DOMAIN callbacks \cup {at}
  BY <1>2
<1>4. TypeOK'
  BY <1>1, <1>2, <1>3 DEF IInv, TypeOK
<1>5. TicksNearLast' /\ CallbacksAfterInit' /\ NoCallbackLate'
  BY <1>1, <1>2, <1>3, ClockAssumption
     DEF IInv, TypeOK, TicksNearLast, CallbacksAfterInit, NoCallbackLate
<1>6. CallbackWakesSleeper'
  <2> SUFFICES ASSUME NEW k \in DOMAIN callbacks'
               PROVE  callbacks'[k] \in sleeping' /\ deadline'[callbacks'[k]] = k
    BY DEF CallbackWakesSleeper
  <2>1. CASE k = at
    BY <1>2, <1>3, <2>1 DEF IInv, TypeOK
  <2>2. CASE k # at
    <3>1. k \in DOMAIN callbacks /\ callbacks'[k] = callbacks[k]
      BY <1>2, <1>3, <2>2
    <3>2. callbacks[k] \in sleeping /\ deadline[callbacks[k]] = k /\ callbacks[k] \in Tasks
      BY <3>1 DEF IInv, TypeOK, CallbackWakesSleeper
    <3> QED BY <1>2, <3>1, <3>2 DEF IInv, TypeOK
  <2> QED BY <2>1, <2>2
<1> QED BY <1>2, <1>4, <1>5, <1>6 DEF IInv

(* The busy loop changes nothing but its own variable.                     *)
LEMMA BusySteps ==
  ASSUME IInv, BusySleepEnds \/ \E ns \in Durations : BusySleep(ns)
  PROVE  IInv' /\ sleeping' = sleeping
<1>1. busy' \in SUBSET Nat
  BY ClockAssumption DEF BusySleep, BusySleepEnds, IInv, TypeOK
<1>2. UNCHANGED <<counter, stage, last, ticks, callbacks, sleeping, deadline>>
  BY DEF BusySleep, BusySleepEnds
<1> QED BY <1>1, <1>2
        DEF IInv, TypeOK, TicksNearLast, CallbacksAfterInit, NoCallbackLate, CallbackWakesSleeper

(* A step keeps the invariant, and wakes nobody too early.                 *)
LEMMA StepHolds ==
  ASSUME IInv, [Next]_vars
  PROVE  IInv' /\ \A t \in sleeping \ sleeping' : deadline[t] <= counter + Gap
<1>1. CASE Advance \/ RegisterTick \/ ClockInit
  <2>1. sleeping' = sleeping
    BY <1>1 DEF Advance, RegisterTick, ClockInit, taskVars
  <2> QED BY <1>1, <2>1, MainSteps
<1>2. CASE HpetTick
  BY <1>2, HpetTickStep
<1>3. ASSUME NEW t \in Tasks, NEW ns \in Durations, Nanosleep(t, ns)
      PROVE  IInv' /\ sleeping \subseteq sleeping'
  BY <1>3, NanosleepStep
<1>4. CASE BusySleepEnds \/ \E ns \in Durations : BusySleep(ns)
  BY <1>4, BusySteps
<1>5. CASE UNCHANGED vars
  BY <1>5 DEF vars, IInv, TypeOK, TicksNearLast, CallbacksAfterInit, NoCallbackLate,
              CallbackWakesSleeper
<1> QED BY <1>1, <1>2, <1>3, <1>4, <1>5 DEF Next

(* The inductive invariant of the clock.                                   *)
THEOREM Invariance == Spec => []IInv
<1>1. IInv /\ [Next]_vars => IInv'
  BY StepHolds
<1> QED BY InitHolds, <1>1, PTL DEF Spec

(* Counter, ticks, callbacks and deadlines stay in range.                  *)
THEOREM TypeCorrect == Spec => []TypeOK
<1>1. IInv => TypeOK
  BY DEF IInv
<1> QED BY Invariance, <1>1, PTL

(* After a timer interrupt no callback is left whose time had come, for    *)
(* any bound on the time between interrupts and any late installation of   *)
(* the clock.                                                              *)
THEOREM CallbacksInTime == Spec => []NoCallbackLate
<1>1. IInv => NoCallbackLate
  BY DEF IInv
<1> QED BY Invariance, <1>1, PTL

(* A callback wakes the sleeping task that left it, at the time that task  *)
(* asked for.                                                              *)
THEOREM WakesItsSleeper == Spec => []CallbackWakesSleeper
<1>1. IInv => CallbackWakesSleeper
  BY DEF IInv
<1> QED BY Invariance, <1>1, PTL

(* tick runs no callback more than one gap before its time: the error that *)
(* get_tick brings into ticks does not add up.                             *)
THEOREM EarlinessBounded == Spec => EarlyByAtMostOneGap
<1>1. IInv /\ [Next]_vars => [\A t \in sleeping \ sleeping' : deadline[t] <= counter + Gap]_vars
  BY StepHolds
<1> QED BY Invariance, <1>1, PTL DEF Spec, EarlyByAtMostOneGap

=============================================================================
