-------------------------- MODULE SemaphoreProofs --------------------------
(***************************************************************************)
(* Proofs about module Semaphore, for every finite set of tasks and every  *)
(* maximum.                                                                *)
(***************************************************************************)
EXTENDS Semaphore, FiniteSetTheorems, SequenceTheorems, TLAPS

-----------------------------------------------------------------------------
(* Queues of tasks.                                                        *)

Queued(q) == {q[i] : i \in 1 .. Len(q)}

Distinct(q) == \A i, j \in 1 .. Len(q) : q[i] = q[j] => i = j

(* push_back adds the task and nothing else, and keeps a queue without     *)
(* repetitions that way if the task was not in it.                         *)
LEMMA PushBack ==
  ASSUME NEW S, NEW q \in Seq(S), NEW e \in S
  PROVE  /\ Append(q, e) \in Seq(S)
         /\ Queued(Append(q, e)) = Queued(q) \cup {e}
         /\ Distinct(q) /\ e \notin Queued(q) => Distinct(Append(q, e))
<1> DEFINE r == Append(q, e)
<1>1. /\ r \in Seq(S)
      /\ Len(r) = Len(q) + 1
      /\ \A i \in 1 .. Len(q) : r[i] = q[i]
      /\ r[Len(q) + 1] = e
      /\ Len(q) \in Nat
  BY AppendProperties, LenProperties
<1> HIDE DEF r
<1>2. Queued(r) = Queued(q) \cup {e}
  BY <1>1 DEF Queued
<1>3. Distinct(q) /\ e \notin Queued(q) => Distinct(r)
  BY <1>1 DEF Distinct, Queued
<1> QED BY <1>1, <1>2, <1>3 DEF r

(* pop_front takes out one occurrence of the front and nothing else.       *)
LEMMA PopFront ==
  ASSUME NEW S, NEW q \in Seq(S), q # <<>>
  PROVE  /\ Head(q) \in S
         /\ Tail(q) \in Seq(S)
         /\ Queued(q) = Queued(Tail(q)) \cup {Head(q)}
         /\ Distinct(q) => Distinct(Tail(q)) /\ Head(q) \notin Queued(Tail(q))
<1> DEFINE r == Tail(q)  h == Head(q)
<1>1. /\ r \in Seq(S) /\ h \in S
      /\ Len(q) \in Nat /\ Len(q) # 0
      /\ Len(r) = Len(q) - 1
      /\ h = q[1]
      /\ \A i \in 1 .. Len(r) : r[i] = q[i + 1]
  BY HeadTailProperties, LenProperties, EmptySeq
<1> HIDE DEF r, h
<1>2. Queued(q) = Queued(r) \cup {h}
  <2>1. ASSUME NEW x \in Queued(q) PROVE x \in Queued(r) \cup {h}
    <3>1. PICK i \in 1 .. Len(q) : x = q[i]
      BY DEF Queued
    <3>2. CASE i = 1
      BY <3>1, <3>2, <1>1
    <3>3. CASE i # 1
      <4>1. i - 1 \in 1 .. Len(r) /\ r[i - 1] = q[i]
        BY <3>3, <1>1
      <4> QED BY <4>1, <3>1 DEF Queued
    <3> QED BY <3>2, <3>3
  <2>2. ASSUME NEW x \in Queued(r) \cup {h} PROVE x \in Queued(q)
    <3>1. CASE x = h
      BY <3>1, <1>1 DEF Queued
    <3>2. CASE x \in Queued(r)
      <4>1. PICK i \in 1 .. Len(r) : x = r[i]
        BY <3>2 DEF Queued
      <4>2. i + 1 \in 1 .. Len(q) /\ x = q[i + 1]
        BY <4>1, <1>1
      <4> QED BY <4>2 DEF Queued
    <3> QED BY <2>2, <3>1, <3>2
  <2> QED BY <2>1, <2>2
<1>3. Distinct(q) => Distinct(r) /\ h \notin Queued(r)
  <2> SUFFICES ASSUME Distinct(q) PROVE Distinct(r) /\ h \notin Queued(r)
    OBVIOUS
  <2>1. Distinct(r)
    <3>1. ASSUME NEW i \in 1 .. Len(r), NEW j \in 1 .. Len(r), r[i] = r[j]
          PROVE  i = j
      <4>1. i + 1 \in 1 .. Len(q) /\ j + 1 \in 1 .. Len(q) /\ q[i + 1] = q[j + 1]
        BY <3>1, <1>1
      <4>2. i + 1 = j + 1
        BY <4>1 DEF Distinct
      <4> QED BY <4>2
    <3> QED BY <3>1 DEF Distinct
  <2>2. ASSUME NEW i \in 1 .. Len(r), h = r[i] PROVE FALSE
    <3>1. i + 1 \in 1 .. Len(q) /\ 1 \in 1 .. Len(q)
      BY <1>1
    <3>2. q[i + 1] = q[1]
      BY <2>2, <1>1, Zenon
    <3>3. i + 1 = 1
      BY <3>1, <3>2 DEF Distinct
    <3> QED BY <3>3
  <2> QED BY <2>1, <2>2 DEF Queued
<1> QED BY <1>1, <1>2, <1>3 DEF r, h

-----------------------------------------------------------------------------
(* The inductive invariant.  Beside TypeOK it says where a blocked task    *)
(* is: in the queue of the call it is in, or popped by one task.           *)

Wakers == {t \in Tasks : pc[t] \in {"wakeR", "wakeW"}}

Queues ==
  /\ Distinct(waiting) /\ Distinct(releasing)
  /\ \A t \in Queued(waiting) : pc[t] = "wait" /\ ~runnable[t]
  /\ \A t \in Queued(releasing) : pc[t] = "signal" /\ ~runnable[t]

Targets ==
  /\ \A t \in Tasks : pc[t] = "wakeW" => pc[popped[t]] = "wait"
  /\ \A t \in Tasks : pc[t] = "wakeR" => pc[popped[t]] = "signal"
  /\ \A t \in Wakers : /\ ~runnable[popped[t]]
                       /\ popped[t] \notin Queued(waiting) \cup Queued(releasing)
  /\ \A t, u \in Wakers : popped[t] = popped[u] => t = u

Blocked ==
  \A t \in Tasks : ~runnable[t] =>
    \/ t \in Queued(waiting) \cup Queued(releasing)
    \/ \E u \in Wakers : popped[u] = t

IInv == TypeOK /\ Queues /\ Targets /\ Blocked /\ NoLostWakeup /\ NoLostRelease

(* Every step keeps the types.                                             *)
LEMMA TypeStep == TypeOK /\ [Next]_vars => TypeOK'
<1> SUFFICES ASSUME TypeOK, [Next]_vars PROVE TypeOK'
  OBVIOUS
<1> USE SemaphoreAssumption DEF TypeOK, Places, At, Goto
<1>1. ASSUME NEW t \in Tasks, Call(t) PROVE TypeOK'
  BY <1>1 DEF Call
<1>2. ASSUME NEW t \in Tasks, WaitTake(t) PROVE TypeOK'
  BY <1>2 DEF WaitTake
<1>3. ASSUME NEW t \in Tasks, WaitBlock(t) PROVE TypeOK'
  BY <1>3, PushBack DEF WaitBlock
<1>4. ASSUME NEW t \in Tasks, TryWait(t) PROVE TypeOK'
  BY <1>4 DEF TryWait
<1>5. ASSUME NEW t \in Tasks, PopReleasing(t) PROVE TypeOK'
  <2>1. CASE releasing = <<>>
    BY <1>5, <2>1 DEF PopReleasing
  <2>2. CASE releasing # <<>>
    <3>1. Head(releasing) \in Tasks /\ Tail(releasing) \in Seq(Tasks)
      BY <2>2, PopFront
    <3> QED BY <1>5, <2>2, <3>1, Zenon DEF PopReleasing
  <2> QED BY <2>1, <2>2
<1>6. ASSUME NEW t \in Tasks, Wake(t) PROVE TypeOK'
  BY <1>6 DEF Wake
<1>7. ASSUME NEW t \in Tasks, SignalPut(t) PROVE TypeOK'
  BY <1>7 DEF SignalPut
<1>8. ASSUME NEW t \in Tasks, SignalBlock(t) PROVE TypeOK'
  BY <1>8, PushBack DEF SignalBlock
<1>9. ASSUME NEW t \in Tasks, TrySignal(t) PROVE TypeOK'
  BY <1>9 DEF TrySignal
<1>10. ASSUME NEW t \in Tasks, PopWaiting(t) PROVE TypeOK'
  <2>1. CASE waiting = <<>>
    BY <1>10, <2>1 DEF PopWaiting
  <2>2. CASE waiting # <<>>
    <3>1. Head(waiting) \in Tasks /\ Tail(waiting) \in Seq(Tasks)
      BY <2>2, PopFront
    <3> QED BY <1>10, <2>2, <3>1, Zenon DEF PopWaiting
  <2> QED BY <2>1, <2>2
<1>11. CASE IsrTrySignal
  <2>1. CASE waiting = <<>>
    BY <1>11, <2>1 DEF IsrTrySignal
  <2>2. CASE waiting # <<>>
    <3>1. Head(waiting) \in Tasks /\ Tail(waiting) \in Seq(Tasks)
      BY <2>2, PopFront
    <3>2. count' \in 0 .. Max
      BY <1>11 DEF IsrTrySignal
    <3>3. waiting' \in Seq(Tasks) /\ runnable' \in [Tasks -> BOOLEAN]
      BY <1>11, <2>2, <3>1, Zenon DEF IsrTrySignal
    <3> QED BY <1>11, <3>2, <3>3 DEF IsrTrySignal
  <2> QED BY <2>1, <2>2
<1>12. CASE UNCHANGED vars
  BY <1>12 DEF vars
<1> QED
  BY <1>1, <1>2, <1>3, <1>4, <1>5, <1>6, <1>7, <1>8, <1>9, <1>10, <1>11, <1>12, SMTT(60)
  DEF Next, Step

(* The places where blocked tasks are kept.                                *)
Kept == Queues /\ Targets /\ Blocked

(* Every step keeps each blocked task in one place.                        *)
LEMMA KeptStep == TypeOK /\ Kept /\ [Next]_vars => Kept'
<1> SUFFICES ASSUME TypeOK, Kept, [Next]_vars PROVE Kept'
  OBVIOUS
<1>0. /\ waiting \in Seq(Tasks) /\ releasing \in Seq(Tasks)
      /\ runnable \in [Tasks -> BOOLEAN] /\ pc \in [Tasks -> Places]
      /\ popped \in [Tasks -> Tasks]
  BY DEF TypeOK
<1>q. Queued(waiting) \subseteq Tasks /\ Queued(releasing) \subseteq Tasks
  BY <1>0, SMTT(60) DEF Queued
<1> USE <1>0, <1>q DEF Kept, Queues, Targets, Blocked, Wakers, At, Goto
<1>1. ASSUME NEW t \in Tasks, Call(t) PROVE Kept'
  BY <1>1 DEF Call
<1>2. ASSUME NEW t \in Tasks, WaitTake(t) PROVE Kept'
  BY <1>2 DEF WaitTake
<1>3. ASSUME NEW t \in Tasks, WaitBlock(t) PROVE Kept'
  <2>1. /\ Queued(waiting') = Queued(waiting) \cup {t}
        /\ t \notin Queued(waiting) => Distinct(waiting')
    BY <1>3, PushBack DEF WaitBlock
  <2> QED BY <1>3, <2>1 DEF WaitBlock
<1>4. ASSUME NEW t \in Tasks, TryWait(t) PROVE Kept'
  BY <1>4, SMTT(60) DEF TryWait
<1>5. ASSUME NEW t \in Tasks, PopReleasing(t) PROVE Kept'
  <2>1. CASE releasing = <<>>
    BY <1>5, <2>1, SMTT(60) DEF PopReleasing
  <2>2. CASE releasing # <<>>
    <3> DEFINE h == Head(releasing)  r == Tail(releasing)
    <3>1. /\ h \in Tasks
          /\ Queued(releasing) = Queued(r) \cup {h}
          /\ Distinct(r) /\ h \notin Queued(r)
      <4>1. Distinct(releasing)
        OBVIOUS
      <4> QED BY <2>2, <4>1, PopFront
    <3>2. releasing' = r
      BY <1>5, <2>2 DEF PopReleasing
    <3> HIDE DEF r
    <3>3. Queues'
      BY <1>5, <2>2, <3>1, <3>2 DEF PopReleasing
    <3>a. /\ pc' = [pc EXCEPT ![t] = "wakeR"]
          /\ popped' = [popped EXCEPT ![t] = h]
          /\ runnable' = runnable /\ waiting' = waiting
          /\ runnable[t] /\ t \notin Wakers
          /\ Wakers' = Wakers \cup {t}
      BY <1>5, <2>2 DEF PopReleasing
    <3>4. Targets'
      <4>1. ASSUME NEW u \in Tasks, u # t
            PROVE  pc'[u] = pc[u] /\ popped'[u] = popped[u]
        BY <3>a, <4>1
      <4>2. pc'[t] = "wakeR" /\ popped'[t] = h /\ h # t
        BY <3>a, <3>1
      <4>3. ASSUME NEW u \in Wakers PROVE popped[u] # h /\ popped[u] # t
        BY <3>a, <3>1
      <4>4. pc'[h] = pc[h] /\ ~runnable[h] /\ h \notin Queued(waiting)
        BY <3>1, <4>1, <4>2
      <4> QED BY <3>a, <3>1, <3>2, <4>1, <4>2, <4>3, <4>4, SMTT(60)
    <3>5. Blocked'
      <4> SUFFICES ASSUME NEW u \in Tasks, ~runnable[u]
                   PROVE  \/ u \in Queued(releasing') \cup Queued(waiting')
                          \/ \E v \in Wakers' : popped'[v] = u
        BY <3>a
      <4>1. CASE u = h
        BY <4>1, <3>a
      <4>2. CASE u \in Queued(r) \cup Queued(waiting)
        BY <4>2, <3>2, <3>a
      <4>3. ASSUME NEW v \in Wakers, popped[v] = u
            PROVE  v \in Wakers' /\ popped'[v] = u
        BY <4>3, <3>a, SMTT(60)
      <4> QED BY <4>1, <4>2, <4>3, <3>1
    <3> QED BY <3>3, <3>4, <3>5
  <2> QED BY <2>1, <2>2
<1>6. ASSUME NEW t \in Tasks, Wake(t) PROVE Kept'
  BY <1>6 DEF Wake
<1>7. ASSUME NEW t \in Tasks, SignalPut(t) PROVE Kept'
  BY <1>7 DEF SignalPut
<1>8. ASSUME NEW t \in Tasks, SignalBlock(t) PROVE Kept'
  <2>1. /\ Queued(releasing') = Queued(releasing) \cup {t}
        /\ t \notin Queued(releasing) => Distinct(releasing')
    BY <1>8, PushBack DEF SignalBlock
  <2> QED BY <1>8, <2>1 DEF SignalBlock
<1>9. ASSUME NEW t \in Tasks, TrySignal(t) PROVE Kept'
  BY <1>9, SMTT(60) DEF TrySignal
<1>10. ASSUME NEW t \in Tasks, PopWaiting(t) PROVE Kept'
  <2>1. CASE waiting = <<>>
    BY <1>10, <2>1, SMTT(60) DEF PopWaiting
  <2>2. CASE waiting # <<>>
    <3> DEFINE h == Head(waiting)  r == Tail(waiting)
    <3>1. /\ h \in Tasks
          /\ Queued(waiting) = Queued(r) \cup {h}
          /\ Distinct(r) /\ h \notin Queued(r)
      <4>1. Distinct(waiting)
        OBVIOUS
      <4> QED BY <2>2, <4>1, PopFront
    <3>2. waiting' = r
      BY <1>10, <2>2 DEF PopWaiting
    <3> HIDE DEF r
    <3>3. Queues'
      BY <1>10, <2>2, <3>1, <3>2 DEF PopWaiting
    <3>a. /\ pc' = [pc EXCEPT ![t] = "wakeW"]
          /\ popped' = [popped EXCEPT ![t] = h]
          /\ runnable' = runnable /\ releasing' = releasing
          /\ runnable[t] /\ t \notin Wakers
          /\ Wakers' = Wakers \cup {t}
      BY <1>10, <2>2 DEF PopWaiting
    <3>4. Targets'
      <4>1. ASSUME NEW u \in Tasks, u # t
            PROVE  pc'[u] = pc[u] /\ popped'[u] = popped[u]
        BY <3>a, <4>1
      <4>2. pc'[t] = "wakeW" /\ popped'[t] = h /\ h # t
        BY <3>a, <3>1
      <4>3. ASSUME NEW u \in Wakers PROVE popped[u] # h /\ popped[u] # t
        BY <3>a, <3>1, SMTT(60)
      <4>4. pc'[h] = pc[h] /\ ~runnable[h] /\ h \notin Queued(releasing)
        BY <3>1, <4>1, <4>2, SMTT(60)
      <4> QED BY <3>a, <3>1, <3>2, <4>1, <4>2, <4>3, <4>4, SMTT(60)
    <3>5. Blocked'
      <4> SUFFICES ASSUME NEW u \in Tasks, ~runnable[u]
                   PROVE  \/ u \in Queued(waiting') \cup Queued(releasing')
                          \/ \E v \in Wakers' : popped'[v] = u
        BY <3>a
      <4>1. CASE u = h
        BY <4>1, <3>a
      <4>2. CASE u \in Queued(r) \cup Queued(releasing)
        BY <4>2, <3>2, <3>a
      <4>3. ASSUME NEW v \in Wakers, popped[v] = u
            PROVE  v \in Wakers' /\ popped'[v] = u
        BY <4>3, <3>a, SMTT(60)
      <4> QED BY <4>1, <4>2, <4>3, <3>1
    <3> QED BY <3>3, <3>4, <3>5
  <2> QED BY <2>1, <2>2
<1>11. CASE IsrTrySignal
  <2>1. CASE waiting = <<>>
    BY <1>11, <2>1, SMTT(60) DEF IsrTrySignal
  <2>2. CASE waiting # <<>>
    <3> DEFINE h == Head(waiting)  r == Tail(waiting)
    <3>1. /\ h \in Tasks
          /\ Queued(waiting) = Queued(r) \cup {h}
          /\ Distinct(r) /\ h \notin Queued(r)
      <4>1. Distinct(waiting)
        OBVIOUS
      <4> QED BY <2>2, <4>1, PopFront
    <3>2. waiting' = r
      BY <1>11, <2>2 DEF IsrTrySignal
    <3> HIDE DEF r
    <3>3. Queues'
      <4>1. /\ runnable' = [runnable EXCEPT ![h] = TRUE]
            /\ pc' = pc /\ releasing' = releasing
        BY <1>11, <2>2 DEF IsrTrySignal
      <4>2. pc[h] = "wait" /\ h \notin Queued(releasing)
        BY <3>1
      <4> QED BY <3>1, <3>2, <4>1, <4>2, SMTT(60)
    <3>4. Targets'
      BY <1>11, <2>2, <3>1, <3>2, SMTT(60) DEF IsrTrySignal
    <3>5. Blocked'
      BY <1>11, <2>2, <3>1, <3>2, SMTT(60) DEF IsrTrySignal
    <3> QED BY <3>3, <3>4, <3>5
  <2> QED BY <2>1, <2>2
<1>12. CASE UNCHANGED vars
  BY <1>12 DEF vars
<1> QED
  BY <1>1, <1>2, <1>3, <1>4, <1>5, <1>6, <1>7, <1>8, <1>9, <1>10, <1>11, <1>12, ZenonT(60)
  DEF Next, Step

-----------------------------------------------------------------------------
(* Counting the tasks under way.                                           *)

(* A set of tasks that gains an element, loses at most one, or exchanges   *)
(* one for another, counts one more, at most one less, at least as many.   *)
LEMMA Served ==
  ASSUME NEW S \in SUBSET Tasks, NEW T \in SUBSET Tasks
  PROVE  /\ Cardinality(S) \in Nat /\ Cardinality(T) \in Nat
         /\ S \subseteq T => Cardinality(S) <= Cardinality(T)
         /\ \A x \in T \ S : S \subseteq T => Cardinality(S) + 1 <= Cardinality(T)
         /\ \A x \in Tasks : S \ {x} \subseteq T => Cardinality(S) - 1 <= Cardinality(T)
         /\ \A x \in S : \A y \in T \ S :
              S \ {x} \subseteq T => Cardinality(S) <= Cardinality(T)
<1>1. IsFiniteSet(S) /\ IsFiniteSet(T)
  BY SemaphoreAssumption, FS_Subset
<1>2. Cardinality(S) \in Nat /\ Cardinality(T) \in Nat
  BY <1>1, FS_CardinalityType
<1>3. S \subseteq T => Cardinality(S) <= Cardinality(T)
  BY <1>1, FS_Subset
<1>4. ASSUME NEW x \in T \ S, S \subseteq T
      PROVE  Cardinality(S) + 1 <= Cardinality(T)
  <2>1. Cardinality(S \cup {x}) = Cardinality(S) + 1
    BY <1>1, FS_AddElement, Zenon
  <2>2. Cardinality(S \cup {x}) <= Cardinality(T)
    BY <1>1, <1>4, FS_Subset
  <2> QED BY <2>1, <2>2
<1>5. ASSUME NEW x \in Tasks, S \ {x} \subseteq T
      PROVE  Cardinality(S) - 1 <= Cardinality(T)
  <2>1. Cardinality(S \ {x}) = IF x \in S THEN Cardinality(S) - 1 ELSE Cardinality(S)
    BY <1>1, FS_RemoveElement, Zenon
  <2>2. Cardinality(S \ {x}) <= Cardinality(T)
    BY <1>1, <1>5, FS_Subset
  <2> QED BY <1>2, <2>1, <2>2
<1>6. ASSUME NEW x \in S, NEW y \in T \ S, S \ {x} \subseteq T
      PROVE  Cardinality(S) <= Cardinality(T)
  <2> DEFINE R == S \ {x}
  <2>1. IsFiniteSet(R) /\ Cardinality(R) = Cardinality(S) - 1
    BY <1>1, FS_RemoveElement
  <2>2. Cardinality(R \cup {y}) = Cardinality(R) + 1
    BY <2>1, FS_AddElement
  <2>3. Cardinality(R \cup {y}) <= Cardinality(T)
    BY <1>1, <1>6, FS_Subset
  <2> QED BY <1>2, <2>1, <2>2, <2>3
<1> QED BY <1>2, <1>3, <1>4, <1>5, <1>6, SMTT(60)

(* No step loses the wake-up of a waiter.                                  *)
LEMMA WakeupStep == TypeOK /\ Kept /\ NoLostWakeup /\ [Next]_vars => NoLostWakeup'
<1> SUFFICES ASSUME TypeOK, Kept, NoLostWakeup, [Next]_vars, waiting' # <<>>
             PROVE  count' <= Cardinality(ServeWaiting')
  BY DEF NoLostWakeup
<1> DEFINE S == ServeWaiting  T == ServeWaiting'
<1>0. /\ count \in Nat /\ Max \in Nat /\ count <= Max
      /\ runnable \in [Tasks -> BOOLEAN] /\ pc \in [Tasks -> Places]
      /\ popped \in [Tasks -> Tasks]
      /\ S \in SUBSET Tasks /\ T \in SUBSET Tasks
  BY SemaphoreAssumption DEF TypeOK, ServeWaiting
<1>c. /\ Cardinality(S) \in Nat /\ Cardinality(T) \in Nat
      /\ S \subseteq T => Cardinality(S) <= Cardinality(T)
      /\ \A x \in T \ S : S \subseteq T => Cardinality(S) + 1 <= Cardinality(T)
      /\ \A x \in Tasks : S \ {x} \subseteq T => Cardinality(S) - 1 <= Cardinality(T)
      /\ \A x \in S : \A y \in T \ S :
           S \ {x} \subseteq T => Cardinality(S) <= Cardinality(T)
  BY <1>0, Served
<1>p. waiting # <<>> => count <= Cardinality(S)
  BY DEF NoLostWakeup
<1> HIDE DEF S, T
<1> USE <1>0 DEF At, Goto
<1>1. ASSUME NEW t \in Tasks, Call(t) PROVE count' <= Cardinality(T)
  <2>1. S \subseteq T
    BY <1>1 DEF Call, S, T, ServeWaiting
  <2> QED BY <1>1, <2>1, <1>c, <1>p, SMTT(60) DEF Call
<1>2. ASSUME NEW t \in Tasks, WaitTake(t) \/ TryWait(t)
      PROVE  count' <= Cardinality(T)
  <2>1. S \ {t} \subseteq T
    BY <1>2 DEF WaitTake, TryWait, S, T, ServeWaiting
  <2>2. count' = count - 1 /\ waiting # <<>>
    BY <1>2 DEF WaitTake, TryWait
  <2> QED BY <2>1, <2>2, <1>c, <1>p
<1>3. ASSUME NEW t \in Tasks, WaitBlock(t) PROVE count' <= Cardinality(T)
  BY <1>3, <1>c DEF WaitBlock
<1>4. ASSUME NEW t \in Tasks, SignalPut(t) \/ TrySignal(t)
      PROVE  count' <= Cardinality(T)
  <2>1. S \subseteq T /\ t \in T \ S
    BY <1>4 DEF SignalPut, TrySignal, S, T, ServeWaiting
  <2>2. count' = count + 1 /\ waiting # <<>>
    BY <1>4 DEF SignalPut, TrySignal
  <2> QED BY <2>1, <2>2, <1>c, <1>p
<1>5. ASSUME NEW t \in Tasks, SignalBlock(t) PROVE count' <= Cardinality(T)
  <2>1. S \subseteq T
    BY <1>5 DEF SignalBlock, S, T, ServeWaiting
  <2> QED BY <1>5, <2>1, <1>c, <1>p, SMTT(60) DEF SignalBlock
<1>6. ASSUME NEW t \in Tasks, PopReleasing(t) PROVE count' <= Cardinality(T)
  <2>1. S \subseteq T
    BY <1>6 DEF PopReleasing, S, T, ServeWaiting
  <2>2. count' = count /\ waiting # <<>>
    BY <1>6 DEF PopReleasing
  <2> QED BY <2>1, <2>2, <1>c, <1>p, SMTT(60)
<1>7. ASSUME NEW t \in Tasks, PopWaiting(t) PROVE count' <= Cardinality(T)
  <2>1. waiting # <<>>
    BY <1>7 DEF PopWaiting
  <2>2. S \subseteq T
    BY <1>7, <2>1 DEF PopWaiting, S, T, ServeWaiting
  <2> QED BY <1>7, <2>1, <2>2, <1>c, <1>p, SMTT(60) DEF PopWaiting
<1>8. ASSUME NEW t \in Tasks, Wake(t) PROVE count' <= Cardinality(T)
  <2>1. count' = count /\ waiting # <<>>
    BY <1>8 DEF Wake
  <2>2. CASE At(t, "wakeR")
    <3>1. S \subseteq T
      BY <1>8, <2>2 DEF Wake, S, T, ServeWaiting
    <3> QED BY <3>1, <2>1, <1>c, <1>p, SMTT(60)
  <2>3. CASE At(t, "wakeW")
    <3>1. /\ pc[popped[t]] = "wait" /\ ~runnable[popped[t]]
          /\ popped[t] \in Tasks /\ popped[t] # t
      BY <2>3 DEF Kept, Targets, Wakers
    <3>2. t \in S /\ popped[t] \in T \ S
      BY <1>8, <2>3, <3>1 DEF Wake, S, T, ServeWaiting
    <3>3. S \ {t} \subseteq T
      BY <1>8, <2>3, <3>1 DEF Wake, S, T, ServeWaiting
    <3> QED BY <3>2, <3>3, <2>1, <1>c, <1>p, SMTT(60)
  <2> QED BY <1>8, <2>2, <2>3, SMTT(60) DEF Wake
<1>9. ASSUME IsrTrySignal PROVE count' <= Cardinality(T)
  <2>1. waiting # <<>>
    BY <1>9 DEF IsrTrySignal
  <2> DEFINE h == Head(waiting)
  <2>2. h \in Tasks /\ pc[h] = "wait" /\ ~runnable[h]
    <3>1. waiting \in Seq(Tasks)
      BY DEF TypeOK
    <3>2. h \in Tasks /\ h \in Queued(waiting)
      BY <2>1, <3>1, PopFront
    <3> QED BY <3>2 DEF Kept, Queues
  <2>3. S \subseteq T /\ h \in T \ S
    BY <1>9, <2>1, <2>2 DEF IsrTrySignal, S, T, ServeWaiting
  <2>4. count' = count + 1
    BY <1>9 DEF IsrTrySignal
  <2> QED BY <2>1, <2>3, <2>4, <1>c, <1>p, SMTT(60)
<1>10. ASSUME UNCHANGED vars PROVE count' <= Cardinality(T)
  <2>1. S = T
    BY <1>10 DEF vars, S, T, ServeWaiting
  <2> QED BY <1>10, <2>1, <1>p DEF vars
<1>11. count' <= Cardinality(T)
  BY <1>1, <1>2, <1>3, <1>4, <1>5, <1>6, <1>7, <1>8, <1>9, <1>10, SMTT(60) DEF Next, Step
<1> QED BY <1>11 DEF T

(* No step loses the wake-up of a task held back in signal().              *)
LEMMA ReleaseStep == TypeOK /\ Kept /\ NoLostRelease /\ [Next]_vars => NoLostRelease'
<1> SUFFICES ASSUME TypeOK, Kept, NoLostRelease, [Next]_vars, releasing' # <<>>
             PROVE  (Max - count)' <= Cardinality(ServeReleasing')
  BY DEF NoLostRelease
<1> DEFINE S == ServeReleasing  T == ServeReleasing'
<1>0. /\ count \in Nat /\ Max \in Nat /\ count <= Max
      /\ runnable \in [Tasks -> BOOLEAN] /\ pc \in [Tasks -> Places]
      /\ popped \in [Tasks -> Tasks]
      /\ S \in SUBSET Tasks /\ T \in SUBSET Tasks
  BY SemaphoreAssumption DEF TypeOK, ServeReleasing
<1>c. /\ Cardinality(S) \in Nat /\ Cardinality(T) \in Nat
      /\ S \subseteq T => Cardinality(S) <= Cardinality(T)
      /\ \A x \in T \ S : S \subseteq T => Cardinality(S) + 1 <= Cardinality(T)
      /\ \A x \in Tasks : S \ {x} \subseteq T => Cardinality(S) - 1 <= Cardinality(T)
      /\ \A x \in S : \A y \in T \ S :
           S \ {x} \subseteq T => Cardinality(S) <= Cardinality(T)
  BY <1>0, Served
<1>p. releasing # <<>> => (Max - count) <= Cardinality(S)
  BY DEF NoLostRelease
<1> HIDE DEF S, T
<1> USE <1>0 DEF At, Goto
<1>1. ASSUME NEW t \in Tasks, Call(t) PROVE (Max - count)' <= Cardinality(T)
  <2>1. S \subseteq T
    BY <1>1 DEF Call, S, T, ServeReleasing
  <2> QED BY <1>1, <2>1, <1>c, <1>p DEF Call
<1>2. ASSUME NEW t \in Tasks, SignalPut(t) \/ TrySignal(t)
      PROVE  (Max - count)' <= Cardinality(T)
  <2>1. S \ {t} \subseteq T
    BY <1>2 DEF SignalPut, TrySignal, S, T, ServeReleasing
  <2>2. (Max - count)' = (Max - count) - 1 /\ releasing # <<>>
    BY <1>2 DEF SignalPut, TrySignal
  <2> QED BY <2>1, <2>2, <1>c, <1>p
<1>3. ASSUME NEW t \in Tasks, SignalBlock(t) PROVE (Max - count)' <= Cardinality(T)
  BY <1>3, <1>c DEF SignalBlock
<1>4. ASSUME NEW t \in Tasks, WaitTake(t) \/ TryWait(t)
      PROVE  (Max - count)' <= Cardinality(T)
  <2>1. S \subseteq T /\ t \in T \ S
    BY <1>4 DEF WaitTake, TryWait, S, T, ServeReleasing
  <2>2. (Max - count)' = (Max - count) + 1 /\ releasing # <<>>
    BY <1>4 DEF WaitTake, TryWait
  <2> QED BY <2>1, <2>2, <1>c, <1>p, SMTT(60)
<1>5. ASSUME NEW t \in Tasks, WaitBlock(t) PROVE (Max - count)' <= Cardinality(T)
  <2>1. S \subseteq T
    BY <1>5 DEF WaitBlock, S, T, ServeReleasing
  <2> QED BY <1>5, <2>1, <1>c, <1>p, SMTT(60) DEF WaitBlock
<1>6. ASSUME NEW t \in Tasks, PopWaiting(t) PROVE (Max - count)' <= Cardinality(T)
  <2>1. S \subseteq T
    BY <1>6 DEF PopWaiting, S, T, ServeReleasing
  <2>2. (Max - count)' = (Max - count) /\ releasing # <<>>
    BY <1>6 DEF PopWaiting
  <2> QED BY <2>1, <2>2, <1>c, <1>p, SMTT(60)
<1>7. ASSUME NEW t \in Tasks, PopReleasing(t) PROVE (Max - count)' <= Cardinality(T)
  <2>1. releasing # <<>>
    BY <1>7 DEF PopReleasing
  <2>2. S \subseteq T
    BY <1>7, <2>1 DEF PopReleasing, S, T, ServeReleasing
  <2> QED BY <1>7, <2>1, <2>2, <1>c, <1>p, SMTT(60) DEF PopReleasing
<1>8. ASSUME NEW t \in Tasks, Wake(t) PROVE (Max - count)' <= Cardinality(T)
  <2>1. (Max - count)' = (Max - count) /\ releasing # <<>>
    BY <1>8 DEF Wake
  <2>2. CASE At(t, "wakeW")
    <3>1. S \subseteq T
      BY <1>8, <2>2 DEF Wake, S, T, ServeReleasing
    <3> QED BY <3>1, <2>1, <1>c, <1>p, SMTT(60)
  <2>3. CASE At(t, "wakeR")
    <3>1. /\ pc[popped[t]] = "signal" /\ ~runnable[popped[t]]
          /\ popped[t] \in Tasks /\ popped[t] # t
      BY <2>3 DEF Kept, Targets, Wakers
    <3>2. t \in S /\ popped[t] \in T \ S
      BY <1>8, <2>3, <3>1, SMTT(60) DEF Wake, S, T, ServeReleasing
    <3>3. S \ {t} \subseteq T
      BY <1>8, <2>3, <3>1 DEF Wake, S, T, ServeReleasing
    <3> QED BY <3>2, <3>3, <2>1, <1>c, <1>p, SMTT(60)
  <2> QED BY <1>8, <2>2, <2>3 DEF Wake
<1>9. ASSUME IsrTrySignal PROVE (Max - count)' <= Cardinality(T)
  <2>1. (Max - count)' = Max - count - 1 /\ releasing # <<>>
    BY <1>9 DEF IsrTrySignal
  <2>2. S \subseteq T
    <3>1. CASE waiting = <<>>
      BY <1>9, <3>1 DEF IsrTrySignal, S, T, ServeReleasing
    <3>2. CASE waiting # <<>>
      BY <1>9, <3>2 DEF IsrTrySignal, S, T, ServeReleasing
    <3> QED BY <3>1, <3>2
  <2> QED BY <2>1, <2>2, <1>c, <1>p
<1>10. ASSUME UNCHANGED vars PROVE (Max - count)' <= Cardinality(T)
  <2>1. S = T
    BY <1>10 DEF vars, S, T, ServeReleasing
  <2> QED BY <1>10, <2>1, <1>p DEF vars
<1>11. (Max - count)' <= Cardinality(T)
  BY <1>1, <1>2, <1>3, <1>4, <1>5, <1>6, <1>7, <1>8, <1>9, <1>10, SMTT(60) DEF Next, Step
<1> QED BY <1>11 DEF T

-----------------------------------------------------------------------------
(* The invariant holds at the start.                                       *)
LEMMA InitIInv == Init => IInv
<1> SUFFICES ASSUME Init PROVE IInv
  OBVIOUS
<1>1. TypeOK
  BY EmptySeq, SemaphoreAssumption DEF Init, TypeOK, Places
<1>2. Queued(<<>>) = {} /\ Distinct(<<>>)
  BY EmptySeq DEF Queued, Distinct
<1>3. Queues /\ Targets /\ Blocked
  BY <1>2 DEF Init, Queues, Targets, Blocked, Wakers
<1>4. NoLostWakeup /\ NoLostRelease
  BY DEF Init, NoLostWakeup, NoLostRelease
<1> QED BY <1>1, <1>3, <1>4 DEF IInv

(* Every step preserves it.                                                *)
LEMMA StepIInv == IInv /\ [Next]_vars => IInv'
  BY TypeStep, KeptStep, WakeupStep, ReleaseStep DEF IInv, Kept

(* Every behaviour of the semaphore satisfies the inductive invariant.     *)
THEOREM Invariance == Spec => []IInv
  BY InitIInv, StepIInv, PTL DEF Spec

(* The counter stays between 0 and max and every variable keeps its type,  *)
(* for any number of tasks (semaphore.rs: wait, signal, try_wait,          *)
(* try_signal).                                                            *)
THEOREM TypeCorrect == Spec => []TypeOK
<1>1. IInv => TypeOK
  BY DEF IInv
<1> QED BY Invariance, <1>1, PTL

(* No wake-up is lost in either direction, for any number of tasks and any *)
(* maximum.                                                                *)
THEOREM WakeupsAreKept == Spec => [](NoLostWakeup /\ NoLostRelease)
<1>1. IInv => NoLostWakeup /\ NoLostRelease
  BY DEF IInv
<1> QED BY Invariance, <1>1, PTL
(* In a queue without repetitions a task has one place or none.            *)
LEMMA QueuedOnce ==
  ASSUME NEW q, Distinct(q), NEW t
  PROVE  Cardinality(InQueue(q, t)) = IF t \in Queued(q) THEN 1 ELSE 0
<1>1. CASE t \in Queued(q)
  <2>1. PICK i \in 1 .. Len(q) : q[i] = t
    BY <1>1 DEF Queued
  <2>2. InQueue(q, t) = {i}
    BY <2>1 DEF InQueue, Distinct
  <2> QED BY <1>1, <2>2, FS_Singleton, Zenon
<1>2. CASE t \notin Queued(q)
  <2>1. InQueue(q, t) = {}
    BY <1>2 DEF InQueue, Queued
  <2> QED BY <1>2, <2>1, FS_EmptySet
<1> QED BY <1>1, <1>2

(* A blocked task is in one queue or popped by one task, a runnable one in *)
(* neither, for any number of tasks.                                       *)
THEOREM OnePlace == Spec => []BlockedInOnePlace
<1>1. IInv => BlockedInOnePlace
  <2> SUFFICES ASSUME IInv, NEW t \in Tasks
               PROVE  Cardinality(InQueue(waiting, t)) + Cardinality(InQueue(releasing, t))
                        + Cardinality({u \in Tasks : pc[u] \in {"wakeR", "wakeW"} /\ popped[u] = t})
                      = IF runnable[t] THEN 0 ELSE 1
    BY DEF BlockedInOnePlace
  <2> DEFINE P == {u \in Tasks : pc[u] \in {"wakeR", "wakeW"} /\ popped[u] = t}
  <2>0. runnable[t] \in BOOLEAN
    BY DEF IInv, TypeOK
  <2>1. /\ Cardinality(InQueue(waiting, t)) = IF t \in Queued(waiting) THEN 1 ELSE 0
        /\ Cardinality(InQueue(releasing, t)) = IF t \in Queued(releasing) THEN 1 ELSE 0
    BY QueuedOnce DEF IInv, Queues
  <2>2. ~(t \in Queued(waiting) /\ t \in Queued(releasing))
    BY DEF IInv, Queues
  <2>3. CASE P = {}
    <3>1. Cardinality(P) = 0
      BY <2>3, FS_EmptySet
    <3>2. runnable[t] <=> t \notin Queued(waiting) \cup Queued(releasing)
      BY <2>3 DEF IInv, Queues, Blocked, Wakers
    <3> QED BY <2>0, <2>1, <2>2, <3>1, <3>2, SMTT(60)
  <2>4. CASE P # {}
    <3>1. PICK u : P = {u}
      <4>1. PICK u : u \in P
        BY <2>4
      <4>2. ASSUME NEW v \in P PROVE v = u
        BY <4>1 DEF IInv, Targets, Wakers
      <4> QED BY <4>1, <4>2, SMTT(60)
    <3>2. Cardinality(P) = 1
      BY <3>1, FS_Singleton, Zenon
    <3>3. ~runnable[t] /\ t \notin Queued(waiting) \cup Queued(releasing)
      BY <2>4 DEF IInv, Targets, Wakers
    <3> QED BY <2>1, <3>2, <3>3
  <2> QED BY <2>3, <2>4
<1> QED BY Invariance, <1>1, PTL

(* When every call has returned or is blocked, the tasks still queued are  *)
(* queued for a reason.                                                    *)
THEOREM QuietTheorem == Spec => []QuietIsTight
<1>1. IInv => QuietIsTight
  <2> SUFFICES ASSUME IInv, \A t \in Tasks : runnable[t] => pc[t] = "idle"
               PROVE  /\ waiting # <<>> => count = 0
                      /\ releasing # <<>> => count = Max
    BY DEF QuietIsTight
  <2>1. ASSUME NEW t \in Tasks PROVE runnable[t] \/ pc[t] \in {"wait", "signal"}
    BY DEF IInv, Queues, Targets, Blocked, Wakers
  <2>2. ServeWaiting = {} /\ ServeReleasing = {}
    BY <2>1 DEF ServeWaiting, ServeReleasing, At
  <2>3. count \in 0 .. Max /\ Max \in Nat
    BY SemaphoreAssumption DEF IInv, TypeOK
  <2>4. /\ waiting # <<>> => count <= 0
        /\ releasing # <<>> => Max - count <= 0
    BY <2>2, FS_EmptySet DEF IInv, NoLostWakeup, NoLostRelease
  <2> QED BY <2>3, <2>4
<1> QED BY Invariance, <1>1, PTL

-----------------------------------------------------------------------------
(* The refinement of CountingSemaphore.                                    *)

(* The call a task is in, as the abstract semaphore sees it: it ends with  *)
(* the update of the counter, before the pop and the wake-up.              *)
CallOf(place) == IF place \in {"wait", "signal"} THEN place ELSE "none"
Calls == [t \in Tasks |-> CallOf(pc[t])]

(* Where a step leaves a task decides what it does to the calls.           *)
LEMMA GotoCalls ==
  ASSUME TypeOK, NEW t \in Tasks, NEW place, Goto(t, place)
  PROVE  Calls' = [Calls EXCEPT ![t] = CallOf(place)]
<1>1. pc \in [Tasks -> Places]
  BY Zenon DEF TypeOK
<1>2. \A u \in Tasks : pc'[u] = IF u = t THEN place ELSE pc[u]
  BY <1>1, Zenon DEF Goto
<1> QED BY <1>2, Zenon DEF Calls

LEMMA AbstractStep ==
  ASSUME TypeOK, [Next]_vars
  PROVE  [Abstract!Next]_(Abstract!vars)
<1>1. Calls = [t \in Tasks |-> IF pc[t] \in {"wait", "signal"} THEN pc[t] ELSE "none"]
  BY Zenon DEF Calls, CallOf
<1>2. \A t \in Tasks : Calls[t] = CallOf(pc[t])
  BY Zenon DEF Calls
<1>3. \A t \in Tasks : [Calls EXCEPT ![t] = Calls[t]] = Calls
  BY DEF Calls
<1>4. CASE UNCHANGED <<count, pc>>
  BY <1>4 DEF Abstract!vars
<1>5. ASSUME NEW t \in Tasks, Call(t) PROVE Abstract!Next
  <2>1. PICK op \in {"wait", "signal"} : At(t, "idle") /\ Goto(t, op) /\ count' = count
    BY <1>5, Zenon DEF Call
  <2>2. Calls[t] = "none" /\ Calls' = [Calls EXCEPT ![t] = op]
    BY <1>2, <2>1, GotoCalls DEF At, CallOf
  <2> QED BY <1>1, <2>1, <2>2, Zenon DEF Abstract!Next, Abstract!Call, Calls, CallOf
<1>6. ASSUME NEW t \in Tasks, WaitTake(t) PROVE Abstract!Next
  <2>1. Calls[t] = "wait" /\ Calls' = [Calls EXCEPT ![t] = "none"]
    BY <1>2, <1>6, GotoCalls DEF WaitTake, At, CallOf
  <2> QED BY <1>6, <2>1, Zenon DEF WaitTake, Abstract!Next, Abstract!Acquire, Calls, CallOf
<1>7. ASSUME NEW t \in Tasks, SignalPut(t) PROVE Abstract!Next
  <2>1. Calls[t] = "signal" /\ Calls' = [Calls EXCEPT ![t] = "none"]
    BY <1>2, <1>7, GotoCalls DEF SignalPut, At, CallOf
  <2> QED BY <1>7, <2>1, Zenon DEF SignalPut, Abstract!Next, Abstract!Release, Calls, CallOf
<1>8. ASSUME NEW t \in Tasks, TryWait(t) \/ TrySignal(t) PROVE Abstract!Next
  <2>1. Calls' = Calls
    BY <1>2, <1>3, <1>8, GotoCalls DEF TryWait, TrySignal, At, CallOf
  <2> QED BY <1>8, <2>1 DEF TryWait, TrySignal, Abstract!Next, Abstract!TryAcquire,
                            Abstract!TryRelease, Calls, CallOf
<1>9. ASSUME NEW t \in Tasks, PopReleasing(t) \/ PopWaiting(t) \/ Wake(t)
      PROVE  UNCHANGED Abstract!vars
  <2>1. count' = count /\ pc[t] \in {"popR", "popW", "wakeR", "wakeW"}
        /\ \E place \in {"idle", "wakeR", "wakeW"} : Goto(t, place)
    BY <1>9 DEF PopReleasing, PopWaiting, Wake, At
  <2>2. Calls' = Calls
    BY <1>2, <1>3, <2>1, GotoCalls DEF CallOf
  <2> QED BY <2>1, <2>2 DEF Abstract!vars, Calls, CallOf
<1>10. ASSUME NEW t \in Tasks, WaitBlock(t) \/ SignalBlock(t) PROVE UNCHANGED <<count, pc>>
  BY <1>10 DEF WaitBlock, SignalBlock
<1>11. CASE IsrTrySignal
  BY <1>11 DEF IsrTrySignal, Abstract!Next, Abstract!TryRelease
<1> QED BY <1>4, <1>5, <1>6, <1>7, <1>8, <1>9, <1>10, <1>11 DEF Next, Step, vars

(* For every number of tasks and every maximum, wait, signal, try_wait and *)
(* try_signal implement a counting semaphore: each update of the counter   *)
(* is one acquire or release of one call, and pops, blocking and wake-ups  *)
(* change neither (the safety half of ImplementsCountingSemaphore).        *)
THEOREM SemaphoreRefinement == Spec => Abstract!Init /\ [][Abstract!Next]_(Abstract!vars)
<1>1. Init => Abstract!Init
  BY DEF Init, Abstract!Init
<1>2. TypeOK /\ [Next]_vars => [Abstract!Next]_(Abstract!vars)
  BY AbstractStep
<1> QED BY <1>1, <1>2, TypeCorrect, PTL DEF Spec

=============================================================================
