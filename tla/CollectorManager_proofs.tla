----------------------- MODULE CollectorManager_proofs -----------------------
(***************************************************************************)
(* Machine-checked proofs about CollectorManager, for every set of tasks,  *)
(* every assignment of tasks to collectors and every admission limit.      *)
(***************************************************************************)
EXTENDS CollectorManager, BasicLemmas, FunctionTheorems, FiniteSetTheorems, SequenceTheorems, TLAPS

-----------------------------------------------------------------------------
(* How many waiters a hand-over wakes: never more than there are permits or *)
(* waiters, and as many as it may.                                          *)
LEMMA WakeCountBounds ==
    ASSUME NEW n \in Nat, NEW v \in Nat, NEW l \in Nat
    PROVE  /\ WakeCount(n, v, l) \in Nat
           /\ WakeCount(n, v, l) <= n
           /\ WakeCount(n, v, l) <= v
           /\ WakeCount(n, v, l) <= l
           /\ WakeCount(n, v, l) \in {n, v, l}
  BY DEF WakeCount

LEMMA SuffixFacts ==
    ASSUME NEW S, NEW q \in Seq(S), NEW k \in 0..Len(q)
    PROVE  /\ SubSeq(q, k + 1, Len(q)) \in Seq(S)
           /\ Len(SubSeq(q, k + 1, Len(q))) = Len(q) - k
           /\ \A j \in 1..(Len(q) - k) : SubSeq(q, k + 1, Len(q))[j] = q[k + j]
  OBVIOUS

-----------------------------------------------------------------------------
(* What a hand-over leaves behind is well typed. *)
LEMMA HandOverType ==
    ASSUME TypeOK, NEW t \in Tasks, NEW p \in TaskPC, NEW q \in Seq(Tasks),
           NEW v \in Nat, NEW n \in Nat, HandOver(t, p, q, v, n)
    PROVE  /\ pc' \in [Tasks -> TaskPC]
           /\ value' \in Nat
           /\ waiters' \in Seq(Tasks)
<1> DEFINE k == WakeCount(n, v, Len(q))
<1>1. k \in Nat /\ k <= v /\ k <= Len(q)
  BY WakeCountBounds, LenProperties
<1>2. value' = v - k /\ waiters' = SubSeq(q, k + 1, Len(q))
  BY DEF HandOver
<1>3. value' \in Nat
  BY <1>1, <1>2
<1>4. waiters' \in Seq(Tasks)
  BY <1>1, <1>2, SuffixFacts, LenProperties
<1>5. pc' \in [Tasks -> TaskPC]
  BY DEF HandOver, TypeOK, TaskPC
<1> QED  BY <1>3, <1>4, <1>5

LEMMA HealthFacts ==
    /\ NoRuns \in HealthRecord
    /\ \A h \in HealthRecord :
          /\ RunStarted(h) \in HealthRecord
          /\ RunSucceeded(h) \in HealthRecord
          /\ RunFailed(h) \in HealthRecord
<1>1. NoRuns \in HealthRecord
  BY DEF NoRuns, HealthRecord
<1>2. ASSUME NEW h \in HealthRecord PROVE RunStarted(h) \in HealthRecord
  BY DEF RunStarted, HealthRecord
<1>3. ASSUME NEW h \in HealthRecord PROVE RunSucceeded(h) \in HealthRecord
  <2> DEFINE g == [h EXCEPT !.successes = @ + 1]
  <2>1. g \in HealthRecord  BY DEF HealthRecord
  <2>2. RunSucceeded(h) = [g EXCEPT !.streak = 0]  BY DEF RunSucceeded
  <2> HIDE DEF g
  <2> QED  BY <2>1, <2>2 DEF HealthRecord
<1>4. ASSUME NEW h \in HealthRecord PROVE RunFailed(h) \in HealthRecord
  <2> DEFINE g == [h EXCEPT !.failures = @ + 1]
  <2>1. g \in HealthRecord /\ g.streak = h.streak  BY DEF HealthRecord
  <2>2. RunFailed(h) = [g EXCEPT !.streak = @ + 1]  BY <2>1 DEF RunFailed
  <2> HIDE DEF g
  <2> QED  BY <2>1, <2>2 DEF HealthRecord
<1> QED  BY <1>1, <1>2, <1>3, <1>4

LEMMA InitTypeOK == Init => TypeOK
<1> SUFFICES ASSUME Init PROVE TypeOK
  OBVIOUS
<1>1. waiters \in Seq(Tasks)
  BY DEF Init
<1>2. value \in Nat
  BY LimitAssumption DEF Init
<1>3. health \in [Collectors -> HealthRecord]
  BY HealthFacts DEF Init
<1>4. /\ pc \in [Tasks -> TaskPC]
      /\ lock \in [Collectors -> Tasks \cup {NoTask}]
      /\ forceRun \in [Collectors -> BOOLEAN]
      /\ parallelActive \in [Collectors -> Int]
  BY DEF Init, TaskPC
<1>5. succeeded \in SUBSET Collectors  BY DEF Init
<1>6. pendingGauge \in Int /\ activeGauge \in Int
  BY DEF Init
<1>7. shutdown \in BOOLEAN
  BY DEF Init
<1> QED
  BY <1>1, <1>2, <1>3, <1>4, <1>5, <1>6, <1>7 DEF TypeOK

LEMMA LeaveLineType ==
    ASSUME TypeOK, NEW t \in Tasks, LeaveLine(t)
    PROVE  /\ pc' \in [Tasks -> TaskPC]
           /\ value' \in Nat
           /\ waiters' \in Seq(Tasks)
<1> USE DEF ReleaseIfAdmitted
<1>1. CASE pc[t] = "granted" /\ HandOver(t, "idle", waiters, ReturnPermit(value), ReturnPermit(value))
  <2>1. ReturnPermit(value) \in Nat  BY DEF ReturnPermit, TypeOK
  <2> QED  BY <1>1, <2>1, HandOverType DEF TypeOK, TaskPC
<1>2. CASE \E i \in 1..Len(waiters) : /\ waiters[i] = t
                                      /\ HandOver(t, "idle", RemoveFuture(i), value, value)
  <2>1. PICK i \in 1..Len(waiters) : HandOver(t, "idle", RemoveFuture(i), value, value)
    BY <1>2
  <2>2. RemoveFuture(i) \in Seq(Tasks)
    BY RemoveAtFacts DEF RemoveFuture, TypeOK
  <2> QED  BY <2>1, <2>2, HandOverType DEF TypeOK, TaskPC
<1> QED  BY <1>1, <1>2 DEF LeaveLine

LEMMA NextTypeOK == TypeOK /\ [Next]_vars => TypeOK'
<1> SUFFICES ASSUME TypeOK, [Next]_vars PROVE TypeOK'
  OBVIOUS
<1> USE TargetAssumption, HealthFacts
<1>0. ASSUME NEW t \in Tasks, Enter(t, TargetOf[t]), UNCHANGED shutdown
      PROVE  TypeOK'
  <2>1. CASE SkipLocked(t, TargetOf[t])
    BY <1>0, <2>1 DEF SkipLocked, admission, accounts, TypeOK, TaskPC
  <2>2. CASE AdmitAtOnce(t, TargetOf[t])
    BY <1>0, <2>2 DEF AdmitAtOnce, StartRun, SemaphoreLocked, TypeOK, TaskPC
  <2>3. CASE Enqueue(t, TargetOf[t])
    BY <1>0, <2>3 DEF Enqueue, TypeOK, TaskPC
  <2> QED  BY <1>0, <2>1, <2>2, <2>3 DEF Enter
<1>1. ASSUME NEW t \in Tasks, Call(t) PROVE TypeOK'
  BY <1>0, <1>1 DEF Call
<1>2. ASSUME NEW t \in Tasks, Trigger(t) PROVE TypeOK'
  BY <1>2 DEF Trigger, admission, accounts, TypeOK, TaskPC
<1>3. ASSUME NEW t \in Tasks, TriggerStart(t) PROVE TypeOK'
  BY <1>0, <1>3 DEF TriggerStart
<1>4. ASSUME NEW t \in Tasks, Resume(t) PROVE TypeOK'
  <2>1. /\ pc' \in [Tasks -> TaskPC]
        /\ value' \in Nat
        /\ waiters' \in Seq(Tasks)
    BY <1>4, HandOverType DEF Resume, PassPermits, TypeOK, TaskPC
  <2> QED  BY <1>4, <2>1 DEF Resume, StartRun, TypeOK
<1>5. ASSUME NEW t \in Tasks, Expire(t) PROVE TypeOK'
  <2>1. /\ pc' \in [Tasks -> TaskPC]
        /\ value' \in Nat
        /\ waiters' \in Seq(Tasks)
    BY <1>5, LeaveLineType DEF Expire
  <2> QED  BY <1>5, <2>1 DEF Expire, LeaveLine, PreStartFailure, TypeOK
<1>6. ASSUME NEW t \in Tasks, NEW ok \in BOOLEAN, Finish(t, ok) PROVE TypeOK'
  <2>1. /\ pc' \in [Tasks -> TaskPC]
        /\ value' \in Nat
        /\ waiters' \in Seq(Tasks)
    BY <1>6, HandOverType DEF Finish, Release, TypeOK, TaskPC
  <2>2. health' \in [Collectors -> HealthRecord] /\ succeeded' \in SUBSET Collectors
    <3>1. CASE ok
      <4>1. /\ health' = [health EXCEPT ![TargetOf[t]] = RunSucceeded(@)]
            /\ succeeded' = succeeded \cup {TargetOf[t]}
        BY <1>6, <3>1 DEF Finish
      <4> QED  BY <4>1 DEF TypeOK
    <3>2. CASE ~ok
      <4>1. /\ health' = [health EXCEPT ![TargetOf[t]] = RunFailed(@)]
            /\ succeeded' = succeeded
        BY <1>6, <3>2 DEF Finish
      <4> QED  BY <4>1 DEF TypeOK
    <3> QED  BY <3>1, <3>2
  <2>3. lock' \in [Collectors -> Tasks \cup {NoTask}]
    BY <1>6 DEF Finish, TypeOK
  <2>4. forceRun' \in [Collectors -> BOOLEAN]
    BY <1>6 DEF Finish, ClearForce, TypeOK
  <2>5. activeGauge' \in Int /\ parallelActive' \in [Collectors -> Int]
    BY <1>6 DEF Finish, TypeOK
  <2>6. UNCHANGED <<pendingGauge, shutdown>>
    BY <1>6 DEF Finish
  <2> QED  BY <2>1, <2>2, <2>3, <2>4, <2>5, <2>6 DEF TypeOK
<1>7. ASSUME Shutdown PROVE TypeOK'
  BY <1>7 DEF Shutdown, admission, accounts, TypeOK
<1>8. ASSUME NEW t \in Tasks, CancelCreated(t) PROVE TypeOK'
  BY <1>8 DEF CancelCreated, admission, accounts, TypeOK, TaskPC
<1>9. ASSUME NEW t \in Tasks, CancelWaiting(t) PROVE TypeOK'
  <2>1. /\ pc' \in [Tasks -> TaskPC]
        /\ value' \in Nat
        /\ waiters' \in Seq(Tasks)
    BY <1>9, LeaveLineType DEF CancelWaiting
  <2> QED  BY <1>9, <2>1 DEF CancelWaiting, LeaveLine, TypeOK
<1>10. CASE UNCHANGED vars
  BY <1>10 DEF vars, admission, accounts, TypeOK
<1> QED
  BY <1>1, <1>2, <1>3, <1>4, <1>5, <1>6, <1>7, <1>8, <1>9, <1>10 DEF Next, Step

(* The state of the manager stays well typed: in particular the semaphore's *)
(* counter never goes below zero.                                           *)
THEOREM TypeCorrect == Spec => []TypeOK
  BY InitTypeOK, NextTypeOK, PTL DEF Spec

-----------------------------------------------------------------------------
(* The line of the semaphore and the lock.  A hand-over moves only tasks of  *)
(* its line, and moves them from queued to granted.                          *)
LineIs(q, t) ==
    /\ \A s \in Tasks : s # t => (pc[s] = "queued" <=> \E i \in 1..Len(q) : q[i] = s)
    /\ \A i \in 1..Len(q) : q[i] # t
    /\ \A i, j \in 1..Len(q) : q[i] = q[j] => i = j

LEMMA HandOverLine ==
    ASSUME TypeOK, NEW t \in Tasks, NEW p \in TaskPC \ {"queued"}, NEW q \in Seq(Tasks),
           NEW v \in Nat, NEW n \in Nat, LineIs(q, t), HandOver(t, p, q, v, n)
    PROVE  /\ LineMatchesTasks'
           /\ pc'[t] = p
           /\ \A s \in Tasks : s # t =>
                 pc'[s] = pc[s] \/ (pc[s] = "queued" /\ pc'[s] = "granted")
<1> DEFINE k == WakeCount(n, v, Len(q))
           woken == {q[i] : i \in 1..k}
           w == SubSeq(q, k + 1, Len(q))
<1>1. k \in Nat /\ k <= Len(q) /\ Len(q) \in Nat
  BY WakeCountBounds, LenProperties
<1>2. /\ waiters' = w
      /\ pc' = [s \in Tasks |-> IF s = t THEN p ELSE IF s \in woken THEN "granted" ELSE pc[s]]
  BY DEF HandOver
<1> HIDE DEF k
<1>3. Len(w) = Len(q) - k /\ \A j \in 1..(Len(q) - k) : w[j] = q[k + j]
  BY <1>1, SuffixFacts
<1>4. \A s \in Tasks : s # t /\ s \in woken => pc[s] = "queued"
  BY <1>1 DEF LineIs
<1> HIDE DEF w
<1>5. \A s \in Tasks : pc'[s] = "queued" <=> \E i \in 1..Len(waiters') : waiters'[i] = s
  <2> SUFFICES ASSUME NEW s \in Tasks
               PROVE  pc'[s] = "queued" <=> \E i \in 1..Len(w) : w[i] = s
    BY <1>2
  <2>1. CASE s = t
    <3>1. pc'[s] # "queued"
      BY <1>2, <2>1
    <3>2. \A i \in 1..Len(w) : w[i] # s
      <4> SUFFICES ASSUME NEW i \in 1..Len(w) PROVE w[i] # s
        OBVIOUS
      <4>1. w[i] = q[k + i] /\ k + i \in 1..Len(q)
        BY <1>1, <1>3
      <4> QED  BY <4>1, <2>1 DEF LineIs
    <3> QED  BY <3>1, <3>2
  <2>2. CASE s # t /\ s \in woken
    <3>1. pc'[s] = "granted"
      BY <1>2, <2>2
    <3>2. PICK j \in 1..k : q[j] = s
      BY <2>2
    <3>3. \A i \in 1..Len(w) : w[i] # s
      <4> SUFFICES ASSUME NEW i \in 1..Len(w) PROVE w[i] # s
        OBVIOUS
      <4>1. w[i] = q[k + i] /\ k + i \in 1..Len(q) /\ j \in 1..Len(q) /\ j # k + i
        BY <1>1, <1>3
      <4> QED  BY <4>1, <3>2 DEF LineIs
    <3> QED  BY <3>1, <3>3
  <2>3. CASE s # t /\ s \notin woken
    <3>1. pc'[s] = pc[s]
      BY <1>2, <2>3
    <3>2. pc[s] = "queued" <=> \E i \in 1..Len(q) : q[i] = s
      BY <2>3 DEF LineIs
    <3>3. (\E i \in 1..Len(q) : q[i] = s) => \E i \in 1..Len(w) : w[i] = s
      <4> SUFFICES ASSUME NEW i \in 1..Len(q), q[i] = s PROVE \E j \in 1..Len(w) : w[j] = s
        OBVIOUS
      <4>1. ~(i <= k)
        BY <2>3, <1>1
      <4>2. i - k \in 1..Len(w) /\ k + (i - k) = i
        BY <4>1, <1>1, <1>3
      <4> QED  BY <4>2, <1>3
    <3>4. (\E i \in 1..Len(w) : w[i] = s) => \E i \in 1..Len(q) : q[i] = s
      <4> SUFFICES ASSUME NEW i \in 1..Len(w), w[i] = s PROVE \E j \in 1..Len(q) : q[j] = s
        OBVIOUS
      <4>1. w[i] = q[k + i] /\ k + i \in 1..Len(q)
        BY <1>1, <1>3
      <4> QED  BY <4>1
    <3> QED  BY <3>1, <3>2, <3>3, <3>4
  <2> QED  BY <2>1, <2>2, <2>3
<1>6. \A i, j \in 1..Len(waiters') : waiters'[i] = waiters'[j] => i = j
  <2> SUFFICES ASSUME NEW i \in 1..Len(w), NEW j \in 1..Len(w), w[i] = w[j] PROVE i = j
    BY <1>2
  <2>1. q[k + i] = q[k + j] /\ k + i \in 1..Len(q) /\ k + j \in 1..Len(q)
    BY <1>1, <1>3
  <2>2. k + i = k + j
    BY <2>1 DEF LineIs
  <2> QED  BY <2>2, <1>1
<1>7. LineMatchesTasks'
  BY <1>5, <1>6 DEF LineMatchesTasks
<1>8. pc'[t] = p
  BY <1>2
<1>9. \A s \in Tasks : s # t => pc'[s] = pc[s] \/ (pc[s] = "queued" /\ pc'[s] = "granted")
  BY <1>2, <1>4
<1> QED  BY <1>7, <1>8, <1>9

(* Every hand-over of the model is given the line without the task itself.   *)
LEMMA LineOfOther ==
    ASSUME TypeOK, LineMatchesTasks, NEW t \in Tasks, pc[t] # "queued"
    PROVE  LineIs(waiters, t)
  BY DEF LineIs, LineMatchesTasks, TypeOK

LEMMA LineOfLeaver ==
    ASSUME TypeOK, LineMatchesTasks, NEW t \in Tasks,
           NEW i \in 1..Len(waiters), waiters[i] = t
    PROVE  RemoveFuture(i) \in Seq(Tasks) /\ LineIs(RemoveFuture(i), t)
<1> DEFINE r == RemoveAt(waiters, i)
           n == Len(waiters)
<1>1. /\ r \in Seq(Tasks) /\ Len(r) = n - 1 /\ n \in Nat
      /\ \A j \in 1..(n - 1) : r[j] = IF j < i THEN waiters[j] ELSE waiters[j + 1]
  BY RemoveAtFacts, LenProperties DEF TypeOK
<1> HIDE DEF r
<1> DEFINE at(j) == IF j < i THEN j ELSE j + 1
<1>2. \A j \in 1..Len(r) : at(j) \in 1..n /\ at(j) # i /\ r[j] = waiters[at(j)]
  BY <1>1
<1>3. \A j, l \in 1..Len(r) : at(j) = at(l) => j = l
  BY <1>1
<1>4. \A m \in 1..n : m # i => \E j \in 1..Len(r) : at(j) = m
  <2> SUFFICES ASSUME NEW m \in 1..n, m # i PROVE \E j \in 1..Len(r) : at(j) = m
    OBVIOUS
  <2>1. CASE m < i
    <3>1. m \in 1..Len(r) /\ at(m) = m
      BY <1>1, <2>1
    <3> QED  BY <3>1
  <2>2. CASE m > i
    <3>1. m - 1 \in 1..Len(r) /\ at(m - 1) = m
      BY <1>1, <2>2
    <3> QED  BY <3>1
  <2> QED  BY <2>1, <2>2
<1> HIDE DEF at
<1>5. \A j \in 1..Len(r) : r[j] # t
  BY <1>2 DEF LineMatchesTasks
<1>6. \A j, l \in 1..Len(r) : r[j] = r[l] => j = l
  BY <1>2, <1>3 DEF LineMatchesTasks
<1>7. ASSUME NEW s \in Tasks, s # t
      PROVE  pc[s] = "queued" <=> \E j \in 1..Len(r) : r[j] = s
  <2>1. pc[s] = "queued" <=> \E m \in 1..n : waiters[m] = s
    BY DEF LineMatchesTasks
  <2>2. (\E m \in 1..n : waiters[m] = s) => \E j \in 1..Len(r) : r[j] = s
    <3> SUFFICES ASSUME NEW m \in 1..n, waiters[m] = s PROVE \E j \in 1..Len(r) : r[j] = s
      OBVIOUS
    <3>1. m # i
      BY <1>7
    <3>2. PICK j \in 1..Len(r) : at(j) = m
      BY <3>1, <1>4
    <3> QED  BY <3>2, <1>2
  <2>3. (\E j \in 1..Len(r) : r[j] = s) => \E m \in 1..n : waiters[m] = s
    BY <1>2
  <2> QED  BY <2>1, <2>2, <2>3
<1> QED  BY <1>1, <1>5, <1>6, <1>7 DEF LineIs, RemoveFuture, r

-----------------------------------------------------------------------------
(* The three ways a step can touch the lock of a collector. *)
Owning(x) == x \in {"queued", "granted", "running"}

LEMMA LockKept ==
    ASSUME LockDiscipline, lock' = lock, \A s \in Tasks : Owning(pc'[s]) <=> Owning(pc[s])
    PROVE  LockDiscipline'
  BY DEF LockDiscipline, Owning

LEMMA LockTaken ==
    ASSUME TypeOK, LockDiscipline, NEW t \in Tasks,
           lock[TargetOf[t]] = NoTask, lock' = [lock EXCEPT ![TargetOf[t]] = t],
           Owning(pc'[t]),
           \A s \in Tasks : s # t => (Owning(pc'[s]) <=> Owning(pc[s]))
    PROVE  LockDiscipline'
<1> SUFFICES ASSUME NEW c \in Collectors, NEW s \in Tasks
             PROVE  lock'[c] = s <=> Owning(pc'[s]) /\ TargetOf[s] = c
  BY DEF LockDiscipline, Owning
<1>1. lock[c] = s <=> Owning(pc[s]) /\ TargetOf[s] = c
  BY DEF LockDiscipline, Owning
<1>2. lock'[c] = IF c = TargetOf[t] THEN t ELSE lock[c]
  BY DEF TypeOK
<1>3. lock[c] = t => c # TargetOf[t]
  BY TasksAssumption
<1>4. CASE s = t
  BY <1>1, <1>2, <1>3, <1>4 DEF LockDiscipline, Owning
<1>5. CASE s # t
  BY <1>1, <1>2, <1>5, TasksAssumption
<1> QED  BY <1>4, <1>5

LEMMA LockFreed ==
    ASSUME TypeOK, LockDiscipline, NEW t \in Tasks,
           Owning(pc[t]), ~Owning(pc'[t]),
           lock' = [lock EXCEPT ![TargetOf[t]] = NoTask],
           \A s \in Tasks : s # t => (Owning(pc'[s]) <=> Owning(pc[s]))
    PROVE  LockDiscipline'
<1> SUFFICES ASSUME NEW c \in Collectors, NEW s \in Tasks
             PROVE  lock'[c] = s <=> Owning(pc'[s]) /\ TargetOf[s] = c
  BY DEF LockDiscipline, Owning
<1>1. lock[c] = s <=> Owning(pc[s]) /\ TargetOf[s] = c
  BY DEF LockDiscipline, Owning
<1>2. lock[c] = t <=> TargetOf[t] = c
  BY DEF LockDiscipline, Owning
<1>3. lock'[c] = IF c = TargetOf[t] THEN NoTask ELSE lock[c]
  BY DEF TypeOK
<1> QED  BY <1>1, <1>2, <1>3, TasksAssumption

-----------------------------------------------------------------------------
(* The inductive invariant of the lock: LockDiscipline needs to know that    *)
(* the tasks a hand-over wakes are queued ones, which is LineMatchesTasks.    *)
LockInv == TypeOK /\ LineMatchesTasks /\ LockDiscipline

LEMMA LockInit == Init => LockInv
<1> SUFFICES ASSUME Init PROVE LockInv
  OBVIOUS
<1>1. LineMatchesTasks
  BY DEF Init, LineMatchesTasks
<1>2. LockDiscipline
  BY TasksAssumption DEF Init, LockDiscipline
<1> QED  BY <1>1, <1>2, InitTypeOK DEF LockInv

(* A hand-over by a task that held a permit or leaves the line. *)
LEMMA HandOverOthers ==
    ASSUME LockInv, NEW t \in Tasks, NEW p \in TaskPC \ {"queued"}, NEW q \in Seq(Tasks),
           NEW v \in Nat, NEW n \in Nat, LineIs(q, t), HandOver(t, p, q, v, n)
    PROVE  /\ LineMatchesTasks'
           /\ pc'[t] = p
           /\ \A s \in Tasks : s # t => (Owning(pc'[s]) <=> Owning(pc[s]))
<1>1. /\ LineMatchesTasks' /\ pc'[t] = p
      /\ \A s \in Tasks : s # t => pc'[s] = pc[s] \/ (pc[s] = "queued" /\ pc'[s] = "granted")
  BY HandOverLine DEF LockInv
<1> QED  BY <1>1 DEF Owning

LEMMA EnterLock ==
    ASSUME LockInv, NEW t \in Tasks, ~Owning(pc[t]), Enter(t, TargetOf[t])
    PROVE  LineMatchesTasks' /\ LockDiscipline'
<1> USE TargetAssumption DEF LockInv
<1>1. CASE SkipLocked(t, TargetOf[t])
  <2>1. lock' = lock /\ waiters' = waiters /\ pc' = [pc EXCEPT ![t] = "idle"]
    BY <1>1 DEF SkipLocked, admission
  <2>2. \A s \in Tasks : (Owning(pc'[s]) <=> Owning(pc[s])) /\ (pc'[s] = "queued" <=> pc[s] = "queued")
    BY <2>1 DEF TypeOK, Owning
  <2> QED  BY <2>1, <2>2, LockKept DEF LineMatchesTasks
<1>2. CASE AdmitAtOnce(t, TargetOf[t])
  <2>1. /\ lock[TargetOf[t]] = NoTask /\ lock' = [lock EXCEPT ![TargetOf[t]] = t]
        /\ waiters' = waiters /\ pc' = [pc EXCEPT ![t] = "running"]
    BY <1>2 DEF AdmitAtOnce
  <2>2. /\ Owning(pc'[t])
        /\ \A s \in Tasks : s # t => pc'[s] = pc[s]
        /\ \A s \in Tasks : pc'[s] = "queued" <=> pc[s] = "queued"
    BY <2>1 DEF TypeOK, Owning
  <2> QED  BY <2>1, <2>2, LockTaken DEF LineMatchesTasks
<1>3. CASE Enqueue(t, TargetOf[t])
  <2>1. /\ lock[TargetOf[t]] = NoTask /\ lock' = [lock EXCEPT ![TargetOf[t]] = t]
        /\ waiters' = Append(waiters, t) /\ pc' = [pc EXCEPT ![t] = "queued"]
    BY <1>3 DEF Enqueue
  <2>2. /\ Owning(pc'[t]) /\ pc'[t] = "queued"
        /\ \A s \in Tasks : s # t => pc'[s] = pc[s]
    BY <2>1 DEF TypeOK, Owning
  <2>3. LockDiscipline'
    BY <2>1, <2>2, LockTaken
  <2> DEFINE n == Len(waiters)
  <2>4. /\ n \in Nat /\ Len(waiters') = n + 1 /\ waiters'[n + 1] = t
        /\ \A i \in 1..n : waiters'[i] = waiters[i] /\ waiters[i] # t
    BY <2>1, LenProperties DEF TypeOK, LineMatchesTasks, Owning
  <2> HIDE DEF n
  <2>5. 1..(n + 1) = 1..n \cup {n + 1} /\ n + 1 \notin 1..n
    BY <2>4
  <2>6. \A s \in Tasks : pc[s] = "queued" <=> \E i \in 1..n : waiters[i] = s
    BY DEF LineMatchesTasks, n
  <2>7. \A s \in Tasks : pc'[s] = "queued" <=> \E i \in 1..(n + 1) : waiters'[i] = s
    BY <2>2, <2>4, <2>5, <2>6
  <2>8. \A i, j \in 1..n : waiters[i] = waiters[j] => i = j
    BY DEF LineMatchesTasks, n
  <2>9. \A i, j \in 1..(n + 1) : waiters'[i] = waiters'[j] => i = j
    BY <2>4, <2>5, <2>8
  <2> QED  BY <2>3, <2>4, <2>7, <2>9 DEF LineMatchesTasks
<1> QED  BY <1>1, <1>2, <1>3 DEF Enter

LEMMA LeaveLock ==
    ASSUME LockInv, NEW t \in Tasks, LeaveLine(t)
    PROVE  LineMatchesTasks' /\ LockDiscipline'
<1> USE DEF LockInv, ReleaseIfAdmitted
<1>1. lock' = [lock EXCEPT ![TargetOf[t]] = NoTask] /\ Owning(pc[t])
  BY DEF LeaveLine, Owning
<1>2. /\ LineMatchesTasks' /\ pc'[t] = "idle"
      /\ \A s \in Tasks : s # t => (Owning(pc'[s]) <=> Owning(pc[s]))
  <2>1. CASE pc[t] = "granted" /\ HandOver(t, "idle", waiters, ReturnPermit(value), ReturnPermit(value))
    <3>1. ReturnPermit(value) \in Nat /\ waiters \in Seq(Tasks)
      BY DEF ReturnPermit, TypeOK
    <3>2. LineIs(waiters, t)
      BY <2>1, LineOfOther
    <3> QED  BY <2>1, <3>1, <3>2, HandOverOthers DEF TaskPC
  <2>2. CASE \E i \in 1..Len(waiters) : /\ waiters[i] = t
                                        /\ HandOver(t, "idle", RemoveFuture(i), value, value)
    <3>1. PICK i \in 1..Len(waiters) : /\ waiters[i] = t
                                       /\ HandOver(t, "idle", RemoveFuture(i), value, value)
      BY <2>2
    <3>2. RemoveFuture(i) \in Seq(Tasks) /\ LineIs(RemoveFuture(i), t)
      BY <3>1, LineOfLeaver
    <3>3. value \in Nat
      BY DEF TypeOK
    <3> QED  BY <3>1, <3>2, <3>3, HandOverOthers DEF TaskPC
  <2> QED  BY <2>1, <2>2 DEF LeaveLine
<1>3. ~Owning(pc'[t])
  BY <1>2 DEF Owning
<1> QED  BY <1>1, <1>2, <1>3, LockFreed

LEMMA LockNext == LockInv /\ [Next]_vars => LineMatchesTasks' /\ LockDiscipline'
<1> SUFFICES ASSUME LockInv, [Next]_vars PROVE LineMatchesTasks' /\ LockDiscipline'
  OBVIOUS
<1> DEFINE Goal == LineMatchesTasks' /\ LockDiscipline'
<1>1. ASSUME NEW t \in Tasks, Call(t) PROVE Goal
  BY <1>1, EnterLock DEF Call, Owning
<1>2. ASSUME NEW t \in Tasks, TriggerStart(t) PROVE Goal
  BY <1>2, EnterLock DEF TriggerStart, Owning
<1>3. ASSUME NEW t \in Tasks, Expire(t) \/ CancelWaiting(t) PROVE Goal
  BY <1>3, LeaveLock DEF Expire, CancelWaiting
<1>4. ASSUME NEW t \in Tasks, Trigger(t) \/ CancelCreated(t) PROVE Goal
  <2>1. /\ lock' = lock /\ waiters' = waiters
        /\ \A s \in Tasks : (Owning(pc'[s]) <=> Owning(pc[s])) /\ (pc'[s] = "queued" <=> pc[s] = "queued")
    BY <1>4 DEF Trigger, CancelCreated, admission, LockInv, TypeOK, Owning
  <2> QED  BY <2>1, LockKept DEF LockInv, LineMatchesTasks
<1>5. ASSUME NEW t \in Tasks, Resume(t) PROVE Goal
  <2>1. pc[t] = "granted" /\ lock' = lock /\ HandOver(t, "running", waiters, value, value)
    BY <1>5 DEF Resume, PassPermits
  <2>2. waiters \in Seq(Tasks) /\ value \in Nat /\ LineIs(waiters, t)
    BY <2>1, LineOfOther DEF LockInv, TypeOK
  <2>3. /\ LineMatchesTasks' /\ pc'[t] = "running"
        /\ \A s \in Tasks : s # t => (Owning(pc'[s]) <=> Owning(pc[s]))
    BY <2>1, <2>2, HandOverOthers DEF TaskPC
  <2>4. \A s \in Tasks : Owning(pc'[s]) <=> Owning(pc[s])
    BY <2>1, <2>3 DEF Owning
  <2> QED  BY <2>1, <2>3, <2>4, LockKept DEF LockInv
<1>6. ASSUME NEW t \in Tasks, NEW ok \in BOOLEAN, Finish(t, ok) PROVE Goal
  <2>1. /\ pc[t] = "running" /\ lock' = [lock EXCEPT ![TargetOf[t]] = NoTask]
        /\ HandOver(t, "idle", waiters, Release(value), 1)
    BY <1>6 DEF Finish
  <2>2. waiters \in Seq(Tasks) /\ Release(value) \in Nat /\ LineIs(waiters, t)
    BY <2>1, LineOfOther DEF LockInv, TypeOK, Release
  <2>3. /\ LineMatchesTasks' /\ pc'[t] = "idle"
        /\ \A s \in Tasks : s # t => (Owning(pc'[s]) <=> Owning(pc[s]))
    BY <2>1, <2>2, HandOverOthers DEF TaskPC
  <2>4. Owning(pc[t]) /\ ~Owning(pc'[t])
    BY <2>1, <2>3 DEF Owning
  <2> QED  BY <2>1, <2>3, <2>4, LockFreed DEF LockInv
<1>7. CASE Shutdown \/ UNCHANGED vars
  BY <1>7, LockKept DEF Shutdown, vars, admission, LockInv, LineMatchesTasks
<1> QED
  BY <1>1, <1>2, <1>3, <1>4, <1>5, <1>6, <1>7 DEF Next, Step

LEMMA LockInductive == Spec => []LockInv
<1>1. LockInv /\ [Next]_vars => LockInv'
  BY LockNext, NextTypeOK DEF LockInv
<1> QED  BY <1>1, LockInit, PTL DEF Spec

(* The lock of a collector is held exactly by the task that waits or runs     *)
(* for it, on every interleaving of calls, deadlines and cancellations.       *)
THEOREM LockSafe == Spec => []LockDiscipline
  BY LockInductive, PTL DEF LockInv

(* The line of the semaphore holds every queued task exactly once.            *)
THEOREM LineSafe == Spec => []LineMatchesTasks
  BY LockInductive, PTL DEF LockInv

-----------------------------------------------------------------------------
(* Counting permits.  A prefix of a line without repetitions has as many     *)
(* members as its length.                                                    *)
LEMMA PrefixCardinality ==
    ASSUME NEW S, NEW q \in Seq(S), NEW k \in Nat, k <= Len(q),
           \A i, j \in 1..Len(q) : q[i] = q[j] => i = j,
           NEW P, P = {q[i] : i \in 1..k}
    PROVE  IsFiniteSet(P) /\ Cardinality(P) = k
<1> DEFINE f == [i \in 1..k |-> q[i]]
<1>1. f \in [1..k -> P] /\ \A a, b \in 1..k : f[a] = f[b] => a = b
  BY LenProperties
<1>2. \A x \in P : \E i \in 1..k : f[i] = x
  OBVIOUS
<1>3. ExistsBijection(1..k, P)
  BY <1>1, <1>2, Fun_IsBij, Fun_ExistsBij
<1>4. IsFiniteSet(1..k)
  BY FS_Interval
<1> QED  BY <1>3, <1>4, FS_Bijection, FS_CountingElements

LEMMA HoldingFinite == IsFiniteSet(Holding) /\ Holding \subseteq Tasks
<1>1. Holding \in SUBSET Tasks
  BY DEF Holding
<1> QED  BY <1>1, TasksAssumption, FS_Subset

(* A hand-over conserves permits: what leaves the counter goes to a waiter.   *)
LEMMA HandOverPermits ==
    ASSUME TypeOK, NEW t \in Tasks, NEW p \in {"idle", "running"}, NEW q \in Seq(Tasks),
           NEW v \in Nat, NEW n \in Nat, LineIs(q, t), HandOver(t, p, q, v, n)
    PROVE  value' + Cardinality(Holding') =
              v + Cardinality(Holding \ {t}) + (IF p = "running" THEN 1 ELSE 0)
<1> DEFINE k == WakeCount(n, v, Len(q))
           woken == {q[i] : i \in 1..k}
           rest == Holding \ {t}
<1>1. k \in Nat /\ k <= Len(q) /\ k <= v
  BY WakeCountBounds, LenProperties
<1>2. /\ value' = v - k
      /\ pc' = [s \in Tasks |-> IF s = t THEN p ELSE IF s \in woken THEN "granted" ELSE pc[s]]
  BY DEF HandOver
<1> HIDE DEF k
<1>3. IsFiniteSet(woken) /\ Cardinality(woken) = k
  <2>1. \A i, j \in 1..Len(q) : q[i] = q[j] => i = j
    BY DEF LineIs
  <2> QED  BY <2>1, <1>1, PrefixCardinality
<1>4. t \notin woken /\ woken \subseteq Tasks /\ \A s \in woken : pc[s] = "queued"
  BY <1>1, LenProperties DEF LineIs
<1> HIDE DEF woken
<1>5. IsFiniteSet(rest) /\ Cardinality(rest) \in Nat
  BY HoldingFinite, FS_RemoveElement, FS_CardinalityType
<1>6. rest \cap woken = {} /\ t \notin rest \cup woken
  BY <1>4 DEF Holding
<1>7. IsFiniteSet(rest \cup woken) /\ Cardinality(rest \cup woken) = Cardinality(rest) + k
  <2>1. Cardinality(rest \cap woken) = 0
    BY <1>6, FS_EmptySet
  <2>2. /\ IsFiniteSet(rest \cup woken)
        /\ Cardinality(rest \cup woken) =
              Cardinality(rest) + Cardinality(woken) - Cardinality(rest \cap woken)
    BY <1>3, <1>5, FS_Union
  <2> QED  BY <2>1, <2>2, <1>1, <1>3, <1>5
<1>8. CASE p = "running"
  <2>1. Holding' = (rest \cup woken) \cup {t}
    BY <1>2, <1>4, <1>8 DEF Holding
  <2>2. Cardinality(Holding') = Cardinality(rest) + k + 1
    BY <2>1, <1>6, <1>7, FS_AddElement
  <2> QED  BY <2>2, <1>1, <1>2, <1>5, <1>8
<1>9. CASE p = "idle"
  <2>1. Holding' = rest \cup woken
    BY <1>2, <1>4, <1>9 DEF Holding
  <2> QED  BY <2>1, <1>1, <1>2, <1>5, <1>7, <1>9
<1> QED  BY <1>8, <1>9

LEMMA EnterPermits ==
    ASSUME LockInv, PermitsConserved, NEW t \in Tasks, ~Owning(pc[t]), Enter(t, TargetOf[t])
    PROVE  PermitsConserved'
<1> USE DEF LockInv
<1>1. Cardinality(Holding) \in Nat /\ t \notin Holding
  BY HoldingFinite, FS_CardinalityType DEF Holding, Owning
<1>2. CASE SkipLocked(t, TargetOf[t]) \/ Enqueue(t, TargetOf[t])
  <2>1. value' = value /\ (pc' = [pc EXCEPT ![t] = "idle"] \/ pc' = [pc EXCEPT ![t] = "queued"])
    BY <1>2 DEF SkipLocked, Enqueue, admission
  <2>2. Holding' = Holding
    BY <2>1, <1>1 DEF Holding, TypeOK
  <2> QED  BY <2>1, <2>2 DEF PermitsConserved
<1>3. CASE AdmitAtOnce(t, TargetOf[t])
  <2>1. value' = value - 1 /\ pc' = [pc EXCEPT ![t] = "running"]
    BY <1>3 DEF AdmitAtOnce
  <2>2. Holding' = Holding \cup {t}
    BY <2>1 DEF Holding, TypeOK
  <2>3. Cardinality(Holding') = Cardinality(Holding) + 1
    BY <2>2, <1>1, HoldingFinite, FS_AddElement
  <2> QED  BY <2>1, <2>3, <1>1 DEF PermitsConserved, TypeOK
<1> QED  BY <1>2, <1>3 DEF Enter

LEMMA LeavePermits ==
    ASSUME LockInv, PermitsConserved, NEW t \in Tasks, LeaveLine(t)
    PROVE  PermitsConserved'
<1> USE DEF LockInv, ReleaseIfAdmitted
<1>1. Cardinality(Holding) \in Nat /\ value \in Nat
  BY HoldingFinite, FS_CardinalityType DEF TypeOK
<1>2. CASE pc[t] = "granted" /\ HandOver(t, "idle", waiters, value + 1, value + 1)
  <2>1. LineIs(waiters, t) /\ waiters \in Seq(Tasks)
    BY <1>2, LineOfOther DEF TypeOK
  <2>2. value' + Cardinality(Holding') = (value + 1) + Cardinality(Holding \ {t}) + 0
    BY <1>1, <1>2, <2>1, HandOverPermits
  <2>3. Cardinality(Holding \ {t}) = Cardinality(Holding) - 1
    BY <1>2, HoldingFinite, FS_RemoveElement DEF Holding
  <2> QED  BY <2>2, <2>3, <1>1 DEF PermitsConserved
<1>3. ASSUME NEW i \in 1..Len(waiters), waiters[i] = t, pc[t] = "queued",
             HandOver(t, "idle", RemoveFuture(i), value, value)
      PROVE  PermitsConserved'
  <2>1. LineIs(RemoveFuture(i), t) /\ RemoveFuture(i) \in Seq(Tasks)
    BY <1>3, LineOfLeaver
  <2>2. value' + Cardinality(Holding') = value + Cardinality(Holding \ {t}) + 0
    BY <1>1, <1>3, <2>1, HandOverPermits
  <2>3. Holding \ {t} = Holding
    BY <1>3 DEF Holding
  <2>4. Cardinality(Holding \ {t}) = Cardinality(Holding)
    BY <2>3
  <2> QED  BY <2>2, <2>4, <1>1 DEF PermitsConserved
<1> QED  BY <1>2, <1>3 DEF LeaveLine, ReturnPermit

LEMMA PermitsNext == LockInv /\ PermitsConserved /\ [Next]_vars => PermitsConserved'
<1> SUFFICES ASSUME LockInv, PermitsConserved, [Next]_vars PROVE PermitsConserved'
  OBVIOUS
<1>0. Cardinality(Holding) \in Nat /\ value \in Nat
  BY HoldingFinite, FS_CardinalityType DEF LockInv, TypeOK
<1>1. ASSUME NEW t \in Tasks, Call(t) PROVE PermitsConserved'
  BY <1>1, EnterPermits DEF Call, Owning
<1>2. ASSUME NEW t \in Tasks, TriggerStart(t) PROVE PermitsConserved'
  BY <1>2, EnterPermits DEF TriggerStart, Owning
<1>3. ASSUME NEW t \in Tasks, Expire(t) \/ CancelWaiting(t) PROVE PermitsConserved'
  BY <1>3, LeavePermits DEF Expire, CancelWaiting
<1>4. ASSUME NEW t \in Tasks, Trigger(t) \/ CancelCreated(t) PROVE PermitsConserved'
  <2>1. value' = value /\ Holding' = Holding
    BY <1>4 DEF Trigger, CancelCreated, admission, LockInv, TypeOK, Holding
  <2> QED  BY <2>1 DEF PermitsConserved
<1>5. ASSUME NEW t \in Tasks, Resume(t) PROVE PermitsConserved'
  <2>1. pc[t] = "granted" /\ HandOver(t, "running", waiters, value, value)
    BY <1>5 DEF Resume, PassPermits
  <2>2. LineIs(waiters, t) /\ waiters \in Seq(Tasks)
    BY <2>1, LineOfOther DEF LockInv, TypeOK
  <2>3. value' + Cardinality(Holding') = value + Cardinality(Holding \ {t}) + 1
    BY <1>0, <2>1, <2>2, HandOverPermits DEF LockInv
  <2>4. Cardinality(Holding \ {t}) = Cardinality(Holding) - 1
    BY <2>1, HoldingFinite, FS_RemoveElement DEF Holding
  <2> QED  BY <2>3, <2>4, <1>0 DEF PermitsConserved
<1>6. ASSUME NEW t \in Tasks, NEW ok \in BOOLEAN, Finish(t, ok) PROVE PermitsConserved'
  <2>1. pc[t] = "running" /\ HandOver(t, "idle", waiters, value + 1, 1)
    BY <1>6 DEF Finish, Release
  <2>2. LineIs(waiters, t) /\ waiters \in Seq(Tasks)
    BY <2>1, LineOfOther DEF LockInv, TypeOK
  <2>3. value' + Cardinality(Holding') = (value + 1) + Cardinality(Holding \ {t}) + 0
    BY <1>0, <2>1, <2>2, HandOverPermits DEF LockInv
  <2>4. Cardinality(Holding \ {t}) = Cardinality(Holding) - 1
    BY <2>1, HoldingFinite, FS_RemoveElement DEF Holding
  <2> QED  BY <2>3, <2>4, <1>0 DEF PermitsConserved
<1>7. CASE Shutdown \/ UNCHANGED vars
  BY <1>7 DEF Shutdown, vars, admission, Holding, PermitsConserved
<1> QED
  BY <1>1, <1>2, <1>3, <1>4, <1>5, <1>6, <1>7 DEF Next, Step

LEMMA PermitsInit == Init => PermitsConserved
<1> SUFFICES ASSUME Init PROVE PermitsConserved
  OBVIOUS
<1>1. Holding = {}
  BY DEF Init, Holding
<1> QED  BY <1>1, FS_EmptySet, LimitAssumption DEF Init, PermitsConserved

ManagerInv == LockInv /\ PermitsConserved

LEMMA ManagerInductive == Spec => []ManagerInv
<1>1. Init => ManagerInv
  BY LockInit, PermitsInit DEF ManagerInv
<1>2. ManagerInv /\ [Next]_vars => ManagerInv'
  BY LockNext, NextTypeOK, PermitsNext DEF ManagerInv, LockInv
<1> QED  BY <1>1, <1>2, PTL DEF Spec

(* A permit of the semaphore is free or belongs to exactly one task, however  *)
(* deadlines and cancellations race the grants.                               *)
THEOREM PermitsSafe == Spec => []PermitsConserved
  BY ManagerInductive, PTL DEF ManagerInv

-----------------------------------------------------------------------------
(* The refinement.  A collector is served by the task that runs it. *)
ServingIsRunner ==
    \A c \in Collectors :
        /\ Serving[c] \in Tasks \cup {NoTask}
        /\ \A t \in Tasks : Serving[c] = t <=> t \in Running /\ TargetOf[t] = c

LEMMA ServingFacts == LockInv => ServingIsRunner
<1> SUFFICES ASSUME LockInv, NEW c \in Collectors
             PROVE  /\ Serving[c] \in Tasks \cup {NoTask}
                    /\ \A t \in Tasks : Serving[c] = t <=> t \in Running /\ TargetOf[t] = c
  BY DEF ServingIsRunner
<1>1. CASE \E t \in Running : TargetOf[t] = c
  <2>1. PICK t \in Running : TargetOf[t] = c
    BY <1>1
  <2>2. Serving[c] = lock[c]
    BY <1>1 DEF Serving
  <2>3. \A s \in Running : TargetOf[s] = c => lock[c] = s
    BY DEF LockInv, LockDiscipline, Running
  <2> QED  BY <2>1, <2>2, <2>3 DEF Running
<1>2. CASE ~\E t \in Running : TargetOf[t] = c
  <2>1. Serving[c] = NoTask
    BY <1>2 DEF Serving
  <2> QED  BY <2>1, <1>2, TasksAssumption
<1> QED  BY <1>1, <1>2

LEMMA ServingPrimed == LockInv' => ServingIsRunner'
  BY ServingFacts, PTL

LEMMA ServingDomain ==
    /\ Serving = [c \in Collectors |-> Serving[c]]
    /\ Serving' = [c \in Collectors |-> Serving'[c]]
  BY DEF Serving

LEMMA ServingKept ==
    ASSUME LockInv, LockInv', Running' = Running
    PROVE  Serving' = Serving
<1>1. \A c \in Collectors : Serving'[c] = Serving[c]
  BY ServingFacts, ServingPrimed, TasksAssumption DEF ServingIsRunner
<1> QED  BY <1>1, ServingDomain

(* Fewer collectors are served than there are permits, as long as one permit  *)
(* is free or belongs to a task that does not run.                            *)
LEMMA BusyBound ==
    ASSUME LockInv, PermitsConserved,
           value > 0 \/ \E t \in Tasks : pc[t] = "granted"
    PROVE  Cardinality(Admission!Busy) < Limit
<1> DEFINE B == Admission!Busy
           f == [c \in B |-> Serving[c]]
<1>1. B = {c \in Collectors : Serving[c] # NoTask}
  BY DEF Admission!Busy
<1>2. \A c \in B : Serving[c] \in Running /\ TargetOf[Serving[c]] = c
  BY <1>1, ServingFacts DEF ServingIsRunner
<1>3. f \in Injection(B, Running)
  <2>1. f \in [B -> Running] /\ \A a, b \in B : f[a] = f[b] => a = b
    BY <1>2
  <2> QED  BY <2>1, Fun_IsInj
<1>4. Running \in SUBSET Holding
  BY DEF Running, Holding
<1>5. IsFiniteSet(Running) /\ Cardinality(Running) <= Cardinality(Holding)
  BY <1>4, HoldingFinite, FS_Subset
<1>6. Cardinality(B) <= Cardinality(Running) /\ IsFiniteSet(B)
  BY <1>3, <1>5, FS_Injection
<1>7. /\ Cardinality(B) \in Nat /\ Cardinality(Running) \in Nat
      /\ Cardinality(Holding) \in Nat /\ value \in Nat
  BY <1>5, <1>6, HoldingFinite, FS_CardinalityType DEF LockInv, TypeOK
<1> HIDE DEF B
<1>8. CASE value > 0
  BY <1>5, <1>6, <1>7, <1>8, LimitAssumption DEF PermitsConserved, B
<1>9. CASE \E t \in Tasks : pc[t] = "granted"
  <2>1. Running # Holding
    BY <1>9 DEF Running, Holding
  <2>2. Cardinality(Running) # Cardinality(Holding)
    BY <2>1, <1>4, HoldingFinite, FS_Subset
  <2> QED  BY <2>2, <1>5, <1>6, <1>7, LimitAssumption DEF PermitsConserved, B
<1> QED  BY <1>8, <1>9

LEMMA ServingStarts ==
    ASSUME LockInv, LockInv', PermitsConserved, NEW t \in Tasks,
           t \notin Running, Running' = Running \cup {t},
           \A s \in Running : TargetOf[s] # TargetOf[t],
           value > 0 \/ \E s \in Tasks : pc[s] = "granted"
    PROVE  Admission!Start(t, TargetOf[t])
<1> USE TargetAssumption DEF ServingIsRunner
<1>1. Serving[TargetOf[t]] = NoTask
  BY ServingFacts
<1>2. \A d \in Collectors : Serving[d] # t
  BY ServingFacts
<1>3. \A c \in Collectors : Serving'[c] = IF c = TargetOf[t] THEN t ELSE Serving[c]
  <2> SUFFICES ASSUME NEW c \in Collectors
               PROVE  Serving'[c] = IF c = TargetOf[t] THEN t ELSE Serving[c]
    OBVIOUS
  <2>1. CASE c = TargetOf[t]
    BY <2>1, ServingPrimed
  <2>2. CASE c # TargetOf[t]
    <3>1. \A s \in Tasks : Serving'[c] = s <=> Serving[c] = s
      BY <2>2, ServingFacts, ServingPrimed
    <3> QED  BY <2>2, <3>1, ServingFacts, ServingPrimed
  <2> QED  BY <2>1, <2>2
<1>4. Serving' = [Serving EXCEPT ![TargetOf[t]] = t]
  BY <1>3, ServingDomain
<1>5. Cardinality(Admission!Busy) < Limit
  BY BusyBound
<1>6. Admission!Cardinality(Admission!Busy) = Cardinality(Admission!Busy)
  BY DEF Admission!Cardinality, Cardinality
<1> QED  BY <1>1, <1>2, <1>4, <1>5, <1>6 DEF Admission!Start

LEMMA ServingEnds ==
    ASSUME LockInv, LockInv', NEW t \in Tasks, t \in Running, Running' = Running \ {t}
    PROVE  Admission!End(TargetOf[t])
<1> USE TargetAssumption DEF ServingIsRunner
<1>1. Serving[TargetOf[t]] = t /\ t # NoTask
  BY ServingFacts, TasksAssumption
<1>2. \A c \in Collectors : Serving'[c] = IF c = TargetOf[t] THEN NoTask ELSE Serving[c]
  <2> SUFFICES ASSUME NEW c \in Collectors
               PROVE  Serving'[c] = IF c = TargetOf[t] THEN NoTask ELSE Serving[c]
    OBVIOUS
  <2>1. CASE c = TargetOf[t]
    <3>1. \A s \in Tasks : Serving'[c] # s
      <4> SUFFICES ASSUME NEW s \in Tasks, Serving'[c] = s PROVE FALSE
        OBVIOUS
      <4>1. s \in Running /\ s # t /\ TargetOf[s] = c
        BY <2>1, ServingPrimed
      <4> QED  BY <4>1, <2>1, <1>1, ServingFacts
    <3> QED  BY <2>1, <3>1, ServingPrimed
  <2>2. CASE c # TargetOf[t]
    <3>1. \A s \in Tasks : Serving'[c] = s <=> Serving[c] = s
      BY <2>2, ServingFacts, ServingPrimed
    <3> QED  BY <2>2, <3>1, ServingFacts, ServingPrimed
  <2> QED  BY <2>1, <2>2
<1>3. Serving' = [Serving EXCEPT ![TargetOf[t]] = NoTask]
  BY <1>2, ServingDomain
<1> QED  BY <1>1, <1>3 DEF Admission!End

-----------------------------------------------------------------------------
(* Who runs after a hand-over: waking never starts a run by itself. *)
LEMMA HandOverRunning ==
    ASSUME LockInv, NEW t \in Tasks, NEW p \in {"idle", "running"}, NEW q \in Seq(Tasks),
           NEW v \in Nat, NEW n \in Nat, LineIs(q, t), HandOver(t, p, q, v, n)
    PROVE  Running' = IF p = "running" THEN Running \cup {t} ELSE Running \ {t}
<1>1. /\ pc'[t] = p
      /\ \A s \in Tasks : s # t => pc'[s] = pc[s] \/ (pc[s] = "queued" /\ pc'[s] = "granted")
  BY HandOverLine DEF LockInv, TaskPC
<1> QED  BY <1>1 DEF Running

(* The task that starts was the holder of its collector's lock, so nobody     *)
(* else runs that collector.                                                  *)
LEMMA NobodyElseRuns ==
    ASSUME LockInv, NEW t \in Tasks, t \notin Running,
           lock[TargetOf[t]] = NoTask \/ lock[TargetOf[t]] = t
    PROVE  \A s \in Running : TargetOf[s] # TargetOf[t]
  BY TargetAssumption, TasksAssumption DEF LockInv, LockDiscipline, Running

LEMMA EnterRefines ==
    ASSUME ManagerInv, ManagerInv', NEW t \in Tasks, ~Owning(pc[t]), Enter(t, TargetOf[t])
    PROVE  Admission!Next \/ Serving' = Serving
<1> USE DEF ManagerInv
<1>1. CASE SkipLocked(t, TargetOf[t]) \/ Enqueue(t, TargetOf[t])
  <2>1. pc' = [pc EXCEPT ![t] = "idle"] \/ pc' = [pc EXCEPT ![t] = "queued"]
    BY <1>1 DEF SkipLocked, Enqueue
  <2>2. Running' = Running
    BY <2>1 DEF Running, LockInv, TypeOK, Owning
  <2> QED  BY <2>2, ServingKept
<1>2. CASE AdmitAtOnce(t, TargetOf[t])
  <2>1. /\ pc' = [pc EXCEPT ![t] = "running"] /\ lock[TargetOf[t]] = NoTask /\ value # 0
    BY <1>2 DEF AdmitAtOnce, SemaphoreLocked
  <2>2. Running' = Running \cup {t} /\ t \notin Running
    BY <2>1 DEF Running, LockInv, TypeOK, Owning
  <2>3. value > 0
    BY <2>1 DEF LockInv, TypeOK
  <2>4. Admission!Start(t, TargetOf[t])
    BY <2>1, <2>2, <2>3, NobodyElseRuns, ServingStarts
  <2> QED  BY <2>4, TargetAssumption DEF Admission!Next
<1> QED  BY <1>1, <1>2 DEF Enter

LEMMA LeaveRefines ==
    ASSUME ManagerInv, ManagerInv', NEW t \in Tasks, LeaveLine(t)
    PROVE  Serving' = Serving
<1> USE DEF ManagerInv, LockInv, ReleaseIfAdmitted
<1>1. t \notin Running
  BY DEF LeaveLine, Running
<1>2. CASE pc[t] = "granted" /\ HandOver(t, "idle", waiters, value + 1, value + 1)
  <2>1. LineIs(waiters, t) /\ waiters \in Seq(Tasks) /\ value + 1 \in Nat
    BY <1>2, LineOfOther DEF TypeOK
  <2>2. Running' = Running \ {t}
    BY <1>2, <2>1, HandOverRunning
  <2> QED  BY <1>1, <2>2, ServingKept
<1>3. ASSUME NEW i \in 1..Len(waiters), waiters[i] = t,
             HandOver(t, "idle", RemoveFuture(i), value, value)
      PROVE  Serving' = Serving
  <2>1. LineIs(RemoveFuture(i), t) /\ RemoveFuture(i) \in Seq(Tasks) /\ value \in Nat
    BY <1>3, LineOfLeaver DEF TypeOK
  <2>2. Running' = Running \ {t}
    BY <1>3, <2>1, HandOverRunning
  <2> QED  BY <1>1, <2>2, ServingKept
<1> QED  BY <1>2, <1>3 DEF LeaveLine, ReturnPermit

LEMMA NextRefines ==
    ManagerInv /\ ManagerInv' /\ [Next]_vars => [Admission!Next]_Serving
<1> SUFFICES ASSUME ManagerInv, ManagerInv', [Next]_vars
             PROVE  Admission!Next \/ Serving' = Serving
  OBVIOUS
<1> DEFINE Goal == Admission!Next \/ Serving' = Serving
<1>1. ASSUME NEW t \in Tasks, Call(t) PROVE Goal
  BY <1>1, EnterRefines DEF Call, Owning
<1>2. ASSUME NEW t \in Tasks, TriggerStart(t) PROVE Goal
  BY <1>2, EnterRefines DEF TriggerStart, Owning
<1>3. ASSUME NEW t \in Tasks, Expire(t) \/ CancelWaiting(t) PROVE Goal
  BY <1>3, LeaveRefines DEF Expire, CancelWaiting
<1>4. ASSUME NEW t \in Tasks, Trigger(t) \/ CancelCreated(t) PROVE Goal
  <2>1. Running' = Running
    BY <1>4 DEF Trigger, CancelCreated, ManagerInv, LockInv, TypeOK, Running
  <2> QED  BY <2>1, ServingKept DEF ManagerInv
<1>5. ASSUME NEW t \in Tasks, Resume(t) PROVE Goal
  <2>1. pc[t] = "granted" /\ lock' = lock /\ HandOver(t, "running", waiters, value, value)
    BY <1>5 DEF Resume, PassPermits
  <2>2. LineIs(waiters, t) /\ waiters \in Seq(Tasks) /\ value \in Nat
    BY <2>1, LineOfOther DEF ManagerInv, LockInv, TypeOK
  <2>3. Running' = Running \cup {t} /\ t \notin Running
    BY <2>1, <2>2, HandOverRunning DEF ManagerInv, Running
  <2>4. lock[TargetOf[t]] = t
    BY <2>1, TargetAssumption DEF ManagerInv, LockInv, LockDiscipline
  <2>5. \A s \in Running : TargetOf[s] # TargetOf[t]
    BY <2>3, <2>4, NobodyElseRuns DEF ManagerInv
  <2>6. Admission!Start(t, TargetOf[t])
    BY <2>1, <2>3, <2>5, ServingStarts DEF ManagerInv
  <2> QED  BY <2>6, TargetAssumption DEF Admission!Next
<1>6. ASSUME NEW t \in Tasks, NEW ok \in BOOLEAN, Finish(t, ok) PROVE Goal
  <2>1. pc[t] = "running" /\ HandOver(t, "idle", waiters, Release(value), 1)
    BY <1>6 DEF Finish
  <2>2. LineIs(waiters, t) /\ waiters \in Seq(Tasks) /\ Release(value) \in Nat
    BY <2>1, LineOfOther DEF ManagerInv, LockInv, TypeOK, Release
  <2>3. Running' = Running \ {t} /\ t \in Running
    BY <2>1, <2>2, HandOverRunning DEF ManagerInv, Running
  <2>4. Admission!End(TargetOf[t])
    BY <2>3, ServingEnds DEF ManagerInv
  <2> QED  BY <2>4, TargetAssumption DEF Admission!Next
<1>7. CASE Shutdown \/ UNCHANGED vars
  <2>1. Running' = Running
    BY <1>7 DEF Shutdown, vars, Running
  <2> QED  BY <2>1, ServingKept DEF ManagerInv
<1> QED
  BY <1>1, <1>2, <1>3, <1>4, <1>5, <1>6, <1>7 DEF Next, Step

LEMMA InitRefines == Init => Admission!Init
<1> SUFFICES ASSUME Init PROVE Serving = [c \in Collectors |-> NoTask]
  BY DEF Admission!Init
<1>1. Running = {}
  BY DEF Init, Running
<1> QED  BY <1>1 DEF Serving

(* The manager implements the abstract admission for any tasks, collectors    *)
(* and limit: a collector is never served twice at once, and no more than     *)
(* Limit collectors are served together.                                      *)
THEOREM AdmissionImplemented == Spec => ImplementsAdmission
  BY InitRefines, ManagerInductive, NextRefines, PTL
     DEF Spec, ImplementsAdmission, Admission!Spec

-----------------------------------------------------------------------------
(* Wake-ups.  A hand-over of all the free permits, or of one at least, leaves *)
(* no permit free with everybody asleep: it takes the whole line, or all the  *)
(* permits, or grants one to the head of the line.                            *)
LEMMA HandOverWakes ==
    ASSUME LockInv, NEW t \in Tasks, NEW p \in {"idle", "running"}, NEW q \in Seq(Tasks),
           NEW v \in Nat, NEW n \in Nat, LineIs(q, t), HandOver(t, p, q, v, n),
           n = v \/ n >= 1
    PROVE  NoLostWakeup'
<1> DEFINE k == WakeCount(n, v, Len(q))
           woken == {q[i] : i \in 1..k}
<1>1. k \in Nat /\ k <= Len(q) /\ Len(q) \in Nat /\ k \in {n, v, Len(q)}
  BY WakeCountBounds, LenProperties
<1>2. /\ value' = v - k /\ waiters' = SubSeq(q, k + 1, Len(q))
      /\ pc' = [s \in Tasks |-> IF s = t THEN p ELSE IF s \in woken THEN "granted" ELSE pc[s]]
  BY DEF HandOver
<1> HIDE DEF k
<1>3. CASE k = v
  BY <1>2, <1>3 DEF NoLostWakeup
<1>4. CASE k = Len(q)
  <2>1. Len(waiters') = 0
    BY <1>1, <1>2, <1>4, SuffixFacts
  <2>2. LineMatchesTasks'
    BY HandOverLine DEF LockInv, TaskPC
  <2>3. \A s \in Tasks : pc'[s] # "queued"
    BY <2>1, <2>2 DEF LineMatchesTasks
  <2> QED  BY <2>3 DEF NoLostWakeup
<1>5. CASE k >= 1
  <2>1. 1 \in 1..k /\ 1 \in 1..Len(q)
    BY <1>1, <1>5
  <2>2. q[1] \in woken /\ q[1] # t /\ q[1] \in Tasks
    BY <2>1, LenProperties DEF LineIs
  <2>3. pc'[q[1]] = "granted"
    BY <1>2, <2>2
  <2> QED  BY <2>2, <2>3 DEF NoLostWakeup
<1> QED  BY <1>1, <1>3, <1>4, <1>5

(* Waiting for the semaphore and queueing behind others leaves nobody asleep  *)
(* beside a free permit: a task queues only when there is none, or when       *)
(* somebody is in line already.                                               *)
LEMMA EnterWakes ==
    ASSUME LockInv, NoLostWakeup, NEW t \in Tasks, ~Owning(pc[t]), Enter(t, TargetOf[t])
    PROVE  NoLostWakeup'
<1> USE DEF LockInv, TypeOK
<1>1. CASE SkipLocked(t, TargetOf[t])
  <2>1. value' = value /\ pc' = [pc EXCEPT ![t] = "idle"]
    BY <1>1 DEF SkipLocked, admission
  <2> QED  BY <2>1 DEF NoLostWakeup, Owning
<1>2. CASE AdmitAtOnce(t, TargetOf[t])
  <2>1. pc' = [pc EXCEPT ![t] = "running"] /\ Waiting = {}
    BY <1>2 DEF AdmitAtOnce, SemaphoreLocked
  <2>2. \A s \in Tasks : pc'[s] # "queued"
    BY <2>1 DEF Waiting
  <2> QED  BY <2>2 DEF NoLostWakeup
<1>3. CASE Enqueue(t, TargetOf[t])
  <2>1. /\ value' = value /\ pc' = [pc EXCEPT ![t] = "queued"]
        /\ value = 0 \/ Waiting # {}
    BY <1>3 DEF Enqueue, SemaphoreLocked
  <2>2. CASE value = 0
    BY <2>1, <2>2 DEF NoLostWakeup
  <2>3. CASE value > 0 /\ Waiting # {}
    <3>1. PICK s \in Tasks : pc[s] = "granted"
      BY <2>3 DEF NoLostWakeup, Waiting
    <3>2. pc'[s] = "granted"
      BY <2>1, <3>1 DEF Owning
    <3> QED  BY <3>2 DEF NoLostWakeup
  <2> QED  BY <2>1, <2>2, <2>3
<1> QED  BY <1>1, <1>2, <1>3 DEF Enter

LEMMA WakesNext == LockInv /\ NoLostWakeup /\ [Next]_vars => NoLostWakeup'
<1> SUFFICES ASSUME LockInv, NoLostWakeup, [Next]_vars PROVE NoLostWakeup'
  OBVIOUS
<1>1. ASSUME NEW t \in Tasks, Call(t) \/ TriggerStart(t) PROVE NoLostWakeup'
  BY <1>1, EnterWakes DEF Call, TriggerStart, Owning
<1>2. ASSUME NEW t \in Tasks, LeaveLine(t) PROVE NoLostWakeup'
  <2> USE DEF LockInv, ReleaseIfAdmitted
  <2>1. CASE pc[t] = "granted" /\ HandOver(t, "idle", waiters, value + 1, value + 1)
    <3>1. LineIs(waiters, t) /\ waiters \in Seq(Tasks) /\ value + 1 \in Nat
      BY <2>1, LineOfOther DEF TypeOK
    <3> QED  BY <2>1, <3>1, HandOverWakes
  <2>2. ASSUME NEW i \in 1..Len(waiters), waiters[i] = t,
               HandOver(t, "idle", RemoveFuture(i), value, value)
        PROVE  NoLostWakeup'
    <3>1. LineIs(RemoveFuture(i), t) /\ RemoveFuture(i) \in Seq(Tasks) /\ value \in Nat
      BY <2>2, LineOfLeaver DEF TypeOK
    <3> QED  BY <2>2, <3>1, HandOverWakes
  <2> QED  BY <1>2, <2>1, <2>2 DEF LeaveLine, ReturnPermit
<1>3. ASSUME NEW t \in Tasks, Expire(t) \/ CancelWaiting(t) PROVE NoLostWakeup'
  BY <1>2, <1>3 DEF Expire, CancelWaiting
<1>4. ASSUME NEW t \in Tasks, Trigger(t) \/ CancelCreated(t) PROVE NoLostWakeup'
  <2>1. /\ value' = value /\ pc[t] \notin {"queued", "granted"}
        /\ pc' = [pc EXCEPT ![t] = "created"] \/ pc' = [pc EXCEPT ![t] = "idle"]
    BY <1>4 DEF Trigger, CancelCreated, admission
  <2>2. \A s \in Tasks : /\ (pc'[s] = "queued" <=> pc[s] = "queued")
                         /\ (pc'[s] = "granted" <=> pc[s] = "granted")
    BY <2>1 DEF LockInv, TypeOK
  <2> QED  BY <2>1, <2>2 DEF NoLostWakeup
<1>5. ASSUME NEW t \in Tasks, Resume(t) PROVE NoLostWakeup'
  <2>1. pc[t] = "granted" /\ HandOver(t, "running", waiters, value, value)
    BY <1>5 DEF Resume, PassPermits
  <2>2. LineIs(waiters, t) /\ waiters \in Seq(Tasks) /\ value \in Nat
    BY <2>1, LineOfOther DEF LockInv, TypeOK
  <2> QED  BY <2>1, <2>2, HandOverWakes
<1>6. ASSUME NEW t \in Tasks, NEW ok \in BOOLEAN, Finish(t, ok) PROVE NoLostWakeup'
  <2>1. pc[t] = "running" /\ HandOver(t, "idle", waiters, value + 1, 1)
    BY <1>6 DEF Finish, Release
  <2>2. LineIs(waiters, t) /\ waiters \in Seq(Tasks) /\ value + 1 \in Nat
    BY <2>1, LineOfOther DEF LockInv, TypeOK
  <2> QED  BY <2>1, <2>2, HandOverWakes
<1>7. CASE Shutdown \/ UNCHANGED vars
  BY <1>7 DEF Shutdown, vars, admission, NoLostWakeup
<1> QED
  BY <1>1, <1>3, <1>4, <1>5, <1>6, <1>7 DEF Next, Step

-----------------------------------------------------------------------------
(* The accounts of the runs: the force flag, the health record and the        *)
(* gauges of what executes.  They change where a run starts and where it      *)
(* ends, and by runs that expire before they start.                           *)
RunsAccounted ==
    /\ ForceIsolation /\ HealthBalance
    /\ activeGauge = Cardinality(Running)
    /\ \A c \in Collectors : parallelActive[c] = Executing(c)

LEMMA RunningFinite ==
    IsFiniteSet(Running) /\ IsFiniteSet(Waiting) /\ Cardinality(Running) \in Nat
<1>1. Running \in SUBSET Tasks /\ Waiting \in SUBSET Tasks
  BY DEF Running, Waiting
<1> QED  BY <1>1, TasksAssumption, FS_Subset, FS_CardinalityType

(* What the updates do to the fields of a record. *)
LEMMA RecordFields ==
    ASSUME NEW h \in HealthRecord
    PROVE  /\ h.runs \in Nat /\ h.successes \in Nat /\ h.failures \in Nat /\ h.streak \in Nat
           /\ /\ RunStarted(h).runs = h.runs + 1
              /\ RunStarted(h).successes = h.successes
              /\ RunStarted(h).failures = h.failures
              /\ RunStarted(h).streak = h.streak
           /\ /\ RunSucceeded(h).runs = h.runs
              /\ RunSucceeded(h).successes = h.successes + 1
              /\ RunSucceeded(h).failures = h.failures
              /\ RunSucceeded(h).streak = 0
           /\ /\ RunFailed(h).runs = h.runs
              /\ RunFailed(h).successes = h.successes
              /\ RunFailed(h).failures = h.failures + 1
              /\ RunFailed(h).streak = h.streak + 1
  BY DEF HealthRecord, RunStarted, RunSucceeded, RunFailed

LEMMA ExecutingStarts ==
    ASSUME NEW t \in Tasks, Running' = Running \cup {t},
           \A s \in Running : TargetOf[s] # TargetOf[t]
    PROVE  /\ Executing(TargetOf[t]) = 0
           /\ \A c \in Collectors : Executing(c) \in {0, 1}
           /\ \A c \in Collectors :
                 Executing(c)' = IF c = TargetOf[t] THEN 1 ELSE Executing(c)
  BY DEF Executing

LEMMA ExecutingEnds ==
    ASSUME NEW t \in Running, Running' = Running \ {t},
           \A s \in Running : TargetOf[s] = TargetOf[t] => s = t
    PROVE  /\ Executing(TargetOf[t]) = 1
           /\ \A c \in Collectors : Executing(c) \in {0, 1}
           /\ \A c \in Collectors :
                 Executing(c)' = IF c = TargetOf[t] THEN 0 ELSE Executing(c)
  BY DEF Executing

(* A run starts: nobody ran the collector, so its flag was down. *)
LEMMA AccountsStart ==
    ASSUME LockInv, RunsAccounted, NEW t \in Tasks, t \notin Running,
           Running' = Running \cup {t}, \A s \in Running : TargetOf[s] # TargetOf[t],
           StartRun(t, TargetOf[t])
    PROVE  RunsAccounted'
<1> DEFINE e == TargetOf[t]
<1>1. e \in Collectors
  BY TargetAssumption
<1>2. /\ activeGauge' = activeGauge + 1 /\ succeeded' = succeeded
      /\ parallelActive' = [parallelActive EXCEPT ![e] = @ + 1]
      /\ health' = [health EXCEPT ![e] = RunStarted(@)]
      /\ forceRun' = [forceRun EXCEPT ![e] = Forces[t] \/ @]
  BY DEF StartRun
<1>3. /\ Executing(e) = 0 /\ \A c \in Collectors : Executing(c) \in {0, 1}
      /\ \A c \in Collectors : Executing(c)' = IF c = e THEN 1 ELSE Executing(c)
  BY ExecutingStarts
<1>4. ForceIsolation'
  <2> SUFFICES ASSUME NEW c \in Collectors
               PROVE  forceRun'[c] <=> \E s \in Running' : TargetOf[s] = c /\ Forces[s]
    BY DEF ForceIsolation
  <2>1. forceRun[c] <=> \E s \in Running : TargetOf[s] = c /\ Forces[s]
    BY DEF RunsAccounted, ForceIsolation
  <2>2. CASE c = e
    <3>1. forceRun'[c] <=> Forces[t] \/ forceRun[c]
      BY <1>1, <1>2, <2>2 DEF LockInv, TypeOK
    <3> QED  BY <2>1, <2>2, <3>1
  <2>3. CASE c # e
    <3>1. forceRun'[c] = forceRun[c]
      BY <1>1, <1>2, <2>3 DEF LockInv, TypeOK
    <3> QED  BY <2>1, <2>3, <3>1
  <2> QED  BY <2>2, <2>3
<1>5. HealthBalance'
  <2> SUFFICES ASSUME NEW c \in Collectors
               PROVE  /\ health'[c].runs =
                            health'[c].successes + health'[c].failures + Executing(c)'
                      /\ health'[c].streak <= health'[c].failures
                      /\ c \in succeeded' <=> health'[c].successes > 0
    BY DEF HealthBalance
  <2>1. health[c] \in HealthRecord /\ Executing(c) \in {0, 1}
    BY <1>3 DEF LockInv, TypeOK
  <2>2. /\ health[c].runs = health[c].successes + health[c].failures + Executing(c)
        /\ health[c].streak <= health[c].failures
        /\ c \in succeeded <=> health[c].successes > 0
    BY DEF RunsAccounted, HealthBalance
  <2>3. health'[c] = IF c = e THEN RunStarted(health[c]) ELSE health[c]
    BY <1>1, <1>2 DEF LockInv, TypeOK
  <2>4. CASE c = e
    <3>1. /\ health'[c].runs = health[c].runs + 1
          /\ health'[c].successes = health[c].successes
          /\ health'[c].failures = health[c].failures
          /\ health'[c].streak = health[c].streak
      BY <2>1, <2>3, <2>4, RecordFields
    <3>2. Executing(c)' = 1 /\ Executing(c) = 0
      BY <1>3, <2>4
    <3> QED  BY <1>2, <2>1, <2>2, <3>1, <3>2, RecordFields
  <2>5. CASE c # e
    <3>1. Executing(c)' = Executing(c) /\ health'[c] = health[c]
      BY <1>3, <2>3, <2>5
    <3> QED  BY <1>2, <2>2, <3>1
  <2> QED  BY <2>4, <2>5
<1>6. activeGauge' = Cardinality(Running')
  BY <1>2, RunningFinite, FS_AddElement DEF RunsAccounted
<1>7. \A c \in Collectors : parallelActive'[c] = Executing(c)'
  BY <1>1, <1>2, <1>3 DEF RunsAccounted, LockInv, TypeOK
<1> QED  BY <1>4, <1>5, <1>6, <1>7 DEF RunsAccounted

(* A run ends, in one of the two ways in which it is accounted for. *)
LEMMA AccountsEnd ==
    ASSUME LockInv, RunsAccounted, NEW t \in Running, NEW ok \in BOOLEAN,
           Running' = Running \ {t}, Finish(t, ok)
    PROVE  RunsAccounted'
<1> DEFINE e == TargetOf[t]
<1>1. e \in Collectors /\ t \in Tasks
  BY TargetAssumption DEF Running
<1>2. /\ activeGauge' = activeGauge - 1
      /\ parallelActive' = [parallelActive EXCEPT ![e] = @ - 1]
      /\ forceRun' = [forceRun EXCEPT ![e] = IF Forces[t] THEN FALSE ELSE @]
  BY DEF Finish, ClearForce
<1>3. \A s \in Running : TargetOf[s] = e => s = t
  BY <1>1 DEF LockInv, LockDiscipline, Running
<1>4. /\ Executing(e) = 1 /\ \A c \in Collectors : Executing(c) \in {0, 1}
      /\ \A c \in Collectors : Executing(c)' = IF c = e THEN 0 ELSE Executing(c)
  BY <1>3, ExecutingEnds
<1>5. ForceIsolation'
  <2> SUFFICES ASSUME NEW c \in Collectors
               PROVE  forceRun'[c] <=> \E s \in Running' : TargetOf[s] = c /\ Forces[s]
    BY DEF ForceIsolation
  <2>1. forceRun[c] <=> \E s \in Running : TargetOf[s] = c /\ Forces[s]
    BY DEF RunsAccounted, ForceIsolation
  <2>2. CASE c = e
    <3>1. forceRun'[c] <=> ~Forces[t] /\ forceRun[c]
      BY <1>1, <1>2, <2>2 DEF LockInv, TypeOK
    <3> QED  BY <1>3, <2>1, <2>2, <3>1
  <2>3. CASE c # e
    <3>1. forceRun'[c] = forceRun[c]
      BY <1>1, <1>2, <2>3 DEF LockInv, TypeOK
    <3> QED  BY <2>1, <2>3, <3>1
  <2> QED  BY <2>2, <2>3
<1>6. HealthBalance'
  <2> SUFFICES ASSUME NEW c \in Collectors
               PROVE  /\ health'[c].runs =
                            health'[c].successes + health'[c].failures + Executing(c)'
                      /\ health'[c].streak <= health'[c].failures
                      /\ c \in succeeded' <=> health'[c].successes > 0
    BY DEF HealthBalance
  <2>1. health[c] \in HealthRecord /\ Executing(c) \in {0, 1}
    BY <1>4 DEF LockInv, TypeOK
  <2>2. /\ health[c].runs = health[c].successes + health[c].failures + Executing(c)
        /\ health[c].streak <= health[c].failures
        /\ c \in succeeded <=> health[c].successes > 0
    BY DEF RunsAccounted, HealthBalance
  <2>3. CASE ok
    <3>1. /\ health' = [health EXCEPT ![e] = RunSucceeded(@)]
          /\ succeeded' = succeeded \cup {e}
      BY <2>3 DEF Finish
    <3>2. health'[c] = IF c = e THEN RunSucceeded(health[c]) ELSE health[c]
      BY <1>1, <3>1 DEF LockInv, TypeOK
    <3>3. CASE c = e
      <4>1. /\ health'[c].runs = health[c].runs
            /\ health'[c].successes = health[c].successes + 1
            /\ health'[c].failures = health[c].failures /\ health'[c].streak = 0
        BY <2>1, <3>2, <3>3, RecordFields
      <4>2. Executing(c)' = 0 /\ Executing(c) = 1
        BY <1>4, <3>3
      <4> QED  BY <2>1, <2>2, <3>1, <3>3, <4>1, <4>2, RecordFields
    <3>4. CASE c # e
      <4>1. Executing(c)' = Executing(c) /\ health'[c] = health[c]
        BY <1>4, <3>2, <3>4
      <4> QED  BY <2>2, <3>1, <3>4, <4>1
    <3> QED  BY <3>3, <3>4
  <2>4. CASE ~ok
    <3>1. /\ health' = [health EXCEPT ![e] = RunFailed(@)] /\ succeeded' = succeeded
      BY <2>4 DEF Finish
    <3>2. health'[c] = IF c = e THEN RunFailed(health[c]) ELSE health[c]
      BY <1>1, <3>1 DEF LockInv, TypeOK
    <3>3. CASE c = e
      <4>1. /\ health'[c].runs = health[c].runs
            /\ health'[c].successes = health[c].successes
            /\ health'[c].failures = health[c].failures + 1
            /\ health'[c].streak = health[c].streak + 1
        BY <2>1, <3>2, <3>3, RecordFields
      <4>2. Executing(c)' = 0 /\ Executing(c) = 1
        BY <1>4, <3>3
      <4> QED  BY <2>1, <2>2, <3>1, <4>1, <4>2, RecordFields
    <3>4. CASE c # e
      <4>1. Executing(c)' = Executing(c) /\ health'[c] = health[c]
        BY <1>4, <3>2, <3>4
      <4> QED  BY <2>2, <3>1, <4>1
    <3> QED  BY <3>3, <3>4
  <2> QED  BY <2>3, <2>4
<1>7. activeGauge' = Cardinality(Running')
  BY <1>2, RunningFinite, FS_RemoveElement DEF RunsAccounted
<1>8. \A c \in Collectors : parallelActive'[c] = Executing(c)'
  BY <1>1, <1>2, <1>4 DEF RunsAccounted, LockInv, TypeOK
<1> QED  BY <1>5, <1>6, <1>7, <1>8 DEF RunsAccounted

(* Nothing starts and nothing ends; a run may have expired before its start. *)
LEMMA AccountsKept ==
    ASSUME LockInv, RunsAccounted, Running' = Running,
           UNCHANGED <<forceRun, succeeded, activeGauge, parallelActive>>,
           health' = health \/ \E e \in Collectors : PreStartFailure(e)
    PROVE  RunsAccounted'
<1>1. \A c \in Collectors : Executing(c)' = Executing(c) /\ Executing(c) \in {0, 1}
  BY DEF Executing
<1>2. HealthBalance'
  <2>1. CASE health' = health
    BY <1>1, <2>1 DEF RunsAccounted, HealthBalance
  <2>2. ASSUME NEW e \in Collectors, PreStartFailure(e) PROVE HealthBalance'
    <3> SUFFICES ASSUME NEW c \in Collectors
                 PROVE  /\ health'[c].runs =
                              health'[c].successes + health'[c].failures + Executing(c)'
                        /\ health'[c].streak <= health'[c].failures
                        /\ c \in succeeded' <=> health'[c].successes > 0
      BY DEF HealthBalance
    <3>1. health[c] \in HealthRecord
      BY DEF LockInv, TypeOK
    <3>2. /\ health[c].runs = health[c].successes + health[c].failures + Executing(c)
          /\ health[c].streak <= health[c].failures
          /\ c \in succeeded <=> health[c].successes > 0
      BY DEF RunsAccounted, HealthBalance
    <3>3. health'[c] = IF c = e THEN RunFailed(RunStarted(health[c])) ELSE health[c]
      BY <2>2 DEF PreStartFailure, LockInv, TypeOK
    <3>4. CASE c = e
      <4>1. RunStarted(health[c]) \in HealthRecord
        BY <3>1, HealthFacts
      <4>2. /\ health'[c].runs = health[c].runs + 1
            /\ health'[c].successes = health[c].successes
            /\ health'[c].failures = health[c].failures + 1
            /\ health'[c].streak = health[c].streak + 1
        BY <3>1, <3>3, <3>4, <4>1, RecordFields
      <4> QED  BY <1>1, <3>1, <3>2, <4>2, RecordFields
    <3>5. CASE c # e
      BY <1>1, <3>2, <3>3, <3>5
    <3> QED  BY <3>4, <3>5
  <2> QED  BY <2>1, <2>2
<1> QED  BY <1>1, <1>2 DEF RunsAccounted, ForceIsolation

(* Who waits after a hand-over: everybody but the task itself, since those    *)
(* that are woken wait until they resume.                                     *)
LEMMA HandOverWaiting ==
    ASSUME LockInv, NEW t \in Tasks, NEW p \in {"idle", "running"}, NEW q \in Seq(Tasks),
           NEW v \in Nat, NEW n \in Nat, LineIs(q, t), HandOver(t, p, q, v, n)
    PROVE  Waiting' = Waiting \ {t}
<1>1. /\ pc'[t] = p
      /\ \A s \in Tasks : s # t => pc'[s] = pc[s] \/ (pc[s] = "queued" /\ pc'[s] = "granted")
  BY HandOverLine DEF LockInv, TaskPC
<1> QED  BY <1>1 DEF Waiting

PendingAccurate == pendingGauge = Cardinality(Waiting)

LEMMA PendingLess ==
    ASSUME PendingAccurate, NEW t \in Waiting, Waiting' = Waiting \ {t},
           pendingGauge' = pendingGauge - 1
    PROVE  PendingAccurate'
  BY RunningFinite, FS_RemoveElement DEF PendingAccurate

(* What the manager's steps have to be accounted for, whichever they are. *)
Accounted == RunsAccounted /\ PendingAccurate

LEMMA EnterAccounts ==
    ASSUME LockInv, Accounted, NEW t \in Tasks, ~Owning(pc[t]), Enter(t, TargetOf[t])
    PROVE  Accounted'
<1> USE DEF Accounted
<1>0. t \notin Waiting /\ t \notin Running
  BY DEF Owning, Waiting, Running
<1>1. CASE SkipLocked(t, TargetOf[t])
  <2>1. pc' = [pc EXCEPT ![t] = "idle"] /\ UNCHANGED <<forceRun, accounts>>
    BY <1>1 DEF SkipLocked
  <2>2. Running' = Running /\ Waiting' = Waiting
    BY <2>1, <1>0 DEF LockInv, TypeOK, Running, Waiting
  <2> QED  BY <2>1, <2>2, AccountsKept DEF accounts, PendingAccurate
<1>2. CASE AdmitAtOnce(t, TargetOf[t])
  <2>1. /\ pc' = [pc EXCEPT ![t] = "running"] /\ lock[TargetOf[t]] = NoTask
        /\ StartRun(t, TargetOf[t]) /\ pendingGauge' = pendingGauge
    BY <1>2 DEF AdmitAtOnce
  <2>2. Running' = Running \cup {t} /\ Waiting' = Waiting
    BY <2>1, <1>0 DEF LockInv, TypeOK, Running, Waiting
  <2> QED  BY <1>0, <2>1, <2>2, NobodyElseRuns, AccountsStart DEF PendingAccurate
<1>3. CASE Enqueue(t, TargetOf[t])
  <2>1. /\ pc' = [pc EXCEPT ![t] = "queued"] /\ pendingGauge' = pendingGauge + 1
        /\ UNCHANGED <<forceRun, health, succeeded, activeGauge, parallelActive>>
    BY <1>3 DEF Enqueue
  <2>2. Running' = Running /\ Waiting' = Waiting \cup {t}
    BY <2>1, <1>0 DEF LockInv, TypeOK, Running, Waiting
  <2>3. PendingAccurate'
    BY <1>0, <2>1, <2>2, RunningFinite, FS_AddElement DEF PendingAccurate
  <2> QED  BY <2>1, <2>2, <2>3, AccountsKept
<1> QED  BY <1>1, <1>2, <1>3 DEF Enter

LEMMA LeaveAccounts ==
    ASSUME LockInv, Accounted, NEW t \in Tasks, LeaveLine(t),
           health' = health \/ PreStartFailure(TargetOf[t])
    PROVE  Accounted'
<1> USE DEF Accounted, LockInv, ReleaseIfAdmitted
<1>1. t \in Waiting /\ t \notin Running
  BY DEF LeaveLine, Waiting, Running
<1>2. Waiting' = Waiting \ {t} /\ Running' = Running \ {t}
  <2>1. CASE pc[t] = "granted" /\ HandOver(t, "idle", waiters, value + 1, value + 1)
    <3>1. LineIs(waiters, t) /\ waiters \in Seq(Tasks) /\ value + 1 \in Nat
      BY <2>1, LineOfOther DEF TypeOK
    <3> QED  BY <2>1, <3>1, HandOverWaiting, HandOverRunning
  <2>2. ASSUME NEW i \in 1..Len(waiters), waiters[i] = t,
               HandOver(t, "idle", RemoveFuture(i), value, value)
        PROVE  Waiting' = Waiting \ {t} /\ Running' = Running \ {t}
    <3>1. LineIs(RemoveFuture(i), t) /\ RemoveFuture(i) \in Seq(Tasks) /\ value \in Nat
      BY <2>2, LineOfLeaver DEF TypeOK
    <3> QED  BY <2>2, <3>1, HandOverWaiting, HandOverRunning
  <2> QED  BY <2>1, <2>2 DEF LeaveLine, ReturnPermit
<1>3. /\ pendingGauge' = pendingGauge - 1
      /\ UNCHANGED <<forceRun, succeeded, activeGauge, parallelActive>>
  BY DEF LeaveLine
<1>4. PendingAccurate'
  BY <1>1, <1>2, <1>3, PendingLess
<1>5. Running' = Running
  BY <1>1, <1>2
<1> QED  BY <1>3, <1>4, <1>5, AccountsKept, TargetAssumption

LEMMA AccountsNext == LockInv /\ Accounted /\ [Next]_vars => Accounted'
<1> SUFFICES ASSUME LockInv, Accounted, [Next]_vars PROVE Accounted'
  OBVIOUS
<1>1. ASSUME NEW t \in Tasks, Call(t) \/ TriggerStart(t) PROVE Accounted'
  BY <1>1, EnterAccounts DEF Call, TriggerStart, Owning
<1>2. ASSUME NEW t \in Tasks, Expire(t) \/ CancelWaiting(t) PROVE Accounted'
  BY <1>2, LeaveAccounts DEF Expire, CancelWaiting
<1>3. ASSUME NEW t \in Tasks, Trigger(t) \/ CancelCreated(t) PROVE Accounted'
  <2>1. /\ pc[t] \notin {"queued", "granted", "running"}
        /\ pc' = [pc EXCEPT ![t] = "created"] \/ pc' = [pc EXCEPT ![t] = "idle"]
        /\ UNCHANGED <<forceRun, accounts>>
    BY <1>3 DEF Trigger, CancelCreated
  <2>2. Running' = Running /\ Waiting' = Waiting
    BY <2>1 DEF LockInv, TypeOK, Running, Waiting
  <2> QED  BY <2>1, <2>2, AccountsKept DEF accounts, Accounted, PendingAccurate
<1>4. ASSUME NEW t \in Tasks, Resume(t) PROVE Accounted'
  <2>1. /\ pc[t] = "granted" /\ HandOver(t, "running", waiters, value, value)
        /\ pendingGauge' = pendingGauge - 1 /\ StartRun(t, TargetOf[t])
    BY <1>4 DEF Resume, PassPermits
  <2>2. LineIs(waiters, t) /\ waiters \in Seq(Tasks) /\ value \in Nat
    BY <2>1, LineOfOther DEF LockInv, TypeOK
  <2>3. Running' = Running \cup {t} /\ t \notin Running
    BY <2>1, <2>2, HandOverRunning DEF Running
  <2>4. Waiting' = Waiting \ {t} /\ t \in Waiting
    BY <2>1, <2>2, HandOverWaiting DEF Waiting
  <2>5. lock[TargetOf[t]] = t
    BY <2>1, TargetAssumption DEF LockInv, LockDiscipline
  <2> QED  BY <2>1, <2>3, <2>4, <2>5, NobodyElseRuns, AccountsStart, PendingLess DEF Accounted
<1>5. ASSUME NEW t \in Tasks, NEW ok \in BOOLEAN, Finish(t, ok) PROVE Accounted'
  <2>1. /\ pc[t] = "running" /\ HandOver(t, "idle", waiters, value + 1, 1)
        /\ pendingGauge' = pendingGauge
    BY <1>5 DEF Finish, Release
  <2>2. LineIs(waiters, t) /\ waiters \in Seq(Tasks) /\ value + 1 \in Nat
    BY <2>1, LineOfOther DEF LockInv, TypeOK
  <2>3. Running' = Running \ {t} /\ t \in Running
    BY <2>1, <2>2, HandOverRunning DEF Running
  <2>4. Waiting' = Waiting
    BY <2>1, <2>2, HandOverWaiting DEF Waiting
  <2> QED  BY <1>5, <2>1, <2>3, <2>4, AccountsEnd DEF Accounted, PendingAccurate
<1>6. CASE Shutdown \/ UNCHANGED vars
  <2>1. UNCHANGED <<pc, forceRun, accounts>>
    BY <1>6 DEF Shutdown, vars
  <2>2. Running' = Running /\ Waiting' = Waiting
    BY <2>1 DEF Running, Waiting
  <2> QED  BY <2>1, <2>2, AccountsKept DEF accounts, Accounted, PendingAccurate
<1> QED
  BY <1>1, <1>2, <1>3, <1>4, <1>5, <1>6 DEF Next, Step

LEMMA RunsInit == Init => NoLostWakeup /\ Accounted
<1> SUFFICES ASSUME Init PROVE NoLostWakeup /\ Accounted
  OBVIOUS
<1>1. Running = {} /\ Waiting = {}
  BY DEF Init, Running, Waiting
<1>2. \A c \in Collectors : Executing(c) = 0
  BY <1>1 DEF Executing
<1>3. Cardinality(Running) = 0 /\ Cardinality(Waiting) = 0
  BY <1>1, FS_EmptySet
<1>4. ForceIsolation /\ HealthBalance
  BY <1>1, <1>2 DEF Init, ForceIsolation, HealthBalance, NoRuns
<1>5. NoLostWakeup
  BY DEF Init, NoLostWakeup
<1> QED  BY <1>2, <1>3, <1>4, <1>5 DEF Init, Accounted, RunsAccounted, PendingAccurate

(* Whatever races the grants, no task sleeps beside a free permit, only a     *)
(* forced run sees the force flag of its collector, and counters and gauges   *)
(* add up to the runs there were, for every assignment of tasks to            *)
(* collectors and every limit.                                                *)
THEOREM RunsSafe == Spec => []RunsInv
<1> DEFINE I == LockInv /\ NoLostWakeup /\ Accounted
<1>1. Init => I
  BY LockInit, RunsInit
<1>2. I /\ [Next]_vars => I'
  BY LockNext, NextTypeOK, WakesNext, AccountsNext DEF LockInv
<1>3. I => RunsInv
  BY DEF LockInv, Accounted, RunsAccounted, PendingAccurate, RunsInv, AccountsBalance, GaugesAccurate
<1> QED  BY <1>1, <1>2, <1>3, PTL DEF Spec

=============================================================================
