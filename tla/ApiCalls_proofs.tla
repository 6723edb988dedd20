--------------------------- MODULE ApiCalls_proofs ---------------------------
(***************************************************************************)
(* Machine-checked proofs about ApiCalls, for any number of fetches,       *)
(* threads, calls and retries and any deadline.                            *)
(***************************************************************************)
EXTENDS ApiCalls, BasicLemmas

(* Who is in a line, and that nobody is in it twice. *)
In(q, f) == \E i \in 1..Len(q) : q[i] = f
Once(q) == \A i, j \in 1..Len(q) : q[i] = q[j] => i = j

LEMMA Joining ==
    ASSUME NEW S, NEW q \in Seq(S), NEW f \in S
    PROVE  /\ Append(q, f) \in Seq(S)
           /\ \A g : In(Append(q, f), g) <=> In(q, g) \/ g = f
           /\ Once(q) /\ ~In(q, f) => Once(Append(q, f))
<1>1. /\ Append(q, f) \in Seq(S) /\ Len(Append(q, f)) = Len(q) + 1 /\ Len(q) \in Nat
      /\ \A i \in 1..Len(q) : Append(q, f)[i] = q[i]
      /\ Append(q, f)[Len(q) + 1] = f
  OBVIOUS
<1>2. \A i \in 1..(Len(q) + 1) : i \in 1..Len(q) \/ i = Len(q) + 1
  BY <1>1
<1>3. \A i \in 1..Len(q) : i \in 1..(Len(q) + 1)
  BY <1>1
<1>4. Len(q) + 1 \in 1..(Len(q) + 1)
  BY <1>1
<1> DEFINE r == Append(q, f)
           n == Len(q)
<1>5. /\ Len(r) = n + 1 /\ \A i \in 1..n : r[i] = q[i]
      /\ r[n + 1] = f
  BY <1>1
<1> HIDE DEF r, n
<1>6. ASSUME NEW g PROVE In(r, g) <=> In(q, g) \/ g = f
  BY <1>2, <1>3, <1>4, <1>5 DEF In, n
<1>7. ASSUME Once(q), ~In(q, f) PROVE Once(r)
  BY <1>2, <1>5, <1>7 DEF Once, In, n
<1> QED  BY <1>1, <1>6, <1>7 DEF r

LEMMA FirstLeaves ==
    ASSUME NEW S, NEW q \in Seq(S), q # <<>>, Once(q)
    PROVE  /\ Tail(q) \in Seq(S) /\ Once(Tail(q))
           /\ Head(q) \in S /\ In(q, Head(q))
           /\ \A g : In(Tail(q), g) <=> In(q, g) /\ g # Head(q)
<1>1. /\ Tail(q) \in Seq(S) /\ Len(Tail(q)) = Len(q) - 1 /\ Len(q) \in Nat /\ Len(q) > 0
      /\ \A i \in 1..(Len(q) - 1) : Tail(q)[i] = q[i + 1]
      /\ Head(q) = q[1] /\ q[1] \in S
  OBVIOUS
<1> DEFINE r == Tail(q)
           h == Head(q)
<1>2. Len(r) = Len(q) - 1 /\ h = q[1] /\ \A i \in 1..(Len(q) - 1) : r[i] = q[i + 1]
  BY <1>1
<1> HIDE DEF r, h
<1>3. \A i \in 1..(Len(q) - 1) : i + 1 \in 1..Len(q) /\ i + 1 # 1
  BY <1>1
<1>4. Once(r)
  BY <1>1, <1>2, <1>3 DEF Once
<1>5. In(q, h)
  BY <1>1, <1>2 DEF In
<1>6. ASSUME NEW g PROVE In(r, g) <=> In(q, g) /\ g # h
  <2>1. ASSUME In(r, g) PROVE In(q, g) /\ g # h
    <3>1. PICK i \in 1..(Len(q) - 1) : q[i + 1] = g
      BY <1>2, <2>1 DEF In
    <3>2. i + 1 \in 1..Len(q) /\ i + 1 # 1 /\ 1 \in 1..Len(q)
      BY <1>1, <1>3
    <3> QED  BY <1>2, <3>1, <3>2 DEF In, Once
  <2>2. ASSUME In(q, g), g # h PROVE In(r, g)
    <3>1. PICK i \in 1..Len(q) : q[i] = g
      BY <2>2 DEF In
    <3>2. i # 1
      BY <1>2, <2>2, <3>1
    <3>3. i - 1 \in 1..(Len(q) - 1) /\ r[i - 1] = q[(i - 1) + 1] /\ (i - 1) + 1 = i
      BY <1>1, <1>2, <3>2
    <3> QED  BY <1>2, <3>1, <3>3 DEF In
  <2> QED  BY <2>1, <2>2
<1> QED  BY <1>1, <1>4, <1>5, <1>6 DEF r, h

LEMMA Leaving ==
    ASSUME NEW S, NEW q \in Seq(S), NEW f, Once(q)
    PROVE  /\ RemoveFirst(q, f) \in Seq(S) /\ Once(RemoveFirst(q, f))
           /\ \A g : In(RemoveFirst(q, f), g) <=> In(q, g) /\ g # f
<1>1. CASE ~In(q, f)
  <2>1. RemoveFirst(q, f) = q
    BY <1>1 DEF In, RemoveFirst
  <2> QED  BY <1>1, <2>1
<1>2. CASE In(q, f)
  <2> DEFINE At == {i \in 1..Len(q) : q[i] = f}
             k == Min(At)
             r == RemoveAt(q, k)
  <2>1. RemoveFirst(q, f) = r
    BY <1>2 DEF In, RemoveFirst, SelectInSeq
  <2>2. k \in 1..Len(q) /\ q[k] = f
    <3>1. At \in SUBSET Int /\ At # {} /\ IsFiniteSet(At)
      <4>1. Len(q) \in Int
        OBVIOUS
      <4>2. IsFiniteSet(1..Len(q)) /\ At \subseteq 1..Len(q)
        BY <4>1, FS_Interval
      <4> QED  BY <1>2, <4>2, FS_Subset DEF In
    <3>2. k \in At
      <4> HIDE DEF At
      <4> QED  BY <3>1, FiniteMin
    <3> QED  BY <3>2
  <2> HIDE DEF k, At
  <2>3. /\ r \in Seq(S) /\ Len(r) = Len(q) - 1 /\ Len(q) \in Nat
        /\ \A j \in 1..(Len(q) - 1) : r[j] = IF j < k THEN q[j] ELSE q[j + 1]
    BY <2>2, RemoveAtFacts
  <2> DEFINE from == [j \in 1..(Len(q) - 1) |-> IF j < k THEN j ELSE j + 1]
  <2>4. /\ \A j \in 1..(Len(q) - 1) : from[j] \in 1..Len(q) /\ from[j] # k /\ r[j] = q[from[j]]
        /\ \A i, j \in 1..(Len(q) - 1) : from[i] = from[j] => i = j
        /\ \A i \in 1..Len(q) : i # k => \E j \in 1..(Len(q) - 1) : from[j] = i
    <3>1. /\ \A j \in 1..(Len(q) - 1) : from[j] \in 1..Len(q) /\ from[j] # k /\ r[j] = q[from[j]]
          /\ \A i, j \in 1..(Len(q) - 1) : from[i] = from[j] => i = j
      BY <2>2, <2>3
    <3>2. ASSUME NEW i \in 1..Len(q), i # k PROVE \E j \in 1..(Len(q) - 1) : from[j] = i
      <4>1. CASE i < k
        <5>1. i \in 1..(Len(q) - 1) /\ from[i] = i
          BY <2>2, <4>1
        <5> QED  BY <5>1
      <4>2. CASE ~(i < k)
        <5>1. i - 1 \in 1..(Len(q) - 1) /\ ~(i - 1 < k) /\ (i - 1) + 1 = i
          BY <2>2, <2>3, <3>2, <4>2
        <5>2. from[i - 1] = i
          BY <5>1
        <5> QED  BY <5>1, <5>2
      <4> QED  BY <4>1, <4>2
    <3> QED  BY <3>1, <3>2
  <2> DEFINE D == 1..(Len(q) - 1)
  <2>5. 1..Len(r) = D
    BY <2>3
  <2> HIDE DEF from, r, D
  <2>6. Once(r)
    <3>1. ASSUME NEW i \in D, NEW j \in D, r[i] = r[j] PROVE i = j
      <4>1. from[i] \in 1..Len(q) /\ from[j] \in 1..Len(q) /\ q[from[i]] = q[from[j]]
        BY <2>4, <3>1 DEF D
      <4>2. from[i] = from[j]
        BY <4>1 DEF Once
      <4> QED  BY <2>4, <4>2 DEF D
    <3> QED  BY <2>5, <3>1 DEF Once
  <2>7. ASSUME NEW g PROVE In(r, g) <=> In(q, g) /\ g # f
    <3>1. ASSUME In(r, g) PROVE In(q, g) /\ g # f
      <4>1. PICK j \in D : q[from[j]] = g
        BY <2>4, <2>5, <3>1 DEF In, D
      <4>2. from[j] \in 1..Len(q) /\ from[j] # k
        BY <2>4 DEF D
      <4> QED  BY <2>2, <4>1, <4>2 DEF In, Once
    <3>2. ASSUME In(q, g), g # f PROVE In(r, g)
      <4>1. PICK i \in 1..Len(q) : q[i] = g
        BY <3>2 DEF In
      <4>2. PICK j \in D : from[j] = i
        BY <2>2, <2>4, <3>2, <4>1 DEF D
      <4>3. r[j] = g
        BY <2>4, <4>1, <4>2 DEF D
      <4> QED  BY <2>5, <4>3 DEF In
    <3> QED  BY <3>1, <3>2
  <2> QED  BY <2>1, <2>3, <2>6, <2>7
<1> QED  BY <1>1, <1>2

-----------------------------------------------------------------------------
(* What is known of a fetch: where its SDK call is, what of it is metered,    *)
(* and what its attempts may come to.                                         *)
OnThread(f) == \E w \in Workers : thread[w] = f

Quota(n) == n * (1 + MaxRetries)

Placed(f) ==
    /\ In(line, f) => ~OnThread(f)
    /\ In(line, f) \/ OnThread(f) => answer[f] = NoAnswer
    /\ pc[f] = "waiting" <=> In(line, f) \/ OnThread(f) \/ answer[f] # NoAnswer

Spent(f) ==
    /\ sent[f] <= Quota(call[f])
    /\ Active(f) =>
          /\ metered[f] + Quota(1) <= Quota(call[f]) + attempt[f]
          /\ sent[f] = metered[f] + (IF OnThread(f) \/ answer[f] # NoAnswer THEN 1 ELSE 0)

Distinct ==
    /\ Once(line)
    /\ \A v, w \in Workers : thread[v] = thread[w] /\ thread[v] \in Fetches => v = w

IInv ==
    /\ TypeOK
    /\ Distinct
    /\ \A f \in Fetches : Placed(f) /\ Spent(f) /\ age[f] <= Deadline

LEMMA QuotaFacts ==
    /\ Quota(1) = 1 + MaxRetries /\ MaxRetries \in Nat
    /\ \A n \in Nat : Quota(n) \in Nat /\ Quota(n + 1) = Quota(n) + Quota(1)
<1> DEFINE k == 1 + MaxRetries
<1>1. k \in Nat
  BY NumbersAssumption
<1> HIDE DEF k
<1>2. \A n \in Nat : n * k \in Nat /\ (n + 1) * k = n * k + k /\ 1 * k = k
  BY <1>1
<1> QED  BY <1>2, NumbersAssumption DEF Quota, k

(* What a step does not touch of a fetch stays true of it.                    *)
LEMMA Untouched ==
    ASSUME NEW f \in Fetches, Placed(f), Spent(f),
           pc'[f] = pc[f], call'[f] = call[f], attempt'[f] = attempt[f],
           answer'[f] = answer[f], sent'[f] = sent[f], metered'[f] = metered[f],
           In(line', f) <=> In(line, f), OnThread(f)' <=> OnThread(f)
    PROVE  Placed(f)' /\ Spent(f)'
  BY DEF Placed, Spent, Active

-----------------------------------------------------------------------------
LEMMA Begins == Init => IInv
<1> SUFFICES ASSUME Init PROVE IInv
  OBVIOUS
<1>1. /\ Calls \in Nat \ {0} /\ MaxRetries \in Nat /\ DecoratorRetries \in Nat
      /\ Deadline \in Nat \ {0} /\ MaxPause \in Nat \ {0} /\ AgeCap = Deadline + 1
      /\ Free \notin Fetches /\ Orphan \notin Fetches
  BY NumbersAssumption, FetchesAssumption DEF AgeCap
<1>2. TypeOK
  BY <1>1 DEF Init, TypeOK
<1>3. Distinct
  BY <1>1 DEF Init, Distinct, Once
<1>4. ASSUME NEW f \in Fetches PROVE Placed(f) /\ Spent(f) /\ age[f] <= Deadline
  <2>1. ~In(line, f) /\ ~OnThread(f) /\ answer[f] = NoAnswer /\ pc[f] = "idle"
        /\ sent[f] = 0 /\ call[f] = 1 /\ age[f] = 0
    BY <1>1 DEF Init, In, OnThread
  <2> QED  BY <1>1, <2>1, QuotaFacts DEF Placed, Spent, Active
<1> QED  BY <1>2, <1>3, <1>4 DEF IInv

-----------------------------------------------------------------------------
Facts ==
    /\ Calls \in Nat \ {0} /\ MaxRetries \in Nat /\ DecoratorRetries \in Nat
    /\ Deadline \in Nat \ {0} /\ MaxPause \in Nat \ {0} /\ AgeCap = Deadline + 1
    /\ Free \notin Fetches /\ Orphan \notin Fetches /\ Free # Orphan
    /\ NoAnswer \notin Answers

LEMMA FactsHold == Facts
  BY NumbersAssumption, FetchesAssumption
     DEF Facts, AgeCap, Free, Orphan, NoAnswer, Answers

(* The types, by what goes together.                                          *)
ProgressTyped ==
    /\ pc \in [Fetches -> {"idle", "pacing", "waiting", "backoff"}]
    /\ call \in [Fetches -> 1..Calls] /\ attempt \in [Fetches -> 0..MaxRetries]
    /\ retry \in [Fetches -> 0..DecoratorRetries]
    /\ pause \in [Fetches -> 0..MaxPause]

OutcomeTyped ==
    outcome \in [Fetches -> {"none", "value", "failed", "rate_limited", "timeout", "cancelled"}]

AgesTyped == age \in [Fetches -> 0..AgeCap] /\ callAge \in [Fetches -> 0..AgeCap]

PoolTyped ==
    /\ answer \in [Fetches -> Answers \cup {NoAnswer}]
    /\ line \in Seq(Fetches) /\ thread \in [Workers -> Fetches \cup {Free, Orphan}]

CountsTyped ==
    /\ sent \in [Fetches -> Nat] /\ metered \in [Fetches -> Nat] /\ unheard \subseteq Fetches

LEMMA TypesAre ==
    /\ TypeOK <=> ProgressTyped /\ OutcomeTyped /\ AgesTyped /\ PoolTyped /\ CountsTyped
    /\ TypeOK' <=> ProgressTyped' /\ OutcomeTyped' /\ AgesTyped' /\ PoolTyped' /\ CountsTyped'
  BY DEF TypeOK, ProgressTyped, OutcomeTyped, AgesTyped, PoolTyped, CountsTyped

LEMMA TypeStep ==
    ASSUME IInv, [Next]_vars
    PROVE  TypeOK'
<1> USE FactsHold DEF Facts
<1>1. /\ ProgressTyped /\ OutcomeTyped /\ AgesTyped /\ PoolTyped /\ CountsTyped
      /\ Distinct /\ line \in Seq(Fetches)
  BY TypesAre DEF IInv, PoolTyped
<1>2. /\ (UNCHANGED <<pc, call, attempt, retry, pause>> => ProgressTyped')
      /\ (UNCHANGED outcome => OutcomeTyped')
      /\ (UNCHANGED <<age, callAge>> => AgesTyped')
      /\ (UNCHANGED <<answer, line, thread>> => PoolTyped')
      /\ (UNCHANGED <<sent, metered, unheard>> => CountsTyped')
  BY <1>1 DEF ProgressTyped, OutcomeTyped, AgesTyped, PoolTyped, CountsTyped
<1>3. ASSUME NEW f \in Fetches, Record(f), line' = line, thread' = thread PROVE PoolTyped'
  BY <1>1, <1>3 DEF Record, PoolTyped
<1>4. ASSUME NEW f \in Fetches, Record(f), sent' = sent, unheard' \subseteq Fetches
      PROVE  CountsTyped'
  BY <1>1, <1>4 DEF Record, CountsTyped
<1>5. ASSUME NEW f \in Fetches,
             NEW how \in {"value", "failed", "rate_limited", "timeout", "cancelled"},
             End(f, how), UNCHANGED <<call, attempt, retry, pause>>
      PROVE  ProgressTyped' /\ OutcomeTyped'
  BY <1>1, <1>5 DEF End, ProgressTyped, OutcomeTyped
<1>6. CASE Tick
  <2>1. \A f \in Fetches : Active(f) => age[f] + 1 \in 0..AgeCap /\ callAge[f] + 1 \in 0..AgeCap
    BY <1>1, <1>6 DEF Tick, Expired, AgesTyped
  <2>2. \A f \in Fetches : /\ age'[f] \in 0..AgeCap /\ callAge'[f] \in 0..AgeCap
    BY <1>1, <1>6, <2>1 DEF Tick, AgesTyped, Passed
  <2>3. AgesTyped'
    BY <1>6, <2>2 DEF Tick, AgesTyped
  <2>4. ProgressTyped'
    BY <1>1, <1>6 DEF Tick, ProgressTyped
  <2> QED  BY <1>1, <1>2, <1>6, <2>3, <2>4, TypesAre DEF Tick, pool, counts
<1>7. ASSUME NEW f \in Fetches, Start(f) PROVE TypeOK'
  <2>1. ProgressTyped'
    BY <1>1, <1>7 DEF Start, ProgressTyped
  <2>2. AgesTyped' /\ OutcomeTyped'
    BY <1>1, <1>7 DEF Start, AgesTyped, OutcomeTyped
  <2>3. CountsTyped'
    BY <1>1, <1>7 DEF Start, CountsTyped
  <2> QED  BY <1>2, <1>7, <2>1, <2>2, <2>3, TypesAre DEF Start, pool
<1>8. ASSUME NEW f \in Fetches, Submit(f) PROVE TypeOK'
  <2>1. PoolTyped'
    BY <1>1, <1>8, Joining DEF Submit, PoolTyped
  <2>2. ProgressTyped'
    BY <1>1, <1>8 DEF Submit, ProgressTyped, progress
  <2> QED  BY <1>2, <1>8, <2>1, <2>2, TypesAre DEF Submit, progress, counts
<1>9. ASSUME NEW f \in Fetches, Succeeds(f) PROVE TypeOK'
  <2>1. PoolTyped' /\ CountsTyped'
    BY <1>1, <1>3, <1>4, <1>9 DEF Succeeds, pool, CountsTyped
  <2>2. CASE call[f] < Calls
    <3>1. ProgressTyped'
      <4>1. call[f] + 1 \in 1..Calls /\ call \in [Fetches -> 1..Calls]
        BY <1>1, <2>2 DEF ProgressTyped
      <4>2. call' \in [Fetches -> 1..Calls]
        BY <1>9, <2>2, <4>1 DEF Succeeds
      <4>3. /\ attempt' = [attempt EXCEPT ![f] = 0] /\ pc' = [pc EXCEPT ![f] = "pacing"]
            /\ retry' = retry /\ pause' = pause
        BY <1>9, <2>2 DEF Succeeds
      <4>4. attempt' \in [Fetches -> 0..MaxRetries]
        BY <1>1, <4>3 DEF ProgressTyped
      <4>5. pc' \in [Fetches -> {"idle", "pacing", "waiting", "backoff"}]
        BY <1>1, <4>3 DEF ProgressTyped
      <4> QED  BY <1>1, <4>2, <4>3, <4>4, <4>5 DEF ProgressTyped
    <3>2. AgesTyped' /\ OutcomeTyped'
      BY <1>1, <1>2, <1>9, <2>2 DEF Succeeds, AgesTyped
    <3> QED  BY <2>1, <3>1, <3>2, TypesAre
  <2>3. CASE ~(call[f] < Calls)
    <3>1. ProgressTyped' /\ OutcomeTyped'
      BY <1>5, <1>9, <2>3 DEF Succeeds
    <3>2. AgesTyped'
      BY <1>2, <1>9, <2>3 DEF Succeeds
    <3> QED  BY <2>1, <3>1, <3>2, TypesAre
  <2> QED  BY <2>2, <2>3
<1>10. ASSUME NEW f \in Fetches, Fails(f) PROVE TypeOK'
  <2>1. PoolTyped' /\ CountsTyped'
    BY <1>1, <1>3, <1>4, <1>10 DEF Fails, pool, CountsTyped
  <2>2. ProgressTyped' /\ OutcomeTyped' /\ AgesTyped'
    BY <1>2, <1>5, <1>10 DEF Fails, progress
  <2> QED  BY <2>1, <2>2, TypesAre
<1>11. ASSUME NEW f \in Fetches, BacksOff(f) PROVE TypeOK'
  <2>1. PoolTyped' /\ CountsTyped'
    BY <1>1, <1>3, <1>4, <1>11 DEF BacksOff, pool, CountsTyped
  <2>2. ProgressTyped'
    BY <1>1, <1>11 DEF BacksOff, ProgressTyped
  <2> QED  BY <1>2, <1>11, <2>1, <2>2, TypesAre DEF BacksOff
<1>12. ASSUME NEW f \in Fetches, Exhausts(f) PROVE TypeOK'
  <2>1. /\ Record(f) /\ End(f, "rate_limited") /\ unheard' = unheard \cup {f}
        /\ UNCHANGED <<call, attempt, retry, callAge, pause, age, line, thread, sent>>
    BY <1>12 DEF Exhausts, Marked, progress, pool
  <2>2. PoolTyped' /\ CountsTyped'
    BY <1>1, <1>3, <1>4, <2>1 DEF CountsTyped
  <2>3. ProgressTyped' /\ OutcomeTyped' /\ AgesTyped'
    BY <1>2, <1>5, <2>1
  <2> QED  BY <2>2, <2>3, TypesAre
<1>13. ASSUME NEW f \in Fetches, WakeUp(f) PROVE TypeOK'
  <2>1. ProgressTyped'
    BY <1>1, <1>13 DEF WakeUp, ProgressTyped, progress
  <2> QED  BY <1>2, <1>13, <2>1, TypesAre DEF WakeUp, progress, pool, counts
<1>14. ASSUME NEW f \in Fetches, NEW how \in {"timeout", "cancelled"}, Cut(f), End(f, how),
              answer' = [answer EXCEPT ![f] = NoAnswer], UNCHANGED <<progress, age, counts>>
       PROVE  TypeOK'
  <2>1. line' \in Seq(Fetches)
    BY <1>1, <1>14, Leaving DEF Cut, Distinct
  <2>2. PoolTyped'
    BY <1>1, <1>14, <2>1 DEF Cut, PoolTyped
  <2>3. ProgressTyped' /\ OutcomeTyped' /\ AgesTyped' /\ CountsTyped'
    BY <1>2, <1>5, <1>14 DEF progress, counts
  <2> QED  BY <2>2, <2>3, TypesAre
<1>15. ASSUME NEW f \in Fetches, TimesOut(f) \/ Cancelled(f) PROVE TypeOK'
  BY <1>14, <1>15 DEF TimesOut, Cancelled
<1>16. ASSUME NEW w \in Workers, PickUp(w) PROVE TypeOK'
  <2>1. Tail(line) \in Seq(Fetches) /\ Head(line) \in Fetches
    BY <1>1, <1>16, FirstLeaves DEF PickUp, Distinct
  <2>2. PoolTyped'
    BY <1>1, <1>16, <2>1 DEF PickUp, PoolTyped
  <2>3. CountsTyped'
    BY <1>1, <1>16, <2>1 DEF PickUp, CountsTyped
  <2> QED  BY <1>2, <1>16, <2>2, <2>3, TypesAre DEF PickUp, progress
<1>17. ASSUME NEW w \in Workers, Return(w) \/ ReturnUnheard(w) PROVE TypeOK'
  <2>1. PoolTyped'
    BY <1>1, <1>17 DEF Return, ReturnUnheard, PoolTyped
  <2> QED  BY <1>2, <1>17, <2>1, TypesAre DEF Return, ReturnUnheard, progress, counts
<1>18. CASE UNCHANGED vars
  BY <1>2, <1>18, TypesAre DEF vars, progress, counts, pool
<1> QED  BY <1>6, <1>7, <1>8, <1>9, <1>10, <1>11, <1>12, <1>13, <1>15, <1>16, <1>17, <1>18
         DEF Next, Resume

(* The line and the threads: nobody is anywhere twice.                        *)
LEMMA DistinctStep ==
    ASSUME IInv, [Next]_vars
    PROVE  Distinct'
<1> USE FactsHold DEF Facts
<1>1. TypeOK /\ Distinct /\ \A f \in Fetches : Placed(f)
  BY DEF IInv
<1>2. line' = line /\ thread' = thread => Distinct'
  BY <1>1 DEF Distinct
<1>3. ASSUME NEW f \in Fetches, Submit(f) PROVE Distinct'
  <2>1. ~In(line, f) /\ line \in Seq(Fetches)
    BY <1>1, <1>3 DEF Submit, Placed, TypeOK
  <2> QED  BY <1>1, <1>3, <2>1, Joining DEF Submit, Distinct
<1>4. ASSUME NEW f \in Fetches, TimesOut(f) \/ Cancelled(f) PROVE Distinct'
  <2>1. Once(line')
    BY <1>1, <1>4, Leaving DEF TimesOut, Cancelled, Cut, Distinct, TypeOK
  <2>2. \A v, w \in Workers : thread'[v] = thread'[w] /\ thread'[v] \in Fetches => v = w
    BY <1>1, <1>4 DEF TimesOut, Cancelled, Cut, Distinct
  <2> QED  BY <2>1, <2>2 DEF Distinct
<1>5. ASSUME NEW w \in Workers, PickUp(w) PROVE Distinct'
  <2>1. Once(line') /\ In(line, Head(line)) /\ Head(line) \in Fetches
    BY <1>1, <1>5, FirstLeaves DEF PickUp, TypeOK, Distinct
  <2>2. \A v \in Workers : thread[v] # Head(line)
    BY <1>1, <2>1 DEF Placed, OnThread
  <2>3. \A u, v \in Workers : thread'[u] = thread'[v] /\ thread'[u] \in Fetches => u = v
    BY <1>1, <1>5, <2>2 DEF PickUp, Distinct, TypeOK
  <2> QED  BY <2>1, <2>3 DEF Distinct
<1>6. ASSUME NEW w \in Workers, Return(w) \/ ReturnUnheard(w) PROVE Distinct'
  <2>1. thread' = [thread EXCEPT ![w] = Free] /\ line' = line
    BY <1>6 DEF Return, ReturnUnheard
  <2>2. thread \in [Workers -> Fetches \cup {Free, Orphan}]
    BY <1>1 DEF TypeOK
  <2> QED  BY <1>1, <2>1, <2>2 DEF Distinct
<1>7. ASSUME NEW f \in Fetches, Start(f) \/ Resume(f) \/ WakeUp(f) PROVE Distinct'
  BY <1>2, <1>7 DEF Start, Resume, Succeeds, Fails, BacksOff, Exhausts, WakeUp, pool
<1>8. CASE Tick \/ UNCHANGED vars
  BY <1>2, <1>8 DEF Tick, vars, pool
<1> QED  BY <1>3, <1>4, <1>5, <1>6, <1>7, <1>8 DEF Next

(* Where the SDK calls are, and what has become of them.                      *)
LEMMA FetchStep ==
    ASSUME IInv, [Next]_vars, NEW g \in Fetches
    PROVE  Placed(g)' /\ Spent(g)'
<1> USE FactsHold DEF Facts
<1>1. Distinct /\ Placed(g) /\ Spent(g)
  BY DEF IInv
<1>2. /\ pc \in [Fetches -> {"idle", "pacing", "waiting", "backoff"}]
      /\ call \in [Fetches -> 1..Calls] /\ attempt \in [Fetches -> 0..MaxRetries]
      /\ answer \in [Fetches -> Answers \cup {NoAnswer}]
      /\ line \in Seq(Fetches) /\ thread \in [Workers -> Fetches \cup {Free, Orphan}]
      /\ sent \in [Fetches -> Nat] /\ metered \in [Fetches -> Nat]
  BY DEF IInv, TypeOK
<1>3. (line' = line => (In(line', g) <=> In(line, g)))
      /\ (thread' = thread => (OnThread(g)' <=> OnThread(g)))
  BY DEF OnThread
<1>4. /\ Quota(1) = 1 + MaxRetries /\ Quota(call[g]) \in Nat
      /\ Quota(call[g] + 1) = Quota(call[g]) + Quota(1)
      /\ Quota(1) <= Quota(call[g])
  <2>1. call[g] \in Nat /\ call[g] - 1 \in Nat /\ (call[g] - 1) + 1 = call[g]
    BY <1>2
  <2>2. Quota(call[g]) = Quota(call[g] - 1) + Quota(1) /\ Quota(call[g] - 1) \in Nat
    BY <2>1, QuotaFacts
  <2>3. Quota(call[g] + 1) = Quota(call[g]) + Quota(1) /\ Quota(call[g]) \in Nat
    BY <2>1, QuotaFacts
  <2>4. Quota(1) \in Nat /\ Quota(1) = 1 + MaxRetries
    BY QuotaFacts
  <2>5. Quota(1) <= Quota(call[g])
    BY <2>2, <2>4
  <2> QED  BY <2>3, <2>4, <2>5
<1>5. ASSUME pc'[g] = pc[g], call'[g] = call[g], attempt'[g] = attempt[g],
             answer'[g] = answer[g], sent'[g] = sent[g], metered'[g] = metered[g],
             line' = line, thread' = thread
      PROVE  Placed(g)' /\ Spent(g)'
  BY <1>1, <1>3, <1>5, Untouched
<1>6. CASE Tick \/ UNCHANGED vars
  BY <1>5, <1>6 DEF Tick, vars, progress, pool, counts
<1>7. ASSUME NEW f \in Fetches, Start(f) PROVE Placed(g)' /\ Spent(g)'
  <2>1. CASE f = g
    <3>1. /\ pc[g] = "idle" /\ pc'[g] = "pacing" /\ call'[g] = 1 /\ attempt'[g] = 0
          /\ sent'[g] = 0 /\ metered'[g] = 0 /\ answer'[g] = answer[g]
          /\ line' = line /\ thread' = thread
      BY <1>2, <1>7, <2>1 DEF Start, Active, pool
    <3>2. Placed(g)' /\ ~OnThread(g)' /\ answer'[g] = NoAnswer
      BY <1>1, <1>3, <3>1 DEF Placed
    <3> QED  BY <1>4, <3>1, <3>2 DEF Spent
  <2>2. CASE f # g
    BY <1>2, <1>5, <1>7, <2>2 DEF Start, pool
  <2> QED  BY <2>1, <2>2
<1>8. ASSUME NEW f \in Fetches, Submit(f) PROVE Placed(g)' /\ Spent(g)'
  <2>1. /\ pc[f] = "pacing" /\ pc' = [pc EXCEPT ![f] = "waiting"] /\ line' = Append(line, f)
        /\ UNCHANGED <<call, attempt, answer, thread, sent, metered>>
    BY <1>8 DEF Submit, progress, counts
  <2>2. (In(line', g) <=> In(line, g) \/ g = f) /\ (OnThread(g)' <=> OnThread(g))
    BY <1>2, <1>3, <2>1, Joining
  <2>3. CASE f = g
    <3>1. pc[g] = "pacing" /\ pc'[g] = "waiting"
      BY <1>2, <2>1, <2>3
    <3> QED  BY <1>1, <2>1, <2>2, <2>3, <3>1 DEF Placed, Spent, Active
  <2>4. CASE f # g
    BY <1>1, <1>2, <2>1, <2>2, <2>4, Untouched
  <2> QED  BY <2>3, <2>4
<1>9. ASSUME NEW f \in Fetches, Record(f), answer[f] # NoAnswer, sent' = sent,
             line' = line, thread' = thread,
             \/ pc'[f] = "idle" /\ call'[f] = call[f]
             \/ pc'[f] = "pacing" /\ call'[f] = call[f] + 1 /\ attempt'[f] = 0
             \/ pc'[f] = "backoff" /\ call'[f] = call[f] /\ attempt'[f] = attempt[f] + 1,
             f # g => pc'[g] = pc[g] /\ call'[g] = call[g] /\ attempt'[g] = attempt[g]
      PROVE  Placed(g)' /\ Spent(g)'
  <2>1. CASE f # g
    BY <1>2, <1>5, <1>9, <2>1 DEF Record
  <2>2. CASE f = g
    <3>1. /\ answer'[g] = NoAnswer /\ metered'[g] = metered[g] + 1 /\ sent'[g] = sent[g]
      BY <1>2, <1>9, <2>2 DEF Record
    <3>2. pc[g] = "waiting" /\ ~In(line, g) /\ ~OnThread(g)
      BY <1>1, <1>9, <2>2 DEF Placed
    <3>3. Placed(g)' /\ ~OnThread(g)'
      BY <1>3, <1>9, <2>2, <3>1, <3>2 DEF Placed
    <3>4. /\ sent[g] <= Quota(call[g]) /\ metered[g] + Quota(1) <= Quota(call[g]) + attempt[g]
          /\ sent[g] = metered[g] + 1
      BY <1>1, <1>9, <2>2, <3>2 DEF Spent, Active
    <3>5. sent[g] \in Nat /\ metered[g] \in Nat /\ attempt[g] \in Nat /\ attempt[g] <= MaxRetries
      BY <1>2
    <3> DEFINE n == Quota(call'[g])
    <3>6. /\ n = Quota(call[g]) \/ n = Quota(call[g]) + Quota(1)
          /\ pc'[g] # "idle" => metered[g] + 1 + Quota(1) <= n + attempt'[g]
      <4>1. CASE pc'[g] = "idle"
        BY <1>9, <2>2, <4>1
      <4>2. CASE pc'[g] = "pacing" /\ call'[g] = call[g] + 1 /\ attempt'[g] = 0
        <5>1. n = Quota(call[g]) + Quota(1)
          BY <1>4, <4>2
        <5> HIDE DEF n
        <5> QED  BY <1>4, <3>4, <3>5, <4>2, <5>1
      <4>3. CASE pc'[g] = "backoff" /\ call'[g] = call[g] /\ attempt'[g] = attempt[g] + 1
        <5>1. n = Quota(call[g])
          BY <4>3
        <5> HIDE DEF n
        <5> QED  BY <1>4, <3>4, <3>5, <4>3, <5>1
      <4> QED  BY <1>9, <2>2, <4>1, <4>2, <4>3
    <3>7. sent'[g] <= n
      <4> HIDE DEF n
      <4> QED  BY <1>4, <3>1, <3>4, <3>5, <3>6
    <3>8. Active(g)' => metered'[g] + Quota(1) <= n + attempt'[g]
      BY <3>1, <3>6 DEF Active
    <3>9. sent'[g] = metered'[g] + 0
      BY <3>1, <3>4, <3>5
    <3> QED  BY <3>1, <3>3, <3>7, <3>8, <3>9 DEF Spent
  <2> QED  BY <2>1, <2>2
<1>10. ASSUME NEW f \in Fetches, Succeeds(f) PROVE Placed(g)' /\ Spent(g)'
  <2>1. /\ Record(f) /\ answer[f] # NoAnswer /\ sent' = sent /\ line' = line /\ thread' = thread
        /\ f # g => pc'[g] = pc[g] /\ call'[g] = call[g] /\ attempt'[g] = attempt[g]
    BY <1>2, <1>10 DEF Succeeds, pool, End, NoAnswer
  <2>2. \/ pc'[f] = "idle" /\ call'[f] = call[f]
        \/ pc'[f] = "pacing" /\ call'[f] = call[f] + 1 /\ attempt'[f] = 0
    BY <1>2, <1>10 DEF Succeeds, End
  <2> QED  BY <1>9, <2>1, <2>2
<1>11. ASSUME NEW f \in Fetches, Fails(f) PROVE Placed(g)' /\ Spent(g)'
  <2>1. /\ Record(f) /\ answer[f] # NoAnswer /\ sent' = sent /\ line' = line /\ thread' = thread
        /\ f # g => pc'[g] = pc[g] /\ call'[g] = call[g] /\ attempt'[g] = attempt[g]
        /\ pc'[f] = "idle" /\ call'[f] = call[f]
    BY <1>2, <1>11 DEF Fails, pool, progress, End, NoAnswer
  <2> QED  BY <1>9, <2>1
<1>12. ASSUME NEW f \in Fetches, BacksOff(f) PROVE Placed(g)' /\ Spent(g)'
  <2>1. /\ Record(f) /\ answer[f] # NoAnswer /\ sent' = sent /\ line' = line /\ thread' = thread
        /\ f # g => pc'[g] = pc[g] /\ call'[g] = call[g] /\ attempt'[g] = attempt[g]
        /\ pc'[f] = "backoff" /\ call'[f] = call[f] /\ attempt'[f] = attempt[f] + 1
    BY <1>2, <1>12 DEF BacksOff, pool, NoAnswer
  <2> QED  BY <1>9, <2>1
<1>13. ASSUME NEW f \in Fetches, Exhausts(f) PROVE Placed(g)' /\ Spent(g)'
  <2>1. /\ Record(f) /\ answer[f] # NoAnswer /\ sent' = sent /\ line' = line /\ thread' = thread
        /\ f # g => pc'[g] = pc[g] /\ call'[g] = call[g] /\ attempt'[g] = attempt[g]
        /\ pc'[f] = "idle" /\ call'[f] = call[f]
    BY <1>2, <1>13 DEF Exhausts, Marked, pool, progress, End, NoAnswer
  <2> QED  BY <1>9, <2>1
<1>14. ASSUME NEW f \in Fetches, WakeUp(f) PROVE Placed(g)' /\ Spent(g)'
  <2>1. CASE f = g
    <3>1. /\ pc[g] = "backoff" /\ pc'[g] = "pacing"
          /\ UNCHANGED <<call, attempt, answer, line, thread, sent, metered>>
      BY <1>2, <1>14, <2>1 DEF WakeUp, progress, pool, counts
    <3> QED  BY <1>1, <1>3, <3>1 DEF Placed, Spent, Active
  <2>2. CASE f # g
    BY <1>2, <1>5, <1>14, <2>2 DEF WakeUp, progress, pool, counts
  <2> QED  BY <2>1, <2>2
<1>15. ASSUME NEW f \in Fetches, TimesOut(f) \/ Cancelled(f) PROVE Placed(g)' /\ Spent(g)'
  <2>1. /\ Cut(f) /\ pc' = [pc EXCEPT ![f] = "idle"] /\ answer' = [answer EXCEPT ![f] = NoAnswer]
        /\ UNCHANGED <<call, attempt, sent, metered>>
    BY <1>15 DEF TimesOut, Cancelled, End, progress, counts
  <2>2. In(line', g) <=> In(line, g) /\ g # f
    BY <1>1, <1>2, <2>1, Leaving DEF Cut, Distinct
  <2>3. OnThread(g)' <=> OnThread(g) /\ g # f
    BY <1>2, <2>1 DEF Cut, OnThread
  <2>4. CASE f = g
    <3>1. pc'[g] = "idle" /\ answer'[g] = NoAnswer
      BY <1>2, <2>1, <2>4
    <3> QED  BY <1>1, <2>1, <2>2, <2>3, <2>4, <3>1 DEF Placed, Spent, Active
  <2>5. CASE f # g
    BY <1>1, <1>2, <2>1, <2>2, <2>3, <2>5, Untouched
  <2> QED  BY <2>4, <2>5
<1>16. ASSUME NEW w \in Workers, PickUp(w) PROVE Placed(g)' /\ Spent(g)'
  <2> DEFINE h == Head(line)
  <2>1. /\ h \in Fetches /\ In(line, h) /\ (In(line', g) <=> In(line, g) /\ g # h)
    BY <1>1, <1>2, <1>16, FirstLeaves DEF PickUp, Distinct
  <2>2. /\ thread[w] = Free /\ thread' = [thread EXCEPT ![w] = h]
        /\ sent' = [sent EXCEPT ![h] = @ + 1]
        /\ UNCHANGED <<pc, call, attempt, answer, metered>>
    BY <1>16 DEF PickUp, progress
  <2> HIDE DEF h
  <2>3. OnThread(g)' <=> OnThread(g) \/ g = h
    BY <1>2, <2>1, <2>2 DEF OnThread
  <2>4. CASE h = g
    <3>1. /\ sent'[g] = sent[g] + 1 /\ pc[g] = "waiting" /\ answer[g] = NoAnswer /\ ~OnThread(g)
      BY <1>1, <1>2, <2>1, <2>2, <2>4 DEF Placed
    <3>2. Placed(g)'
      BY <1>1, <2>1, <2>2, <2>3, <2>4, <3>1 DEF Placed
    <3>3. /\ metered[g] + Quota(1) <= Quota(call[g]) + attempt[g] /\ sent[g] = metered[g]
          /\ attempt[g] <= MaxRetries /\ attempt[g] \in Nat /\ sent[g] \in Nat
      BY <1>1, <1>2, <3>1 DEF Spent, Active
    <3>4. sent[g] + 1 <= Quota(call[g])
      BY <1>4, <3>3
    <3> QED  BY <2>2, <2>3, <2>4, <3>1, <3>2, <3>3, <3>4 DEF Spent, Active
  <2>5. CASE h # g
    BY <1>1, <1>2, <2>1, <2>2, <2>3, <2>5, Untouched
  <2> QED  BY <2>4, <2>5
<1>17. ASSUME NEW w \in Workers, Return(w) PROVE Placed(g)' /\ Spent(g)'
  <2> DEFINE f == thread[w]
  <2>1. /\ f \in Fetches /\ thread' = [thread EXCEPT ![w] = Free]
        /\ UNCHANGED <<pc, call, attempt, line, sent, metered>>
        /\ answer' \in [Fetches -> Answers \cup {NoAnswer}] /\ answer'[f] # NoAnswer
        /\ \A x \in Fetches \ {f} : answer'[x] = answer[x]
    BY <1>2, <1>17 DEF Return, progress, counts
  <2>2. OnThread(g)' <=> OnThread(g) /\ g # f
    BY <1>1, <1>2, <2>1 DEF OnThread, Distinct
  <2>3. CASE f = g
    <3>1. OnThread(g) /\ ~OnThread(g)'
      BY <2>2, <2>3 DEF OnThread
    <3> HIDE DEF f
    <3>2. answer[g] = NoAnswer /\ pc[g] = "waiting" /\ ~In(line, g)
      BY <1>1, <3>1 DEF Placed
    <3>3. answer'[g] # NoAnswer
      BY <2>1, <2>3
    <3> QED  BY <1>1, <1>3, <2>1, <3>1, <3>2, <3>3 DEF Placed, Spent, Active
  <2>4. CASE f # g
    BY <1>1, <1>3, <2>1, <2>2, <2>4, Untouched
  <2> QED  BY <2>3, <2>4
<1>18. ASSUME NEW w \in Workers, ReturnUnheard(w) PROVE Placed(g)' /\ Spent(g)'
  <2>1. /\ thread[w] = Orphan /\ thread' = [thread EXCEPT ![w] = Free]
        /\ UNCHANGED <<pc, call, attempt, answer, line, sent, metered>>
    BY <1>18 DEF ReturnUnheard, progress, counts
  <2>2. OnThread(g)' <=> OnThread(g)
    BY <1>2, <2>1 DEF OnThread
  <2> QED  BY <1>1, <1>3, <2>1, <2>2, Untouched
<1> QED  BY <1>6, <1>7, <1>8, <1>10, <1>11, <1>12, <1>13, <1>14, <1>15, <1>16, <1>17, <1>18
         DEF Next, Resume

(* No time passes while a deadline is due. *)
LEMMA AgeStep ==
    ASSUME IInv, [Next]_vars, NEW g \in Fetches
    PROVE  age'[g] <= Deadline
<1>1. age \in [Fetches -> 0..AgeCap] /\ age[g] <= Deadline /\ AgeCap = Deadline + 1
      /\ Deadline \in Nat
  BY FactsHold DEF IInv, TypeOK, Facts
<1>2. CASE Tick
  <2>1. Active(g) => age[g] < Deadline
    BY <1>1, <1>2 DEF Tick, Expired
  <2> QED  BY <1>1, <1>2, <2>1 DEF Tick, Passed
<1>3. ASSUME NEW f \in Fetches, Start(f) PROVE age'[g] <= Deadline
  BY <1>1, <1>3 DEF Start
<1>4. ASSUME age' = age PROVE age'[g] <= Deadline
  BY <1>1, <1>4
<1> QED  BY <1>2, <1>3, <1>4
     DEF Next, Submit, Resume, Succeeds, Fails, BacksOff, Exhausts, WakeUp, TimesOut, Cancelled,
         PickUp, Return, ReturnUnheard, vars

LEMMA Inductive == Spec => []IInv
<1>1. IInv /\ [Next]_vars => IInv'
  BY TypeStep, DistinctStep, FetchStep, AgeStep DEF IInv
<1> QED  BY <1>1, Begins, PTL DEF Spec

(* Counting the places of a call, for those who are in none or in one. *)
LEMMA Counted ==
    ASSUME NEW S, \A x, y \in S : x = y
    PROVE  Cardinality(S) = IF S = {} THEN 0 ELSE 1
<1>1. CASE S = {}
  BY <1>1, FS_EmptySet
<1>2. ASSUME NEW x \in S PROVE Cardinality(S) = 1
  <2>1. S = {x}
    OBVIOUS
  <2> QED  BY <2>1, FS_Singleton
<1> QED  BY <1>1, <1>2

LEMMA Promised == IInv => CallsInv
<1> SUFFICES ASSUME IInv PROVE CallsInv
  OBVIOUS
<1>1. TypeOK /\ Distinct /\ DeadlineKept
  BY DEF IInv, DeadlineKept
<1>2. ASSUME NEW f \in Fetches
      PROVE  /\ Cardinality(Queued(f)) = IF In(line, f) THEN 1 ELSE 0
             /\ Cardinality(Making(f)) = IF OnThread(f) THEN 1 ELSE 0
  <2>1. /\ \A i, j \in Queued(f) : i = j
        /\ \A v, w \in Making(f) : v = w
    BY <1>1 DEF Queued, Making, Distinct, Once
  <2>2. (Queued(f) = {} <=> ~In(line, f)) /\ (Making(f) = {} <=> ~OnThread(f))
    BY DEF Queued, Making, In, OnThread
  <2>3. Cardinality(Queued(f)) = IF Queued(f) = {} THEN 0 ELSE 1
    BY <2>1, Counted
  <2>4. Cardinality(Making(f)) = IF Making(f) = {} THEN 0 ELSE 1
    BY <2>1, Counted
  <2> QED  BY <2>2, <2>3, <2>4
<1>3. OneSdkCall
  <2> SUFFICES ASSUME NEW f \in Fetches
               PROVE  Cardinality(Queued(f)) + Cardinality(Making(f))
                          + (IF answer[f] = NoAnswer THEN 0 ELSE 1)
                      = IF pc[f] = "waiting" THEN 1 ELSE 0
    BY DEF OneSdkCall
  <2>1. Placed(f)
    BY DEF IInv
  <2> QED  BY <1>2, <2>1 DEF Placed
<1>4. AttemptsBounded
  BY DEF IInv, Spent, Quota, AttemptsBounded
<1>5. MeteredOnce
  <2> SUFFICES ASSUME NEW f \in Fetches, Active(f)
               PROVE  sent[f] = metered[f]
                          + Cardinality(Making(f)) + (IF answer[f] = NoAnswer THEN 0 ELSE 1)
    BY DEF MeteredOnce
  <2>1. Placed(f) /\ Spent(f) /\ metered[f] \in Nat
    BY DEF IInv, TypeOK
  <2> QED  BY <1>2, <2>1 DEF Placed, Spent
<1> QED  BY <1>1, <1>3, <1>4, <1>5 DEF CallsInv

(* However many fetches share how few threads, and wherever a deadline, the   *)
(* run's timeout or the shutdown cuts a fetch: its SDK call is in one place,  *)
(* no answer comes to a fetch that is over, the two layers together make no   *)
(* more attempts than one of them may, what is sent is metered, and no fetch  *)
(* outlasts its deadline (call, with_error_handling).                         *)
THEOREM CallsHold == Spec => []CallsInv
  BY Inductive, Promised, PTL
=============================================================================
