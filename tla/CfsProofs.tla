------------------------------- MODULE CfsProofs -------------------------------
(***************************************************************************)
(* Cfs for every set of weights, every number of tasks and sleepers and    *)
(* every width of the vruntime counter.  LagBounded speaks of the queue    *)
(* only and is not inductive: LagInv adds what the pick established, that  *)
(* nobody who waits is behind the task that runs.  AccountInv says what an *)
(* account is worth: the price, saturated, of the steps its task was       *)
(* charged for; HeavierRunsMore compares two such prices.                  *)
(***************************************************************************)
EXTENDS Cfs, QueueTheorems, FiniteSetTheorems

\* Who is queued, who runs, who exists.
QueueInv ==
  /\ Distinct(ready)
  /\ \A i \in Ids : Holds(ready, i) <=> i # run /\ state[i] \in {"Ready", "Sleeping"}
  /\ run # 0 => state[run] \in {"Running", "Ready", "Finished"}
  /\ \A i \in Ids : state[i] \in {"Running", "Finished"} => i = run
  /\ \A i \in Ids : state[i] = "Unborn" <=> i >= nextId

\* What a task carries before and after its spawn, and that nothing has run
\* before main enters its loop.
TaskInv ==
  /\ \A i \in Ids : i < nextId => weight[i] \in Weights
  /\ \A i \in Ids : i >= nextId => until[i] = 0 /\ vruntime[i] = 0 /\ runs[i] = 0
  /\ \A i \in Ids : state[i] = "Sleeping" => until[i] > 0 /\ runs[i] = 0
  /\ ~started => run = 0 /\ \A i \in Ids : vruntime[i] = 0 /\ runs[i] = 0

\* At most one napper, if main spawns at most one.
OneNapper ==
  MaxSleepers <= 1 => \A i, j \in Ids : until[i] > 0 /\ until[j] > 0 => i = j

\* The pairs whose lag is bounded: all of them when there is at most one napper,
\* and those that never slept in any case.
Compete(i, j) == MaxSleepers <= 1 \/ (until[i] = 0 /\ until[j] = 0)

\* The bound on the lag, also of the task that is running: it had the smallest
\* vruntime when it was picked.
LagInv ==
  /\ \A i, j \in Ids :
       /\ Holds(ready, i) /\ Holds(ready, j) /\ Compete(i, j)
       /\ state[i] = "Ready" /\ state[j] = "Ready"
       => vruntime[i] <= vruntime[j] + Slice(i)
  /\ run # 0 => \A j \in Ids :
       Holds(ready, j) /\ state[j] = "Ready" =>
         /\ vruntime[run] <= vruntime[j]
         /\ Compete(run, j) => vruntime[j] <= vruntime[run] + Slice(j)

\* The steps a task has been charged for, of the n it has run.
Charged(i, n) == IF i = run /\ state[i] # "Running" THEN n - 1 ELSE n

\* The saturated price of c steps.
Price(i, c) == IF c * Slice(i) < VMax THEN c * Slice(i) ELSE VMax

\* The account of a task that never slept is the price of the steps it ran.
AccountInv ==
  \A i \in Ids : i < nextId /\ until[i] = 0 =>
    \E n \in Nat : /\ runs[i] = IF n < MaxRuns THEN n ELSE MaxRuns
                   /\ Charged(i, n) \in Nat
                   /\ vruntime[i] = Price(i, Charged(i, n))

IInv == TypeOK /\ QueueInv /\ TaskInv /\ OneNapper /\ LagInv /\ AccountInv

-----------------------------------------------------------------------------
\* The price of a step is a natural number: 0 for a weight above Quantum.
LEMMA SliceNat ==
  ASSUME NEW d \in Weights
  PROVE  Quantum \div d \in Nat
<1>1. d \in Nat /\ 1 <= d /\ Quantum \in Nat
  BY WeightsAssumption, CfsBoundsAssumption
<1>2. ASSUME NEW q \in Nat, NEW e \in Nat, 1 <= e
      PROVE  q \div e \in Nat
  BY <1>2
<1> QED
  BY <1>1, <1>2

\* A task that is queued or runs has been spawned, and its step has a price.
LEMMA SpawnedFacts ==
  ASSUME TypeOK, QueueInv, TaskInv
  PROVE  /\ \A i \in Ids : Holds(ready, i) => i < nextId
         /\ run # 0 => run \in Ids /\ run < nextId
         /\ \A i \in Ids : i < nextId => weight[i] \in Weights /\ Slice(i) \in Nat
         /\ 0 \notin Ids /\ \A i \in Ids : vruntime[i] \in Nat /\ vruntime[i] <= VMax
<1>1. nextId \in Int /\ \A i \in Ids : i \in Int
  BY DEF TypeOK, Ids
<1>2. run # 0 => run \in Ids
  BY CfsBoundsAssumption DEF TypeOK, Ids
<1>3. 0 \notin Ids
  BY DEF Ids
<1>4. \A i \in Ids : i < nextId => weight[i] \in Weights
  BY DEF TaskInv
<1>5. \A i \in Ids : i < nextId => Slice(i) \in Nat
  BY <1>4, SliceNat DEF Slice
<1>6. \A i \in Ids : vruntime[i] \in Nat /\ vruntime[i] <= VMax
  BY CfsBoundsAssumption DEF TypeOK
<1>7. run # 0 => run < nextId
  BY <1>1, <1>2 DEF QueueInv
<1>8. \A i \in Ids : Holds(ready, i) => i < nextId
  BY <1>1 DEF QueueInv
<1> QED
  BY <1>2, <1>3, <1>4, <1>5, <1>6, <1>7, <1>8

\* The accounts depend on neither the queue nor the clock.
LEMMA AccountKept ==
  ASSUME AccountInv, UNCHANGED <<run, nextId, state, until, weight, vruntime, runs>>
  PROVE  AccountInv'
BY DEF AccountInv, Charged, Price, Slice

\* A tick, a pass that found nobody awake, and a stuttering step.
LEMMA QuietStep ==
  ASSUME IInv, UNCHANGED <<ready, run, nextId, state, until, weight, vruntime, runs>>,
         ticks' \in 0..MaxTick, started' \in {started, TRUE}
  PROVE  IInv'
<1>1. TypeOK'
  BY Zenon DEF IInv, TypeOK
<1>2. QueueInv' /\ OneNapper'
  BY DEF IInv, QueueInv, OneNapper, Holds, Distinct
<1>3. TaskInv'
  BY Zenon DEF IInv, TypeOK, TaskInv
<1>4. LagInv'
  BY DEF IInv, LagInv, Compete, Slice, Holds
<1>5. AccountInv'
  BY AccountKept DEF IInv
<1> QED
  BY <1>1, <1>2, <1>3, <1>4, <1>5 DEF IInv

\* spawn: nobody has run yet, so the newcomer starts level with everybody.
LEMMA SpawnStep ==
  ASSUME IInv, NEW w \in Weights, NEW u \in 0..MaxTick, spawn(w, u)
  PROVE  IInv'
<1> DEFINE n == nextId
<1>1. /\ TypeOK /\ QueueInv /\ TaskInv /\ OneNapper /\ LagInv /\ AccountInv
  BY DEF IInv
<1>2. /\ ~started /\ n <= MaxId /\ n' = n + 1 /\ ready' = Append(ready, n)
      /\ state' = [state EXCEPT ![n] = IF u = 0 THEN "Ready" ELSE "Sleeping"]
      /\ until' = [until EXCEPT ![n] = u] /\ weight' = [weight EXCEPT ![n] = w]
      /\ UNCHANGED <<run, started, ticks, vruntime, runs>>
      /\ u > 0 => Cardinality({i \in Ids : until[i] > 0}) < MaxSleepers
  BY DEF spawn
<1>3. n \in Ids /\ n \in Int /\ run = 0 /\ run' = 0 /\ ~started'
  BY <1>1, <1>2, CfsBoundsAssumption DEF TypeOK, TaskInv, Ids
<1>4. \A i \in Ids : i \in Int /\ i # 0 /\ vruntime'[i] = 0 /\ runs'[i] = 0 /\ vruntime[i] = 0 /\ runs[i] = 0
  BY <1>1, <1>2 DEF TaskInv, Ids
<1>5. ~Holds(ready, n) /\ state[n] = "Unborn"
  BY <1>1, <1>3 DEF QueueInv
<1>6. /\ ready' \in Seq(Ids) /\ Distinct(ready')
      /\ \A t : Holds(ready', t) <=> Holds(ready, t) \/ t = n
  BY <1>1, <1>2, <1>3, <1>5, Pushed DEF TypeOK, QueueInv
<1>7. /\ state'[n] = (IF u = 0 THEN "Ready" ELSE "Sleeping") /\ until'[n] = u /\ weight'[n] = w
      /\ \A i \in Ids : i # n =>
           state'[i] = state[i] /\ until'[i] = until[i] /\ weight'[i] = weight[i]
  BY <1>1, <1>2, <1>3 DEF TypeOK
<1>8. TypeOK'
  <2>1. n' \in 1..MaxId + 1
    BY <1>1, <1>2, <1>3, CfsBoundsAssumption DEF TypeOK
  <2>2. state' \in [Ids -> {"Unborn", "Ready", "Running", "Sleeping", "Finished", "Dropped"}]
    BY <1>1, <1>2, <1>3 DEF TypeOK
  <2>3. until' \in [Ids -> 0..MaxTick] /\ weight' \in [Ids -> Weights \cup {0}]
    BY <1>1, <1>2, <1>3 DEF TypeOK
  <2> QED
    BY <1>1, <1>2, <1>6, <2>1, <2>2, <2>3 DEF TypeOK
<1>9. QueueInv'
  <2>1. \A i \in Ids : Holds(ready', i) <=> i # run' /\ state'[i] \in {"Ready", "Sleeping"}
    BY <1>1, <1>3, <1>4, <1>6, <1>7 DEF QueueInv
  <2>2. \A i \in Ids : state'[i] \in {"Running", "Finished"} => i = run'
    BY <1>1, <1>3, <1>7, Zenon DEF QueueInv
  <2>3. \A i \in Ids : state'[i] = "Unborn" <=> i >= n'
    BY <1>1, <1>2, <1>3, <1>4, <1>7 DEF QueueInv
  <2> QED
    BY <1>3, <1>6, <2>1, <2>2, <2>3 DEF QueueInv
<1>10. TaskInv'
  <2>1. \A i \in Ids : i < n' => weight'[i] \in Weights
    BY <1>1, <1>2, <1>3, <1>4, <1>7 DEF TaskInv
  <2>2. \A i \in Ids : i >= n' => until'[i] = 0
    BY <1>1, <1>2, <1>3, <1>4, <1>7 DEF TaskInv
  <2>3. \A i \in Ids : state'[i] = "Sleeping" => until'[i] > 0
    <3>1. u = 0 \/ u > 0
      BY CfsBoundsAssumption
    <3> QED
      BY <1>1, <1>3, <1>7, <3>1 DEF TaskInv
  <2> QED
    BY <1>3, <1>4, <2>1, <2>2, <2>3 DEF TaskInv
<1>11. OneNapper'
  <2> SUFFICES ASSUME MaxSleepers <= 1, NEW i \in Ids, NEW j \in Ids, until'[i] > 0, until'[j] > 0
               PROVE  i = j
    BY DEF OneNapper
  <2>1. CASE u > 0
    <3> DEFINE naps == {k \in Ids : until[k] > 0}
    <3>1. IsFiniteSet(Ids)
      BY FS_Interval, CfsBoundsAssumption DEF Ids
    <3>2. naps \in SUBSET Ids
      OBVIOUS
    <3>3. IsFiniteSet(naps)
      BY <3>1, <3>2, FS_Subset
    <3>4. Cardinality(naps) < MaxSleepers
      BY <1>2, <2>1
    <3> HIDE DEF naps
    <3>5. Cardinality(naps) \in Nat
      BY <3>3, FS_CardinalityType
    <3>6. Cardinality(naps) = 0
      BY <3>4, <3>5, CfsBoundsAssumption
    <3>7. naps = {}
      BY <3>3, <3>6, FS_EmptySet
    <3>8. \A k \in Ids : ~(until[k] > 0)
      BY <3>7 DEF naps
    <3> QED
      BY <1>7, <3>8
  <2>2. CASE ~(u > 0)
    <3>1. i # n /\ j # n
      BY <1>7, <2>2
    <3> QED
      BY <1>1, <1>7, <3>1 DEF OneNapper
  <2> QED
    BY <2>1, <2>2
<1>12. LagInv'
  <2>1. \A i \in Ids : Holds(ready', i) => weight'[i] \in Weights
    <3>1. \A i \in Ids : Holds(ready', i) => i < n'
      BY <1>2, <1>3, <1>4, <1>6, <1>1, SpawnedFacts
    <3> QED
      BY <1>10, <3>1 DEF TaskInv
  <2>2. \A i \in Ids : Holds(ready', i) => Slice(i)' \in Nat
    BY <2>1, SliceNat DEF Slice
  <2> QED
    BY <1>3, <1>4, <2>2 DEF LagInv
<1>13. AccountInv'
  <2> SUFFICES ASSUME NEW i \in Ids, i < n', until'[i] = 0
               PROVE  \E m \in Nat : /\ runs'[i] = IF m < MaxRuns THEN m ELSE MaxRuns
                                     /\ Charged(i, m)' \in Nat
                                     /\ vruntime'[i] = Price(i, Charged(i, m))'
    BY DEF AccountInv
  <2>1. Charged(i, 0)' = 0
    BY <1>3, <1>4 DEF Charged
  <2>2. Slice(i)' \in Nat
    BY <1>10, SliceNat DEF TaskInv, Slice
  <2>3. 0 * Slice(i)' = 0
    BY <2>2
  <2>4. Price(i, 0)' = 0
    <3>1. 0 < VMax \/ VMax = 0
      BY CfsBoundsAssumption
    <3> QED
      BY <2>3, <3>1 DEF Price
  <2>5. 0 = IF 0 < MaxRuns THEN 0 ELSE MaxRuns
    BY CfsBoundsAssumption
  <2>6. Price(i, Charged(i, 0))' = 0
    BY <2>1, <2>4 DEF Price
  <2> QED
    BY <1>4, <2>1, <2>5, <2>6
<1> QED
  BY <1>8, <1>9, <1>10, <1>11, <1>12, <1>13 DEF IInv


\* The clamp raises a woken sleeper to the smallest vruntime of the others, and
\* nobody else.
LEMMA ClampedFacts ==
  ASSUME TypeOK, NEW i \in Ids
  PROVE  /\ Clamped(i) \in 0..VMax /\ vruntime[i] <= Clamped(i)
         /\ state[i] # "Sleeping" => Clamped(i) = vruntime[i]
         /\ \A j \in Ids : Holds(ready, j) /\ j # i =>
              /\ Clamped(i) = vruntime[i] \/ Clamped(i) <= vruntime[j]
              /\ state[i] = "Sleeping" =>
                   \E k \in Ids : Holds(ready, k) /\ k # i /\ vruntime[k] <= Clamped(i)
<1> DEFINE others == Queued \ {i}
           values == {vruntime[k] : k \in others}
           floor == min_vruntime(others)
<1>1. \A k \in Ids : vruntime[k] \in Nat /\ vruntime[k] <= VMax /\ vruntime[k] \in 0..VMax
  BY CfsBoundsAssumption DEF TypeOK
<1>2. \A k : k \in others <=> Holds(ready, k) /\ k # i
  BY DEF Queued, Holds
<1>3. \A k \in others : k \in Ids
  <2>1. \A m \in DOMAIN ready : ready[m] \in Ids
    BY ElementOfSeq DEF TypeOK
  <2> QED
    BY <2>1 DEF Queued
<1> HIDE DEF others
<1>4. CASE others = {}
  <2>1. floor = 0
    BY <1>4 DEF min_vruntime
  <2>2. Clamped(i) = vruntime[i]
    BY <1>1, <2>1 DEF Clamped, others
  <2> QED
    BY <1>1, <1>2, <1>4, <2>2
<1>5. CASE others # {}
  <2>1. values \subseteq Nat /\ values # {}
    BY <1>1, <1>3, <1>5
  <2>2. \E v \in values : \A x \in values : v <= x
    <3> HIDE DEF values
    <3> QED
      BY <2>1, Smallest, Zenon
  <2>3. \E v \in values : \A k \in others : v <= vruntime[k]
    BY <2>2
  <2>4. floor = CHOOSE v \in values : \A k \in others : v <= vruntime[k]
    BY <1>5 DEF min_vruntime
  <2>5. floor \in values /\ \A k \in others : floor <= vruntime[k]
    <3> HIDE DEF values, floor
    <3> QED
      BY <2>3, <2>4, Zenon
  <2>6. PICK k \in others : floor = vruntime[k]
    BY <2>5
  <2>7. Clamped(i) = IF state[i] = "Sleeping" /\ vruntime[i] < floor THEN floor ELSE vruntime[i]
    BY DEF Clamped, others
  <2> HIDE DEF floor, values
  <2>8. floor \in 0..VMax /\ floor \in Nat /\ k \in Ids
    BY <1>1, <1>3, <2>6
  <2>9. Clamped(i) \in 0..VMax /\ vruntime[i] <= Clamped(i)
    BY <1>1, <2>7, <2>8
  <2>10. state[i] = "Sleeping" => vruntime[k] <= Clamped(i)
    BY <1>1, <2>6, <2>7, <2>8
  <2>11. \A j \in others : Clamped(i) = vruntime[i] \/ Clamped(i) <= vruntime[j]
    BY <2>5, <2>7
  <2> QED
    BY <1>2, <2>6, <2>7, <2>8, <2>9, <2>10, <2>11
<1> QED
  BY <1>4, <1>5

\* schedule_once: the picked task has the smallest vruntime of the awake ones,
\* before the clamp and after it.
LEMMA ScheduleStep ==
  ASSUME IInv, NEW n \in DOMAIN ready, schedule_once(n)
  PROVE  IInv'
<1> DEFINE p == ready[n]
<1>1. /\ TypeOK /\ QueueInv /\ TaskInv /\ OneNapper /\ LagInv /\ AccountInv
  BY DEF IInv
<1>2. /\ run = 0 /\ pick_min(n) /\ started' = TRUE /\ run' = p
      /\ ready' = RemoveAt(ready, n)
      /\ vruntime' = [vruntime EXCEPT ![p] = Clamped(p)]
      /\ state' = [state EXCEPT ![p] = "Running"]
      /\ UNCHANGED <<nextId, ticks, until, weight, runs>>
  BY DEF schedule_once
<1>3. ready \in Seq(Ids) /\ Distinct(ready) /\ n \in 1..Len(ready)
  BY <1>1 DEF TypeOK, QueueInv
<1>4. p \in Ids /\ Holds(ready, p)
  BY <1>3, ElementOfSeq DEF Holds
<1>5. state[p] \in {"Ready", "Sleeping"} /\ p # 0 /\ p < nextId
  BY <1>1, <1>4, SpawnedFacts DEF QueueInv
<1>6. /\ ready' \in Seq(Ids) /\ Distinct(ready') /\ ~Holds(ready', p)
      /\ \A t : t # p => (Holds(ready', t) <=> Holds(ready, t))
  <2>1. LET w == RemoveAt(ready, n)
        IN  /\ w \in Seq(Ids) /\ Distinct(w) /\ ~Holds(w, ready[n])
            /\ \A t : t # ready[n] => (Holds(w, t) <=> Holds(ready, t))
    BY <1>3, TakenOut
  <2> QED
    BY <1>2, <2>1
<1>7. /\ state'[p] = "Running" /\ vruntime'[p] = Clamped(p)
      /\ \A i \in Ids : i # p => state'[i] = state[i] /\ vruntime'[i] = vruntime[i]
  BY <1>1, <1>2, <1>4 DEF TypeOK
<1>8. /\ Clamped(p) \in 0..VMax /\ vruntime[p] <= Clamped(p)
      /\ state[p] # "Sleeping" => Clamped(p) = vruntime[p]
      /\ \A j \in Ids : Holds(ready, j) /\ j # p =>
           /\ Clamped(p) = vruntime[p] \/ Clamped(p) <= vruntime[j]
           /\ state[p] = "Sleeping" =>
                \E k \in Ids : Holds(ready, k) /\ k # p /\ vruntime[k] <= Clamped(p)
  BY <1>1, <1>4, ClampedFacts
<1>9. \A j \in Ids : Holds(ready, j) /\ state[j] = "Ready" => vruntime[p] <= vruntime[j]
  <2> SUFFICES ASSUME NEW j \in Ids, Holds(ready, j), state[j] = "Ready"
               PROVE  vruntime[p] <= vruntime[j]
    OBVIOUS
  <2>1. PICK m \in DOMAIN ready : ready[m] = j
    BY DEF Holds
  <2>2. vruntime[p] < vruntime[j] \/ vruntime[p] = vruntime[j]
    BY <1>2, <2>1 DEF pick_min, Awake
  <2>3. vruntime[p] \in Nat /\ vruntime[j] \in Nat
    BY <1>1, <1>4, SpawnedFacts
  <2> HIDE DEF p
  <2> QED
    BY <2>2, <2>3
<1> HIDE DEF p
<1>10. TypeOK'
  <2>1. state' \in [Ids -> {"Unborn", "Ready", "Running", "Sleeping", "Finished", "Dropped"}]
    BY <1>1, <1>2, <1>4 DEF TypeOK
  <2>2. vruntime' \in [Ids -> 0..VMax]
    BY <1>1, <1>2, <1>4, <1>8 DEF TypeOK
  <2>3. run' \in 0..MaxId
    BY <1>2, <1>4, CfsBoundsAssumption DEF Ids
  <2> QED
    BY <1>1, <1>2, <1>6, <2>1, <2>2, <2>3, Zenon DEF TypeOK
<1>11. QueueInv'
  <2>1. \A i \in Ids : Holds(ready', i) <=> i # run' /\ state'[i] \in {"Ready", "Sleeping"}
    BY <1>1, <1>2, <1>4, <1>6, <1>7, SpawnedFacts DEF QueueInv
  <2>2. \A i \in Ids : state'[i] \in {"Running", "Finished"} => i = run'
    BY <1>1, <1>2, <1>7, SpawnedFacts DEF QueueInv
  <2>3. \A i \in Ids : state'[i] = "Unborn" <=> i >= nextId'
    <3>1. ~(p >= nextId)
      BY <1>1, <1>4, <1>5 DEF QueueInv
    <3> QED
      BY <1>1, <1>2, <1>4, <1>7, <3>1 DEF QueueInv
  <2> QED
    BY <1>2, <1>6, <1>7, <2>1, <2>2, <2>3 DEF QueueInv
<1>12. TaskInv'
  <2>1. \A i \in Ids : i >= nextId' => until'[i] = 0 /\ vruntime'[i] = 0 /\ runs'[i] = 0
    <3>1. ~(p >= nextId)
      BY <1>1, <1>4, <1>5 DEF QueueInv
    <3> QED
      BY <1>1, <1>2, <1>7, <3>1 DEF TaskInv
  <2>2. \A i \in Ids : state'[i] = "Sleeping" => until'[i] > 0 /\ runs'[i] = 0
    BY <1>1, <1>2, <1>7 DEF TaskInv
  <2> QED
    BY <1>1, <1>2, <2>1, <2>2 DEF TaskInv
<1>13. OneNapper'
  BY <1>1, <1>2 DEF OneNapper
<1>14. LagInv'
  <2>1. \A i \in Ids : Slice(i)' = Slice(i)
    BY <1>2 DEF Slice
  <2>2. \A i, j \in Ids : Compete(i, j)' <=> Compete(i, j)
    BY <1>2 DEF Compete
  <2>3. ASSUME NEW i \in Ids, NEW j \in Ids, Holds(ready', i), Holds(ready', j), Compete(i, j),
               state'[i] = "Ready", state'[j] = "Ready"
        PROVE  vruntime'[i] <= vruntime'[j] + Slice(i)
    <3>1. i # p /\ j # p
      BY <1>6, <2>3
    <3> QED
      BY <1>1, <1>6, <1>7, <2>3, <3>1 DEF LagInv
  <2>4. ASSUME NEW j \in Ids, Holds(ready', j), state'[j] = "Ready"
        PROVE  /\ vruntime'[p] <= vruntime'[j]
               /\ Compete(p, j) => vruntime'[j] <= vruntime'[p] + Slice(j)
    <3>1. j # p /\ Holds(ready, j) /\ state[j] = "Ready" /\ vruntime'[j] = vruntime[j]
      BY <1>6, <1>7, <2>4
    <3>2. /\ vruntime[p] \in Nat /\ vruntime[j] \in Nat /\ Slice(j) \in Nat
          /\ \A k \in Ids : vruntime[k] \in Nat
      BY <1>1, <1>4, <3>1, SpawnedFacts
    <3>3. Clamped(p) \in Nat
      BY <1>8, CfsBoundsAssumption
    <3>4. vruntime'[p] <= vruntime'[j]
      BY <1>7, <1>8, <1>9, <3>1
    <3>5. ASSUME Compete(p, j) PROVE vruntime[j] <= Clamped(p) + Slice(j)
      <4>1. CASE state[p] = "Ready"
        <5>1. vruntime[j] <= vruntime[p] + Slice(j)
          BY <1>1, <1>4, <3>1, <3>5, <4>1 DEF LagInv, Compete
        <5> QED
          BY <1>8, <4>1, <5>1
      <4>2. CASE state[p] = "Sleeping"
        <5>1. until[p] > 0 /\ MaxSleepers <= 1
          BY <1>1, <1>4, <3>5, <4>2 DEF TaskInv, Compete
        <5>2. PICK k \in Ids : Holds(ready, k) /\ k # p /\ vruntime[k] <= Clamped(p)
          BY <1>8, <3>1, <4>2
        <5>3. state[k] = "Ready"
          BY <1>1, <1>4, <5>1, <5>2 DEF QueueInv, TaskInv, OneNapper
        <5>4. vruntime[j] <= vruntime[k] + Slice(j)
          BY <1>1, <3>1, <5>1, <5>2, <5>3 DEF LagInv, Compete
        <5> QED
          BY <3>2, <3>3, <5>2, <5>4
      <4> QED
        BY <1>5, <4>1, <4>2
    <3> QED
      BY <1>7, <3>1, <3>4, <3>5
  <2> QED
    BY <1>2, <2>1, <2>2, <2>3, <2>4 DEF LagInv, Compete
<1>15. AccountInv'
  <2> SUFFICES ASSUME NEW i \in Ids, i < nextId', until'[i] = 0
               PROVE  \E m \in Nat : /\ runs'[i] = IF m < MaxRuns THEN m ELSE MaxRuns
                                     /\ Charged(i, m)' \in Nat
                                     /\ vruntime'[i] = Price(i, Charged(i, m))'
    BY DEF AccountInv
  <2>1. PICK m \in Nat : /\ runs[i] = IF m < MaxRuns THEN m ELSE MaxRuns
                         /\ vruntime[i] = Price(i, Charged(i, m))
    BY <1>1, <1>2 DEF AccountInv
  <2>2. Charged(i, m) = m /\ Charged(i, m)' = m
    BY <1>1, <1>2, <1>7, SpawnedFacts DEF Charged
  <2>3. Price(i, m)' = Price(i, m)
    BY <1>2 DEF Price, Slice
  <2>4. vruntime'[i] = vruntime[i]
    <3>1. ~(until[i] > 0)
      BY <1>2
    <3>2. state[i] # "Sleeping"
      BY <1>1, <3>1 DEF TaskInv
    <3> QED
      BY <1>7, <1>8, <3>2
  <2>5. Price(i, Charged(i, m))' = Price(i, m)
    BY <2>2, <2>3 DEF Price
  <2>6. runs'[i] = runs[i]
    BY <1>2
  <2> QED
    BY <2>1, <2>2, <2>4, <2>5, <2>6
<1> QED
  BY <1>10, <1>11, <1>12, <1>13, <1>14, <1>15 DEF IInv

\* The step returns: it is counted, and charged only by EndTurn.
LEMMA ReturnStep ==
  ASSUME IInv, NEW alive \in BOOLEAN, StepReturns(alive)
  PROVE  IInv'
<1>1. /\ TypeOK /\ QueueInv /\ TaskInv /\ OneNapper /\ LagInv /\ AccountInv
  BY DEF IInv
<1>2. /\ run # 0 /\ state[run] = "Running"
      /\ state' = [state EXCEPT ![run] = IF alive THEN "Ready" ELSE "Finished"]
      /\ runs' = [runs EXCEPT ![run] = IF @ < MaxRuns THEN @ + 1 ELSE @]
      /\ UNCHANGED <<ready, run, started, nextId, ticks, until, weight, vruntime>>
  BY DEF StepReturns
<1>3. run \in Ids /\ run < nextId /\ ~Holds(ready, run) /\ started
  BY <1>1, <1>2, SpawnedFacts DEF QueueInv, TaskInv
<1>4. /\ state'[run] \in {"Ready", "Finished"}
      /\ runs'[run] = IF runs[run] < MaxRuns THEN runs[run] + 1 ELSE runs[run]
      /\ \A i \in Ids : i # run => state'[i] = state[i] /\ runs'[i] = runs[i]
  BY <1>1, <1>2, <1>3 DEF TypeOK
<1>5. runs[run] \in Nat /\ runs[run] <= MaxRuns
  BY <1>1, <1>3, CfsBoundsAssumption DEF TypeOK
<1>6. TypeOK'
  <2>1. state' \in [Ids -> {"Unborn", "Ready", "Running", "Sleeping", "Finished", "Dropped"}]
    BY <1>1, <1>2, <1>3 DEF TypeOK
  <2>2. runs'[run] \in 0..MaxRuns
    BY <1>4, <1>5, CfsBoundsAssumption
  <2>3. runs' \in [Ids -> 0..MaxRuns]
    BY <1>1, <1>2, <1>3, <1>4, <2>2 DEF TypeOK
  <2> QED
    BY <1>1, <1>2, <2>1, <2>3 DEF TypeOK
<1>7. QueueInv'
  <2>1. ~(run >= nextId)
    BY <1>1, <1>2, <1>3 DEF QueueInv
  <2>2. \A i \in Ids : state'[i] = "Unborn" <=> i >= nextId'
    BY <1>1, <1>2, <1>4, <2>1 DEF QueueInv
  <2> QED
    BY <1>1, <1>2, <1>3, <1>4, <2>2 DEF QueueInv
<1>8. TaskInv'
  <2>1. ~(run >= nextId)
    BY <1>1, <1>2, <1>3 DEF QueueInv
  <2> QED
    BY <1>1, <1>2, <1>3, <1>4, <2>1 DEF TaskInv
<1>9. OneNapper'
  BY <1>1, <1>2 DEF OneNapper
<1>10. LagInv'
  <2>1. \A i \in Ids : Holds(ready, i) => i # run /\ state'[i] = state[i]
    BY <1>3, <1>4
  <2> QED
    BY <1>1, <1>2, <1>3, <2>1 DEF LagInv, Compete, Slice, Holds
<1>11. AccountInv'
  <2> SUFFICES ASSUME NEW i \in Ids, i < nextId', until'[i] = 0
               PROVE  \E m \in Nat : /\ runs'[i] = IF m < MaxRuns THEN m ELSE MaxRuns
                                     /\ Charged(i, m)' \in Nat
                                     /\ vruntime'[i] = Price(i, Charged(i, m))'
    BY DEF AccountInv
  <2>1. PICK m \in Nat : /\ runs[i] = IF m < MaxRuns THEN m ELSE MaxRuns
                         /\ Charged(i, m) \in Nat
                         /\ vruntime[i] = Price(i, Charged(i, m))
    BY <1>1, <1>2 DEF AccountInv
  <2>2. vruntime'[i] = vruntime[i] /\ \A c : Price(i, c)' = Price(i, c)
    BY <1>2 DEF Price, Slice
  <2>3. CASE i = run
    <3>1. Charged(i, m) = m
      BY <1>2, <2>3 DEF Charged
    <3>2. Charged(i, m + 1)' = (m + 1) - 1
      BY <1>2, <1>4, <2>3 DEF Charged
    <3>3. (m + 1) - 1 = m /\ m + 1 \in Nat
      OBVIOUS
    <3>4. runs'[i] = IF m + 1 < MaxRuns THEN m + 1 ELSE MaxRuns
      BY <1>4, <2>1, <2>3, CfsBoundsAssumption
    <3>5. Price(i, Charged(i, m + 1))' = Price(i, m)
      BY <2>2, <3>2, <3>3 DEF Price
    <3> QED
      BY <2>1, <2>2, <3>1, <3>2, <3>3, <3>4, <3>5
  <2>4. CASE i # run
    <3>1. Charged(i, m) = m /\ Charged(i, m)' = m
      BY <1>2, <2>4 DEF Charged
    <3>2. Price(i, Charged(i, m))' = Price(i, m)
      BY <2>2, <3>1 DEF Price
    <3> QED
      BY <1>4, <2>1, <2>2, <2>4, <3>1, <3>2
  <2> QED
    BY <2>3, <2>4
<1> QED
  BY <1>6, <1>7, <1>8, <1>9, <1>10, <1>11 DEF IInv

\* One more step at price s on top of c steps, with saturation at v.
LEMMA OneMoreStep ==
  ASSUME NEW c \in Nat, NEW s \in Nat, NEW v \in Nat, NEW x,
         x = IF c * s < v THEN c * s ELSE v
  PROVE  (IF x + s < v THEN x + s ELSE v) = IF (c + 1) * s < v THEN (c + 1) * s ELSE v
<1>1. (c + 1) * s = c * s + s /\ c * s \in Nat
  OBVIOUS
<1> DEFINE y == c * s
<1>2. (c + 1) * s = y + s /\ y \in Nat /\ x = IF y < v THEN y ELSE v
  BY <1>1
<1> HIDE DEF y
<1> QED
  BY <1>2

\* EndTurn: the step is charged, and the task goes to the end of the queue or
\* out of it.
LEMMA EndTurnStep ==
  ASSUME IInv, EndTurn
  PROVE  IInv'
<1> DEFINE r == run
<1>1. /\ TypeOK /\ QueueInv /\ TaskInv /\ OneNapper /\ LagInv /\ AccountInv
  BY DEF IInv
<1>2. /\ r # 0 /\ state[r] \in {"Ready", "Finished"}
      /\ vruntime' = [vruntime EXCEPT ![r] = Accrued(r)] /\ run' = 0
      /\ UNCHANGED <<started, nextId, ticks, until, weight, runs>>
  BY DEF EndTurn
<1>3. \/ state[r] = "Ready" /\ ready' = Append(ready, r) /\ state' = state
      \/ state[r] = "Finished" /\ state' = [state EXCEPT ![r] = "Dropped"] /\ ready' = ready
  BY DEF EndTurn
<1>4. r \in Ids /\ r < nextId /\ ~Holds(ready, r) /\ started
  BY <1>1, <1>2, SpawnedFacts DEF QueueInv, TaskInv
<1>5. /\ Slice(r) \in Nat /\ VMax \in Nat /\ \A i \in Ids : vruntime[i] \in Nat /\ vruntime[i] <= VMax
      /\ 0 \notin Ids
  BY <1>1, <1>4, SpawnedFacts, CfsBoundsAssumption
<1>6. /\ Accrued(r) \in 0..VMax /\ vruntime[r] <= Accrued(r)
      /\ Accrued(r) <= vruntime[r] + Slice(r) /\ Accrued(r) \in Nat
  BY <1>4, <1>5 DEF Accrued
<1>7. vruntime'[r] = Accrued(r) /\ \A i \in Ids : i # r => vruntime'[i] = vruntime[i]
  BY <1>1, <1>2, <1>4 DEF TypeOK
<1>8. /\ \A i \in Ids : i # r => state'[i] = state[i]
      /\ state[r] = "Ready" => state'[r] = "Ready"
      /\ state[r] = "Finished" => state'[r] = "Dropped"
  BY <1>1, <1>3, <1>4 DEF TypeOK
<1>9. /\ ready' \in Seq(Ids) /\ Distinct(ready')
      /\ \A t : Holds(ready', t) <=> Holds(ready, t) \/ (t = r /\ state[r] = "Ready")
  <2>1. CASE state[r] = "Ready"
    <3>1. LET w == Append(ready, r)
          IN  w \in Seq(Ids) /\ Distinct(w) /\ \A t : Holds(w, t) <=> Holds(ready, t) \/ t = r
      BY <1>1, <1>4, Pushed DEF TypeOK, QueueInv
    <3> QED
      BY <1>3, <2>1, <3>1, Zenon
  <2>2. CASE state[r] = "Finished"
    BY <1>1, <1>3, <2>2 DEF TypeOK, QueueInv
  <2> QED
    BY <1>2, <2>1, <2>2
<1> HIDE DEF r
<1>10. TypeOK'
  <2>1. state' \in [Ids -> {"Unborn", "Ready", "Running", "Sleeping", "Finished", "Dropped"}]
    BY <1>1, <1>3, <1>4, Zenon DEF TypeOK
  <2>2. vruntime' \in [Ids -> 0..VMax]
    BY <1>1, <1>2, <1>4, <1>6 DEF TypeOK
  <2>3. run' \in 0..MaxId
    BY <1>2, CfsBoundsAssumption
  <2> QED
    BY <1>1, <1>2, <1>9, <2>1, <2>2, <2>3 DEF TypeOK
<1>11. QueueInv'
  <2>1. \A i \in Ids : Holds(ready', i) <=> i # run' /\ state'[i] \in {"Ready", "Sleeping"}
    <3> SUFFICES ASSUME NEW i \in Ids
                 PROVE  Holds(ready', i) <=> state'[i] \in {"Ready", "Sleeping"}
      BY <1>2, <1>5
    <3>1. CASE i = r
      BY <1>2, <1>4, <1>8, <1>9, <3>1
    <3>2. CASE i # r
      BY <1>1, <1>8, <1>9, <3>2 DEF QueueInv, r
    <3> QED
      BY <3>1, <3>2
  <2>2. \A i \in Ids : state'[i] \notin {"Running", "Finished"}
    <3> SUFFICES ASSUME NEW i \in Ids PROVE state'[i] \notin {"Running", "Finished"}
      OBVIOUS
    <3>1. CASE i = r
      BY <1>2, <1>8, <3>1
    <3>2. CASE i # r
      BY <1>1, <1>8, <3>2 DEF QueueInv, r
    <3> QED
      BY <3>1, <3>2
  <2>3. \A i \in Ids : state'[i] = "Unborn" <=> i >= nextId'
    <3>1. ~(r >= nextId)
      BY <1>1, <1>2, <1>4 DEF QueueInv
    <3> QED
      BY <1>1, <1>2, <1>4, <1>8, <3>1 DEF QueueInv
  <2> QED
    BY <1>2, <1>9, <2>1, <2>2, <2>3 DEF QueueInv
<1>12. TaskInv'
  <2>1. ~(r >= nextId)
    BY <1>1, <1>2, <1>4 DEF QueueInv
  <2>2. state'[r] # "Sleeping"
    BY <1>2, <1>8
  <2>3. \A i \in Ids : i >= nextId' => until'[i] = 0 /\ vruntime'[i] = 0 /\ runs'[i] = 0
    BY <1>1, <1>2, <1>7, <2>1 DEF TaskInv
  <2>4. \A i \in Ids : state'[i] = "Sleeping" => until'[i] > 0 /\ runs'[i] = 0
    BY <1>1, <1>2, <1>8, <2>2 DEF TaskInv
  <2> QED
    BY <1>1, <1>2, <1>4, <2>3, <2>4 DEF TaskInv
<1>13. OneNapper'
  BY <1>1, <1>2 DEF OneNapper
<1>14. LagInv'
  <2>1. \A i \in Ids : Slice(i)' = Slice(i)
    BY <1>2 DEF Slice
  <2>2. \A i, j \in Ids : Compete(i, j)' <=> Compete(i, j)
    BY <1>2 DEF Compete
  <2>3. ASSUME NEW i \in Ids, NEW j \in Ids, Holds(ready', i), Holds(ready', j), Compete(i, j),
               state'[i] = "Ready", state'[j] = "Ready"
        PROVE  vruntime'[i] <= vruntime'[j] + Slice(i)
    <3>1. /\ i # r => Holds(ready, i) /\ state[i] = "Ready" /\ vruntime'[i] = vruntime[i]
          /\ j # r => Holds(ready, j) /\ state[j] = "Ready" /\ vruntime'[j] = vruntime[j]
      BY <1>7, <1>8, <1>9, <2>3
    <3>2. vruntime[i] \in Nat /\ vruntime[j] \in Nat /\ vruntime[r] \in Nat
      BY <1>4, <1>5
    <3>3. Slice(i) \in Nat
      <4>1. i = r \/ i < nextId
        BY <1>1, <3>1, SpawnedFacts
      <4> QED
        BY <1>1, <1>4, <4>1, SpawnedFacts
    <3>4. CASE i = r /\ j = r
      BY <1>6, <1>7, <3>3, <3>4
    <3>5. CASE i = r /\ j # r
      <4>1. vruntime[r] <= vruntime[j]
        BY <1>1, <1>2, <3>1, <3>5 DEF LagInv, r
      <4> QED
        BY <1>6, <1>7, <3>1, <3>2, <3>3, <3>5, <4>1
    <3>6. CASE i # r /\ j = r
      <4>1. Compete(r, i)
        BY <2>3, <3>6 DEF Compete
      <4>2. vruntime[i] <= vruntime[r] + Slice(i)
        BY <1>1, <1>2, <3>1, <3>6, <4>1 DEF LagInv, r
      <4> QED
        BY <1>6, <1>7, <3>1, <3>2, <3>3, <3>6, <4>2
    <3>7. CASE i # r /\ j # r
      BY <1>1, <2>3, <3>1, <3>7 DEF LagInv
    <3> QED
      BY <3>4, <3>5, <3>6, <3>7
  <2> QED
    BY <1>2, <2>1, <2>2, <2>3 DEF LagInv
<1>15. AccountInv'
  <2> SUFFICES ASSUME NEW i \in Ids, i < nextId', until'[i] = 0
               PROVE  \E m \in Nat : /\ runs'[i] = IF m < MaxRuns THEN m ELSE MaxRuns
                                     /\ Charged(i, m)' \in Nat
                                     /\ vruntime'[i] = Price(i, Charged(i, m))'
    BY DEF AccountInv
  <2>1. PICK m \in Nat : /\ runs[i] = IF m < MaxRuns THEN m ELSE MaxRuns
                         /\ Charged(i, m) \in Nat
                         /\ vruntime[i] = Price(i, Charged(i, m))
    BY <1>1, <1>2 DEF AccountInv
  <2>2. runs'[i] = runs[i] /\ \A c : Price(i, c)' = Price(i, c)
    BY <1>2 DEF Price, Slice
  <2>3. Charged(i, m)' = m
    BY <1>2, <1>5 DEF Charged
  <2>4. Price(i, Charged(i, m))' = Price(i, m)
    BY <2>2, <2>3 DEF Price
  <2>5. CASE i = r
    <3> DEFINE c == m - 1
    <3>1. Charged(i, m) = c
      BY <1>2, <2>5 DEF Charged, r
    <3>2. c \in Nat /\ c + 1 = m
      BY <2>1, <3>1
    <3> HIDE DEF c
    <3>3. vruntime[i] = IF c * Slice(i) < VMax THEN c * Slice(i) ELSE VMax
      BY <2>1, <3>1 DEF Price
    <3>4. Slice(i) \in Nat
      BY <1>5, <2>5
    <3>5. (IF vruntime[i] + Slice(i) < VMax THEN vruntime[i] + Slice(i) ELSE VMax)
            = IF (c + 1) * Slice(i) < VMax THEN (c + 1) * Slice(i) ELSE VMax
      BY <1>5, <3>2, <3>3, <3>4, OneMoreStep
    <3>6. Accrued(i) = Price(i, m)
      BY <3>2, <3>5 DEF Accrued, Price
    <3> QED
      BY <1>7, <2>1, <2>2, <2>3, <2>4, <2>5, <3>6
  <2>6. CASE i # r
    <3>1. Charged(i, m) = m
      BY <2>6 DEF Charged, r
    <3> QED
      BY <1>7, <2>1, <2>2, <2>3, <2>4, <2>6, <3>1
  <2> QED
    BY <2>5, <2>6
<1> QED
  BY <1>10, <1>11, <1>12, <1>13, <1>14, <1>15 DEF IInv

-----------------------------------------------------------------------------
\* The inductive invariant: queue, tasks, lag and accounts fit together in every
\* state of the CFS policy.
THEOREM CfsInvariant == Spec => []IInv
<1>1. Init => IInv
  <2> SUFFICES ASSUME Init PROVE IInv
    OBVIOUS
  <2>1. \A i \in Ids : i \in Int /\ i >= 1 /\ 0 \in 0..VMax /\ 0 \in 0..MaxRuns /\ 0 \in 0..MaxTick
    BY CfsBoundsAssumption DEF Ids
  <2>2. /\ ready = <<>> /\ run = 0 /\ started = FALSE /\ nextId = 1 /\ ticks = 0
        /\ state = [i \in Ids |-> "Unborn"] /\ until = [i \in Ids |-> 0]
        /\ weight = [i \in Ids |-> 0] /\ vruntime = [i \in Ids |-> 0] /\ runs = [i \in Ids |-> 0]
    BY DEF Init
  <2>3. TypeOK
    <3>1. ready \in Seq(Ids) /\ run \in 0..MaxId
      BY <2>2, CfsBoundsAssumption
    <3>s. started \in BOOLEAN
      BY <2>2, Zenon
    <3>2. nextId \in 1..MaxId + 1 /\ ticks \in 0..MaxTick
      BY <2>2, CfsBoundsAssumption
    <3> QED
      BY <2>1, <2>2, <3>1, <3>s, <3>2 DEF TypeOK
  <2>4. \A t : ~Holds(ready, t)
    BY <2>2 DEF Holds
  <2>5. QueueInv
    BY <2>1, <2>2, <2>4 DEF QueueInv, Distinct
  <2>6. TaskInv /\ OneNapper
    BY <2>1, <2>2 DEF TaskInv, OneNapper
  <2>7. LagInv
    BY <2>2, <2>4 DEF LagInv
  <2>8. AccountInv
    BY <2>1, <2>2 DEF AccountInv
  <2> QED
    BY <2>3, <2>5, <2>6, <2>7, <2>8 DEF IInv
<1>2. IInv /\ [Next]_vars => IInv'
  <2> SUFFICES ASSUME IInv, [Next]_vars PROVE IInv'
    OBVIOUS
  <2>1. ticks \in 0..MaxTick /\ MaxTick \in Nat
    BY CfsBoundsAssumption DEF IInv, TypeOK
  <2>2. CASE Tick
    <3>1. ticks' \in 0..MaxTick
      BY <2>1, <2>2 DEF Tick
    <3> QED
      BY <2>2, <3>1, QuietStep DEF Tick
  <2>3. CASE NobodyAwake
    BY <2>1, <2>3, QuietStep DEF NobodyAwake
  <2>4. CASE UNCHANGED vars
    BY <2>1, <2>4, QuietStep DEF vars
  <2>5. CASE Driver /\ ~NobodyAwake
    BY <2>5, SpawnStep, ScheduleStep, ReturnStep, EndTurnStep DEF Driver
  <2> QED
    BY <2>2, <2>3, <2>4, <2>5 DEF Next
<1> QED
  BY <1>1, <1>2, PTL DEF Spec

\* Every variable keeps its type, whatever the weights and however long the
\* kernel runs: in particular vruntime stays a u64 (task.rs:1060, saturating_add).
THEOREM CfsTypeSafe == Spec => []TypeOK
<1>1. IInv => TypeOK
  BY DEF IInv
<1> QED
  BY <1>1, CfsInvariant, PTL

\* With at most one napper, as main spawns, no task that competes for the CPU is
\* ahead of another by more than one of its own steps, for every set of weights.
THEOREM NobodyGetsAhead ==
  ASSUME MaxSleepers <= 1
  PROVE  Spec => []LagBounded
<1>1. IInv => LagBounded
  <2> SUFFICES ASSUME IInv, NEW i \in Queued, NEW j \in Queued,
                      state[i] = "Ready", state[j] = "Ready"
               PROVE  vruntime[i] <= vruntime[j] + Slice(i)
    BY DEF LagBounded
  <2>1. \A n \in DOMAIN ready : ready[n] \in Ids
    BY ElementOfSeq DEF IInv, TypeOK
  <2>2. i \in Ids /\ j \in Ids /\ Holds(ready, i) /\ Holds(ready, j)
    BY <2>1 DEF Queued, Holds
  <2> QED
    BY <2>2 DEF IInv, LagInv, Compete
<1> QED
  BY <1>1, CfsInvariant, PTL

\* A sum of n steps at price p that is at most one step of price p above m steps
\* at a lower price q has at most m steps, or just one.
LEMMA CheaperStepsAreMore ==
  ASSUME NEW n \in Nat, NEW m \in Nat, NEW p \in Nat, NEW q \in Nat,
         q < p, n * p <= m * q + p
  PROVE  n <= 1 \/ n <= m
<1> SUFFICES ASSUME n >= 2, n >= m + 1 PROVE FALSE
  OBVIOUS
<1> DEFINE k == n - 1
<1>1. k \in Nat /\ k >= 1 /\ k >= m /\ n = k + 1
  OBVIOUS
<1> HIDE DEF k
<1>2. (k + 1) * p = k * p + p
  BY <1>1
<1>3. k * p <= m * q
  <2>1. k * p \in Nat /\ m * q \in Nat
    BY <1>1
  <2> QED
    BY <1>1, <1>2, <2>1
<1>4. m * q <= k * q
  BY <1>1
<1>5. k * q + k <= k * p
  <2>1. k * (q + 1) <= k * p
    BY <1>1
  <2>2. k * (q + 1) = k * q + k
    BY <1>1
  <2> QED
    BY <2>1, <2>2
<1>6. k * q \in Nat /\ k * p \in Nat /\ m * q \in Nat
  BY <1>1
<1> QED
  BY <1>1, <1>3, <1>4, <1>5, <1>6

\* "heavier weights accrue slower and get picked more often" (task.rs:936), for
\* every set of weights and any number of sleepers beside the two tasks.
THEOREM HeavierIsNeverBehind == Spec => []HeavierRunsMore
<1>1. IInv => HeavierRunsMore
  <2> SUFFICES ASSUME IInv, NEW i \in Queued, NEW j \in Queued, until[i] = 0, until[j] = 0,
                      Slice(i) < Slice(j), vruntime[j] < VMax
               PROVE  runs[j] <= 1 \/ runs[j] <= runs[i]
    BY DEF HeavierRunsMore
  <2>0. /\ TypeOK /\ QueueInv /\ TaskInv /\ LagInv /\ AccountInv
    BY DEF IInv
  <2>1. \A n \in DOMAIN ready : ready[n] \in Ids
    BY <2>0, ElementOfSeq DEF TypeOK
  <2>2. i \in Ids /\ j \in Ids /\ Holds(ready, i) /\ Holds(ready, j)
    BY <2>1 DEF Queued, Holds
  <2>3. ~(until[i] > 0) /\ ~(until[j] > 0)
    OBVIOUS
  <2>4. state[i] = "Ready" /\ state[j] = "Ready" /\ i # run /\ j # run
    BY <2>0, <2>2, <2>3 DEF QueueInv, TaskInv
  <2>5. vruntime[j] <= vruntime[i] + Slice(j)
    BY <2>0, <2>2, <2>4 DEF LagInv, Compete
  <2>6. /\ i < nextId /\ j < nextId /\ Slice(i) \in Nat /\ Slice(j) \in Nat
        /\ vruntime[i] \in Nat /\ vruntime[j] \in Nat
    BY <2>0, <2>2, SpawnedFacts
  <2>7. PICK m \in Nat : /\ runs[i] = IF m < MaxRuns THEN m ELSE MaxRuns
                         /\ vruntime[i] = Price(i, Charged(i, m))
    BY <2>0, <2>2, <2>6 DEF AccountInv
  <2>8. PICK n \in Nat : /\ runs[j] = IF n < MaxRuns THEN n ELSE MaxRuns
                         /\ vruntime[j] = Price(j, Charged(j, n))
    BY <2>0, <2>2, <2>6 DEF AccountInv
  <2>9. Charged(i, m) = m /\ Charged(j, n) = n
    BY <2>4 DEF Charged
  <2>10. /\ vruntime[i] = IF m * Slice(i) < VMax THEN m * Slice(i) ELSE VMax
         /\ vruntime[j] = IF n * Slice(j) < VMax THEN n * Slice(j) ELSE VMax
    BY <2>7, <2>8, <2>9 DEF Price
  <2>11. n * Slice(j) <= m * Slice(i) + Slice(j)
    <3> DEFINE a == m * Slice(i)
               b == n * Slice(j)
    <3>1. a \in Nat /\ b \in Nat /\ VMax \in Nat
      BY <2>6, CfsBoundsAssumption
    <3>2. /\ vruntime[i] = IF a < VMax THEN a ELSE VMax
          /\ vruntime[j] = IF b < VMax THEN b ELSE VMax
      BY <2>10
    <3> HIDE DEF a, b
    <3>3. b <= a + Slice(j)
      BY <2>5, <2>6, <3>1, <3>2
    <3> QED
      BY <3>3 DEF a, b
  <2>12. n <= 1 \/ n <= m
    BY <2>6, <2>11, CheaperStepsAreMore
  <2> QED
    BY <2>7, <2>8, <2>12, CfsBoundsAssumption
<1> QED
  BY <1>1, CfsInvariant, PTL

\* "A woken sleeper rejoins at worst at the current minimum" (task.rs:1027) is
\* true of a single napper: the claim that two nappers break.
THEOREM SingleNapperIsClamped ==
  ASSUME MaxSleepers <= 1
  PROVE  Spec => []NeverAheadByANap
<1>1. IInv => NeverAheadByANap
  <2> SUFFICES ASSUME IInv, run # 0, NEW i \in Queued, state[i] = "Ready"
               PROVE  vruntime[i] <= vruntime[run] + Slice(i)
    BY DEF NeverAheadByANap
  <2>1. \A n \in DOMAIN ready : ready[n] \in Ids
    BY ElementOfSeq DEF IInv, TypeOK
  <2>2. i \in Ids /\ Holds(ready, i)
    BY <2>1 DEF Queued, Holds
  <2> QED
    BY <2>2 DEF IInv, LagInv, Compete
<1> QED
  BY <1>1, CfsInvariant, PTL
=============================================================================
