--------------------------- MODULE CfsRefinesProofs ---------------------------
(***************************************************************************)
(* Cfs with equal weights and nobody asleep implements the round-robin     *)
(* policy: the queue then stays sorted by vruntime, so the scan for the    *)
(* smallest stops at the head, and a charged task goes to the end of the   *)
(* queue with an account nobody exceeds.                                   *)
(***************************************************************************)
EXTENDS CfsRefines, CfsProofs

EqualWeights == \A v, w \in Weights : v = w

NoNaps == \A i \in Ids : until[i] = 0

\* The queue is sorted by vruntime.
Sorted ==
  \A m, n \in DOMAIN ready : m <= n => vruntime[ready[m]] <= vruntime[ready[n]]

EqualInv == NoNaps /\ Sorted

\* What the two invariants say of the queue, place by place.
LEMMA QueuePlaces ==
  ASSUME IInv, NoNaps
  PROVE  /\ ready \in Seq(Ids) /\ Len(ready) \in Nat /\ DOMAIN ready = 1..Len(ready)
         /\ \A n \in DOMAIN ready :
              /\ ready[n] \in Ids /\ Holds(ready, ready[n]) /\ ready[n] # run
              /\ state[ready[n]] = "Ready" /\ ready[n] < nextId /\ vruntime[ready[n]] \in Nat
         /\ \A i \in Ids : state[i] # "Sleeping"
<1>1. TypeOK /\ QueueInv /\ TaskInv
  BY DEF IInv
<1>2. ready \in Seq(Ids) /\ Len(ready) \in Nat /\ DOMAIN ready = 1..Len(ready)
  BY <1>1, LenProperties DEF TypeOK
<1>3. \A n \in DOMAIN ready : ready[n] \in Ids /\ Holds(ready, ready[n])
  BY <1>2, ElementOfSeq DEF Holds
<1>4. \A i \in Ids : ~(until[i] > 0)
  BY DEF NoNaps
<1>5. \A i \in Ids : state[i] # "Sleeping"
  BY <1>1, <1>4 DEF TaskInv
<1>6. \A n \in DOMAIN ready : state[ready[n]] = "Ready" /\ ready[n] # run
  BY <1>1, <1>3, <1>5 DEF QueueInv
<1>7. \A n \in DOMAIN ready : ready[n] < nextId /\ vruntime[ready[n]] \in Nat
  BY <1>1, <1>3, SpawnedFacts
<1> QED
  BY <1>2, <1>3, <1>5, <1>6, <1>7

\* The scan stops at the head: with equal weights the task that has waited
\* longest is the first of the minimal ones.
LEMMA HeadIsPicked ==
  ASSUME IInv, EqualInv, NEW n \in DOMAIN ready, schedule_once(n)
  PROVE  /\ n = 1 /\ Len(ready) >= 1 /\ Clamped(ready[1]) = vruntime[ready[1]]
<1>1. NoNaps /\ Sorted
  BY DEF EqualInv
<1>2. /\ Len(ready) \in Nat /\ DOMAIN ready = 1..Len(ready)
      /\ \A m \in DOMAIN ready : ready[m] \in Ids /\ state[ready[m]] = "Ready" /\ vruntime[ready[m]] \in Nat
  BY <1>1, QueuePlaces
<1>3. 1 \in DOMAIN ready /\ n \in Nat /\ 1 <= n /\ Len(ready) >= 1
  BY <1>2
<1>4. vruntime[ready[1]] <= vruntime[ready[n]]
  BY <1>1, <1>3 DEF Sorted
<1>5. \/ vruntime[ready[n]] < vruntime[ready[1]]
      \/ vruntime[ready[n]] = vruntime[ready[1]] /\ n <= 1
  BY <1>2, <1>3 DEF schedule_once, pick_min, Awake
<1>6. n = 1
  BY <1>2, <1>3, <1>4, <1>5
<1>7. Clamped(ready[1]) = vruntime[ready[1]]
  BY <1>2, <1>3 DEF Clamped
<1> QED
  BY <1>3, <1>6, <1>7

\* Equal weights keep the queue sorted: whoever is charged for a step joins the
\* end of the queue with the largest vruntime.
LEMMA SortedStep ==
  ASSUME EqualWeights, MaxSleepers = 0, IInv, EqualInv, [Next]_vars
  PROVE  EqualInv'
<1>0. NoNaps /\ Sorted /\ TypeOK /\ QueueInv /\ TaskInv /\ LagInv
  BY DEF EqualInv, IInv
<1>1. /\ ready \in Seq(Ids) /\ Len(ready) \in Nat /\ DOMAIN ready = 1..Len(ready)
      /\ \A n \in DOMAIN ready :
           /\ ready[n] \in Ids /\ Holds(ready, ready[n]) /\ ready[n] # run
           /\ state[ready[n]] = "Ready" /\ ready[n] < nextId /\ vruntime[ready[n]] \in Nat
  BY <1>0, QueuePlaces
<1>2. ASSUME UNCHANGED <<ready, vruntime, until>> PROVE EqualInv'
  BY <1>0, <1>2 DEF EqualInv, NoNaps, Sorted
<1>3. ASSUME NEW w \in Weights, NEW u \in 0..MaxTick, spawn(w, u) PROVE EqualInv'
  <2>1. /\ ~started /\ nextId \in Ids /\ ready' = Append(ready, nextId)
        /\ until' = [until EXCEPT ![nextId] = u] /\ vruntime' = vruntime
        /\ u > 0 => Cardinality({i \in Ids : until[i] > 0}) < MaxSleepers
    BY <1>0, <1>3, CfsBoundsAssumption DEF spawn, TypeOK, Ids
  <2>2. u = 0
    <3> DEFINE naps == {k \in Ids : until[k] > 0}
    <3>1. naps = {}
      BY <1>0 DEF NoNaps
    <3>2. Cardinality(naps) = 0
      BY <3>1, FS_EmptySet
    <3>3. u > 0 => Cardinality(naps) < MaxSleepers
      BY <2>1
    <3> HIDE DEF naps
    <3> QED
      BY <3>2, <3>3, CfsBoundsAssumption
  <2>3. NoNaps'
    BY <1>0, <2>1, <2>2 DEF NoNaps, TypeOK
  <2>4. \A i \in Ids : vruntime'[i] = 0
    BY <1>0, <2>1 DEF TaskInv
  <2>5. \A n \in DOMAIN ready' : ready'[n] \in Ids
    <3>1. ready' \in Seq(Ids)
      BY <1>1, <2>1, AppendProperties
    <3> QED
      BY <3>1, LenProperties, ElementOfSeq
  <2> QED
    BY <2>3, <2>4, <2>5 DEF EqualInv, Sorted
<1>4. ASSUME NEW n \in DOMAIN ready, schedule_once(n) PROVE EqualInv'
  <2>1. n = 1 /\ Len(ready) >= 1 /\ Clamped(ready[1]) = vruntime[ready[1]]
    BY <1>4, HeadIsPicked
  <2>2. /\ ready' = RemoveAt(ready, 1) /\ UNCHANGED until
        /\ vruntime' = [vruntime EXCEPT ![ready[1]] = vruntime[ready[1]]]
    BY <1>4, <2>1 DEF schedule_once
  <2>3. vruntime' = vruntime
    BY <1>0, <2>2 DEF TypeOK
  <2>4. /\ DOMAIN RemoveAt(ready, 1) = 1..(Len(ready) - 1)
        /\ \A k \in 1..(Len(ready) - 1) : RemoveAt(ready, 1)[k] = ready[k + 1]
    BY <1>1, <2>1, FirstTakenOut
  <2>5. ASSUME NEW k \in DOMAIN ready', NEW l \in DOMAIN ready', k <= l
        PROVE  vruntime'[ready'[k]] <= vruntime'[ready'[l]]
    <3>1. k \in 1..(Len(ready) - 1) /\ l \in 1..(Len(ready) - 1)
      BY <2>2, <2>4
    <3>2. k + 1 \in DOMAIN ready /\ l + 1 \in DOMAIN ready /\ k + 1 <= l + 1
      BY <1>1, <2>5, <3>1
    <3>3. ready'[k] = ready[k + 1] /\ ready'[l] = ready[l + 1]
      BY <2>2, <2>4, <3>1
    <3> QED
      BY <1>0, <2>3, <3>2, <3>3 DEF Sorted
  <2> QED
    BY <1>0, <2>2, <2>5 DEF EqualInv, NoNaps, Sorted
<1>5. ASSUME EndTurn PROVE EqualInv'
  <2>1. /\ run # 0 /\ run \in Ids /\ run < nextId /\ until' = until
        /\ vruntime' = [vruntime EXCEPT ![run] = Accrued(run)]
        /\ ready' = Append(ready, run) \/ ready' = ready
    BY <1>0, <1>5, SpawnedFacts DEF EndTurn
  <2>2. vruntime'[run] = Accrued(run) /\ \A i \in Ids : i # run => vruntime'[i] = vruntime[i]
    BY <1>0, <2>1 DEF TypeOK
  <2>3. \A n \in DOMAIN ready : vruntime'[ready[n]] = vruntime[ready[n]]
    BY <1>1, <2>2
  <2>4. ASSUME NEW n \in DOMAIN ready PROVE vruntime[ready[n]] <= Accrued(run)
    <3>1. weight[ready[n]] \in Weights /\ weight[run] \in Weights
      BY <1>0, <1>1, <2>1, SpawnedFacts
    <3>2. Slice(ready[n]) = Slice(run)
      BY <3>1 DEF EqualWeights, Slice
    <3>3. vruntime[ready[n]] <= vruntime[run] + Slice(ready[n])
      <4>1. Compete(run, ready[n])
        BY <1>0, <1>1, <2>1 DEF Compete, NoNaps
      <4> QED
        BY <1>0, <1>1, <2>1, <4>1 DEF LagInv
    <3>4. vruntime[ready[n]] <= VMax
      BY <1>0, <1>1, SpawnedFacts
    <3> QED
      BY <3>2, <3>3, <3>4 DEF Accrued
  <2>5. Sorted'
    <3>1. CASE ready' = ready
      BY <1>0, <2>3, <3>1 DEF Sorted
    <3>2. CASE ready' = Append(ready, run)
      <4>1. /\ ready' \in Seq(Ids) /\ DOMAIN ready' = 1..(Len(ready) + 1)
            /\ \A k \in 1..Len(ready) : ready'[k] = ready[k]
            /\ ready'[Len(ready) + 1] = run
        <5>1. /\ Append(ready, run) \in Seq(Ids) /\ Len(Append(ready, run)) = Len(ready) + 1
              /\ \A k \in 1..Len(ready) : Append(ready, run)[k] = ready[k]
              /\ Append(ready, run)[Len(ready) + 1] = run
          BY <1>1, <2>1, AppendProperties
        <5> QED
          BY <3>2, <5>1, LenProperties
      <4> SUFFICES ASSUME NEW k \in DOMAIN ready', NEW l \in DOMAIN ready', k <= l
                   PROVE  vruntime'[ready'[k]] <= vruntime'[ready'[l]]
        BY DEF Sorted
      <4>2. CASE l <= Len(ready)
        <5>1. k \in DOMAIN ready /\ l \in DOMAIN ready /\ ready'[k] = ready[k] /\ ready'[l] = ready[l]
          BY <1>1, <4>1, <4>2
        <5> QED
          BY <1>0, <2>3, <5>1 DEF Sorted
      <4>3. CASE l > Len(ready) /\ k <= Len(ready)
        <5>1. k \in DOMAIN ready /\ ready'[k] = ready[k] /\ ready'[l] = run
          BY <1>1, <4>1, <4>3
        <5> QED
          BY <2>2, <2>3, <2>4, <5>1
      <4>4. CASE l > Len(ready) /\ k > Len(ready)
        <5>1. ready'[k] = run /\ ready'[l] = run
          BY <1>1, <4>1, <4>4
        <5>2. Accrued(run) \in Int
          BY <1>0, <2>1, SpawnedFacts, CfsBoundsAssumption DEF Accrued
        <5> QED
          BY <2>2, <5>1, <5>2
      <4> QED
        BY <1>1, <4>1, <4>2, <4>3, <4>4
    <3> QED
      BY <2>1, <3>1, <3>2
  <2> QED
    BY <1>0, <2>1, <2>5 DEF EqualInv, NoNaps
<1> QED
  BY <1>2, <1>3, <1>4, <1>5 DEF Next, Driver, Tick, NobodyAwake, StepReturns, vars

\* What the mapping shows of a state: the verdict of the turn.
LEMMA Verdicts ==
  /\ run = 0 => Verdict = "none"
  /\ run # 0 /\ state[run] = "Ready" => Verdict = "alive"
  /\ run # 0 /\ state[run] = "Finished" => Verdict = "finished"
  /\ state[run] \notin {"Ready", "Finished"} => Verdict = "none"
BY Zenon DEF Verdict

\* Every step of Cfs is a step of the round-robin policy, or does not show.
LEMMA RoundRobinStep ==
  ASSUME EqualWeights, MaxSleepers = 0, IInv, EqualInv, EqualInv', IInv',
         LedgerExact, [Next]_vars
  PROVE  [Policy!Next]_(Policy!vars)
<1> DEFINE asleep == {i \in Queued : state[i] = "Sleeping"}
           done == {i \in Ids : state[i] = "Dropped"}
<1>0. NoNaps /\ Sorted /\ TypeOK /\ QueueInv /\ TaskInv
  BY DEF EqualInv, IInv
<1>1. /\ ready \in Seq(Ids) /\ Len(ready) \in Nat /\ DOMAIN ready = 1..Len(ready)
      /\ \A n \in DOMAIN ready :
           /\ ready[n] \in Ids /\ Holds(ready, ready[n]) /\ ready[n] # run
           /\ state[ready[n]] = "Ready" /\ ready[n] < nextId
  BY <1>0, QueuePlaces
<1>2. /\ run = 0 => Verdict = "none"
      /\ run # 0 /\ state[run] = "Ready" => Verdict = "alive"
      /\ run # 0 /\ state[run] = "Finished" => Verdict = "finished"
      /\ state[run] \notin {"Ready", "Finished"} => Verdict = "none"
  BY Verdicts
<1>3. /\ run' = 0 => Verdict' = "none"
      /\ run' # 0 /\ state'[run'] = "Ready" => Verdict' = "alive"
      /\ run' # 0 /\ state'[run'] = "Finished" => Verdict' = "finished"
      /\ state'[run'] \notin {"Ready", "Finished"} => Verdict' = "none"
  BY Zenon DEF Verdict
<1>4. asleep = {} /\ asleep' = {}
  <2>1. \A i \in Queued : i \in Ids /\ state[i] # "Sleeping"
    BY <1>1 DEF Queued
  <2>2. \A i \in Ids : ~(until'[i] > 0)
    BY DEF EqualInv, NoNaps
  <2>3. \A i \in Ids : state'[i] # "Sleeping"
    BY <2>2 DEF IInv, TaskInv
  <2>4. \A i \in Queued' : i \in Ids
    BY ElementOfSeq DEF IInv, TypeOK, Queued
  <2> QED
    BY <2>1, <2>3, <2>4
<1>5. ASSUME UNCHANGED <<ready, run, state, runs>> PROVE UNCHANGED Policy!vars
  BY <1>5 DEF Policy!vars, Verdict, Queued
<1>6. ASSUME NEW w \in Weights, NEW u \in 0..MaxTick, spawn(w, u) PROVE Policy!Next
  <2>1. /\ ~started /\ nextId \in Ids /\ ready' = Append(ready, nextId)
        /\ state' = [state EXCEPT ![nextId] = IF u = 0 THEN "Ready" ELSE "Sleeping"]
        /\ UNCHANGED <<run, runs>>
    BY <1>0, <1>6, CfsBoundsAssumption DEF spawn, TypeOK, Ids
  <2>2. run = 0 /\ runs[nextId] = 0 /\ nextId # 0
    BY <1>0, <2>1 DEF TaskInv, Ids
  <2>3. state[nextId] = "Unborn"
    BY <1>0, <2>1 DEF QueueInv, TypeOK
  <2>4. nextId \notin {ready[n] : n \in DOMAIN ready} \cup done \cup {run}
    BY <1>1, <2>2, <2>3
  <2>5. done' = done
    BY <1>0, <2>1, <2>3 DEF TypeOK
  <2>6. Verdict' = Verdict
    BY <1>2, <1>3, <2>1, <2>2
  <2>7. PICK i \in Ids : i = nextId
    BY <2>1
  <2>8. Policy!Join(i)
    BY <1>4, <2>1, <2>2, <2>4, <2>5, <2>6, <2>7 DEF Policy!Join, Policy!Waiting
  <2> QED
    BY <2>7, <2>8 DEF Policy!Next
<1>7. ASSUME NEW n \in DOMAIN ready, schedule_once(n) PROVE Policy!Next
  <2>1. n = 1 /\ Len(ready) >= 1
    BY <1>7, HeadIsPicked
  <2>2. /\ run = 0 /\ run' = ready[1] /\ ready' = RemoveAt(ready, 1)
        /\ state' = [state EXCEPT ![ready[1]] = "Running"] /\ runs' = runs
    BY <1>7, <2>1 DEF schedule_once
  <2>3. ready' = SubSeq(ready, 1 + 1, Len(ready)) \o SubSeq(ready, 1, 1 - 1)
    BY <1>1, <2>1, <2>2, FirstTakenOut
  <2>4. 1 \in DOMAIN ready /\ ready[1] \in Ids /\ state[ready[1]] = "Ready"
    BY <1>1, <2>1
  <2>5. state'[run'] = "Running" /\ done' = done
    BY <1>0, <2>2, <2>4 DEF TypeOK
  <2>6. Verdict = "none" /\ Verdict' = "none"
    BY <1>2, <1>3, <2>2, <2>5
  <2>7. \A m \in 1..1 - 1 : ready[m] \in asleep
    OBVIOUS
  <2>8. Policy!Grant(1)
    BY <1>4, <2>2, <2>3, <2>5, <2>6, <2>7 DEF Policy!Grant
  <2> QED
    BY <2>4, <2>8 DEF Policy!Next
<1>8. ASSUME NEW alive \in BOOLEAN, StepReturns(alive) PROVE Policy!Next
  <2>1. /\ run # 0 /\ state[run] = "Running" /\ UNCHANGED <<ready, run>>
        /\ state' = [state EXCEPT ![run] = IF alive THEN "Ready" ELSE "Finished"]
        /\ runs' = [runs EXCEPT ![run] = IF @ < MaxRuns THEN @ + 1 ELSE @]
    BY <1>8 DEF StepReturns
  <2>2. run \in Ids /\ runs[run] < MaxRuns
    BY <1>0, <2>1, SpawnedFacts DEF LedgerExact
  <2>3. runs' = [runs EXCEPT ![run] = @ + 1]
    BY <2>1, <2>2
  <2>4. state'[run] \in {"Ready", "Finished"} /\ done' = done
    BY <1>0, <2>1, <2>2 DEF TypeOK
  <2>5. Verdict = "none" /\ Verdict' \in {"alive", "finished"}
    BY <1>2, <1>3, <2>1, <2>4
  <2>6. Policy!Step
    BY <1>4, <2>1, <2>3, <2>4, <2>5, Zenon DEF Policy!Step
  <2> QED
    BY <2>6 DEF Policy!Next
<1>9. ASSUME EndTurn PROVE Policy!Next
  <2>1. run # 0 /\ run' = 0 /\ runs' = runs /\ run \in Ids
    BY <1>0, <1>9, SpawnedFacts DEF EndTurn
  <2>2. \/ state[run] = "Ready" /\ ready' = Append(ready, run) /\ state' = state
        \/ state[run] = "Finished" /\ state' = [state EXCEPT ![run] = "Dropped"] /\ ready' = ready
    BY <1>9 DEF EndTurn
  <2>3. Verdict' = "none"
    BY <1>3, <2>1
  <2>4. CASE state[run] = "Ready"
    <3>1. Verdict = "alive" /\ ready' = Append(ready, run) /\ state' = state
      BY <1>2, <2>1, <2>2, <2>4
    <3>2. Policy!EndTurn
      BY <1>4, <2>1, <2>3, <3>1 DEF Policy!EndTurn
    <3> QED
      BY <3>2 DEF Policy!Next
  <2>5. CASE state[run] = "Finished"
    <3>1. Verdict = "finished" /\ ready' = ready /\ state' = [state EXCEPT ![run] = "Dropped"]
      BY <1>2, <2>1, <2>2, <2>5
    <3>2. done' = done \cup {run}
      BY <1>0, <2>1, <3>1 DEF TypeOK
    <3>3. Policy!EndTurn
      BY <1>4, <2>1, <2>3, <3>1, <3>2 DEF Policy!EndTurn
    <3> QED
      BY <3>3 DEF Policy!Next
  <2> QED
    BY <2>2, <2>4, <2>5
<1> QED
  BY <1>5, <1>6, <1>7, <1>8, <1>9 DEF Next, Driver, Tick, NobodyAwake, vars

\* "Equal weights accrue equally (CFS degenerates to fair round-robin)"
\* (task.rs:935): with equal weights and nobody asleep Cfs implements the
\* round-robin policy, for every quantum, weight and number of tasks, for as
\* long as the ledger is exact.
THEOREM EqualWeightsRefine ==
  ASSUME EqualWeights, MaxSleepers = 0
  PROVE  Spec /\ []LedgerExact => EqualWeightsAreRoundRobin
<1>1. Init => Policy!Init
  BY DEF Init, Policy!Init, Verdict, Queued
<1>2. Init => EqualInv
  BY DEF Init, EqualInv, NoNaps, Sorted
<1>3. IInv /\ EqualInv /\ [Next]_vars => EqualInv'
  BY SortedStep
<1>4. Spec => []EqualInv
  BY <1>2, <1>3, CfsInvariant, PTL DEF Spec
<1>5. IInv /\ EqualInv /\ EqualInv' /\ IInv' /\ LedgerExact /\ [Next]_vars
        => [Policy!Next]_(Policy!vars)
  BY RoundRobinStep
<1> QED
  BY <1>1, <1>4, <1>5, CfsInvariant, PTL DEF Spec, Policy!Spec, EqualWeightsAreRoundRobin
=============================================================================
