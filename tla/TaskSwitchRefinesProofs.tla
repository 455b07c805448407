----------------------- MODULE TaskSwitchRefinesProofs -----------------------
(***************************************************************************)
(* The switch path implements the round-robin policy for every number of   *)
(* slots, stacks, tasks and ticks: every step of TaskSwitch is, under the  *)
(* mapping of TaskSwitchRefines, one step of RoundRobin or none.  IInv of  *)
(* TaskSwitch does not mention the pass of schedule_once; PassInv does.    *)
(***************************************************************************)
EXTENDS TaskSwitchRefines, TaskSwitchProofs, SequenceTheorems

\* A queue whose last Len(s) - k entries are put back at its front.
Turned(s, k) == SubSeq(s, k + 1, Len(s)) \o SubSeq(s, 1, k)

\* The places of a turned queue.
LEMMA TurnedPlaces ==
  ASSUME NEW S, NEW s \in Seq(S), NEW k \in 0..Len(s)
  PROVE  /\ Turned(s, k) \in Seq(S) /\ Len(Turned(s, k)) = Len(s)
         /\ \A m \in 1..Len(s) - k : Turned(s, k)[m] = s[k + m]
         /\ \A m \in Len(s) - k + 1..Len(s) : Turned(s, k)[m] = s[m - (Len(s) - k)]
<1> DEFINE a == SubSeq(s, k + 1, Len(s))
           b == SubSeq(s, 1, k)
           x == k + 1
<1>1. Len(s) \in Nat /\ k \in Nat /\ k <= Len(s) /\ x \in Nat /\ x = k + 1
  OBVIOUS
<1>2. \A m \in 1..Len(s) : s[m] \in S
  OBVIOUS
<1>3. a \in Seq(S) /\ Len(a) = Len(s) - k /\ \A m \in 1..Len(s) - k : a[m] = s[k + m]
  <2> HIDE DEF x
  <2>1. x \in 1..Len(s) + 1 /\ \A i \in x..Len(s) : s[i] \in S
    BY <1>1, <1>2
  <2>2. /\ SubSeq(s, x, Len(s)) \in Seq(S)
        /\ Len(SubSeq(s, x, Len(s))) = IF x <= Len(s) THEN Len(s) - x + 1 ELSE 0
        /\ \A m \in 1..Len(s) - x + 1 : SubSeq(s, x, Len(s))[m] = s[x + m - 1]
    BY <1>1, <1>2, <2>1, SubSeqProperties
  <2> QED
    BY <1>1, <2>2
<1>4. b \in Seq(S) /\ Len(b) = k /\ \A m \in 1..k : b[m] = s[m]
  <2>1. /\ SubSeq(s, 1, k) \in Seq(S)
        /\ Len(SubSeq(s, 1, k)) = IF 1 <= k THEN k - 1 + 1 ELSE 0
        /\ \A m \in 1..k - 1 + 1 : SubSeq(s, 1, k)[m] = s[1 + m - 1]
    BY <1>1, <1>2, SubSeqProperties
  <2> QED
    BY <1>1, <2>1
<1> HIDE DEF a, b
<1>5. /\ a \o b \in Seq(S) /\ Len(a \o b) = Len(a) + Len(b)
      /\ \A m \in 1..Len(a) + Len(b) :
           (a \o b)[m] = IF m <= Len(a) THEN a[m] ELSE b[m - Len(a)]
  BY <1>3, <1>4, ConcatProperties
<1>6. Turned(s, k) = a \o b
  BY DEF Turned, a, b
<1>7. Turned(s, k) \in Seq(S) /\ Len(Turned(s, k)) = Len(s)
  <2>1. Len(a) + Len(b) = Len(s)
    BY <1>1, <1>3, <1>4
  <2> QED
    BY <1>5, <1>6, <2>1, Zenon
<1>8. \A m \in 1..Len(s) - k : Turned(s, k)[m] = s[k + m]
  BY <1>1, <1>3, <1>4, <1>5, <1>6
<1>9. \A m \in Len(s) - k + 1..Len(s) : Turned(s, k)[m] = s[m - (Len(s) - k)]
  BY <1>1, <1>3, <1>4, <1>5, <1>6
<1> QED
  BY <1>7, <1>8, <1>9

\* Before the first and after the last pass the turned queue is the queue.
LEMMA TurnedWhole ==
  ASSUME NEW S, NEW s \in Seq(S)
  PROVE  Turned(s, 0) = s /\ Turned(s, Len(s)) = s
<1>1. Len(s) \in Nat /\ 0 \in 0..Len(s) /\ Len(s) \in 0..Len(s)
  OBVIOUS
<1> DEFINE z == 0
<1>2. z \in 0..Len(s) /\ z = 0
  BY <1>1
<1> HIDE DEF z
<1>3. /\ Turned(s, z) \in Seq(S) /\ Len(Turned(s, z)) = Len(s)
      /\ \A m \in 1..Len(s) - z : Turned(s, z)[m] = s[z + m]
  BY <1>2, TurnedPlaces
<1>4. Turned(s, z) = s
  BY <1>1, <1>2, <1>3, SeqEqual
<1>5. /\ Turned(s, Len(s)) \in Seq(S) /\ Len(Turned(s, Len(s))) = Len(s)
      /\ \A m \in Len(s) - Len(s) + 1..Len(s) :
           Turned(s, Len(s))[m] = s[m - (Len(s) - Len(s))]
  BY <1>1, TurnedPlaces
<1>6. Turned(s, Len(s)) = s
  BY <1>1, <1>5, SeqEqual
<1> QED
  BY <1>2, <1>4, <1>6

\* pop_front and push_back of the head is one pass: the turned queue stays.
LEMMA TurnedSkip ==
  ASSUME NEW S, NEW s \in Seq(S), NEW k \in 1..Len(s)
  PROVE  Turned(Append(Tail(s), Head(s)), k - 1) = Turned(s, k)
<1> DEFINE r == Append(Tail(s), Head(s))
           j == k - 1
<1>1. /\ Len(s) \in Nat /\ Len(s) > 0 /\ k \in Nat /\ 1 <= k /\ k <= Len(s)
      /\ j \in Nat /\ j = k - 1
  OBVIOUS
<1>2. /\ r \in Seq(S) /\ Len(r) = Len(s) /\ r[Len(s)] = s[1]
      /\ \A m \in 1..Len(s) - 1 : r[m] = s[m + 1]
  <2>1. /\ Head(s) \in S /\ Head(s) = s[1] /\ Tail(s) \in Seq(S)
        /\ Len(Tail(s)) = Len(s) - 1
        /\ \A m \in 1..Len(s) - 1 : Tail(s)[m] = s[m + 1]
    BY <1>1, TailFacts
  <2>2. /\ r \in Seq(S) /\ Len(r) = Len(Tail(s)) + 1
        /\ \A m \in 1..Len(Tail(s)) : r[m] = Tail(s)[m]
        /\ r[Len(Tail(s)) + 1] = Head(s)
    BY <2>1, AppendFacts
  <2> QED
    BY <1>1, <2>1, <2>2
<1> HIDE DEF r, j
<1>3. j \in 0..Len(r)
  BY <1>1, <1>2
<1>4. /\ Turned(r, j) \in Seq(S) /\ Len(Turned(r, j)) = Len(r)
      /\ \A m \in 1..Len(r) - j : Turned(r, j)[m] = r[j + m]
      /\ \A m \in Len(r) - j + 1..Len(r) : Turned(r, j)[m] = r[m - (Len(r) - j)]
  BY <1>2, <1>3, TurnedPlaces
<1>5. /\ Turned(s, k) \in Seq(S) /\ Len(Turned(s, k)) = Len(s)
      /\ \A m \in 1..Len(s) - k : Turned(s, k)[m] = s[k + m]
      /\ \A m \in Len(s) - k + 1..Len(s) : Turned(s, k)[m] = s[m - (Len(s) - k)]
  BY <1>1, TurnedPlaces
<1>6. ASSUME NEW m \in 1..Len(s) PROVE Turned(r, j)[m] = Turned(s, k)[m]
  <2>1. CASE m <= Len(s) - k
    <3>1. Turned(s, k)[m] = s[k + m]
      BY <1>1, <1>5, <2>1
    <3>2. Turned(r, j)[m] = r[j + m]
      BY <1>1, <1>2, <1>4, <2>1
    <3>3. j + m \in 1..Len(s) - 1 /\ j + m + 1 = k + m
      BY <1>1, <2>1
    <3> QED
      BY <1>2, <3>1, <3>2, <3>3
  <2>2. CASE m = Len(s) - k + 1
    <3>1. Turned(s, k)[m] = s[1]
      <4>1. m \in Len(s) - k + 1..Len(s) /\ m - (Len(s) - k) = 1
        BY <1>1, <2>2
      <4> QED
        BY <1>5, <4>1
    <3>2. Turned(r, j)[m] = r[Len(s)]
      <4>1. m \in 1..Len(r) - j /\ j + m = Len(s)
        BY <1>1, <1>2, <2>2
      <4> QED
        BY <1>4, <4>1
    <3> QED
      BY <1>2, <3>1, <3>2
  <2>3. CASE m > Len(s) - k + 1
    <3>1. Turned(s, k)[m] = s[m - (Len(s) - k)]
      BY <1>1, <1>5, <2>3
    <3>2. Turned(r, j)[m] = r[m - (Len(r) - j)]
      BY <1>1, <1>2, <1>4, <2>3
    <3>3. /\ m - (Len(r) - j) \in 1..Len(s) - 1
          /\ m - (Len(r) - j) + 1 = m - (Len(s) - k)
      BY <1>1, <1>2, <2>3
    <3> QED
      BY <1>2, <3>1, <3>2, <3>3
  <2> QED
    BY <1>1, <2>1, <2>2, <2>3
<1>7. Turned(r, j) = Turned(s, k)
  BY <1>2, <1>4, <1>5, <1>6, SeqEqual
<1> QED
  BY <1>7 DEF r, j

\* The place of the head of the queue in the turned queue.
Place(s, k) == Len(s) - k + 1

\* The head of the queue stands behind the entries put back, and without it
\* the two parts, swapped, are the rest of the queue.
LEMMA TurnedPick ==
  ASSUME NEW S, NEW s \in Seq(S), NEW k \in 1..Len(s)
  PROVE  /\ Place(s, k) \in DOMAIN Turned(s, k) /\ Turned(s, k)[Place(s, k)] = Head(s)
         /\ \A m \in 1..Place(s, k) - 1 : Turned(s, k)[m] = s[k + m]
         /\ SubSeq(Turned(s, k), Place(s, k) + 1, Len(Turned(s, k)))
              \o SubSeq(Turned(s, k), 1, Place(s, k) - 1) = Tail(s)
<1> DEFINE t == Turned(s, k)
           n == Place(s, k)
           j == n - 1
<1>1. /\ Len(s) \in Nat /\ Len(s) > 0 /\ k \in Nat /\ 1 <= k /\ k <= Len(s)
      /\ n \in Nat /\ n = Len(s) - k + 1 /\ 1 <= n /\ n <= Len(s)
  BY DEF Place
<1> HIDE DEF n
<1>2. /\ t \in Seq(S) /\ Len(t) = Len(s)
      /\ \A m \in 1..Len(s) - k : t[m] = s[k + m]
      /\ \A m \in Len(s) - k + 1..Len(s) : t[m] = s[m - (Len(s) - k)]
  BY <1>1, TurnedPlaces
<1> HIDE DEF t
<1>3. n \in DOMAIN t /\ t[n] = Head(s)
  <2>1. n \in Len(s) - k + 1..Len(s) /\ n - (Len(s) - k) = 1
    BY <1>1
  <2>2. t[n] = s[1]
    BY <1>2, <2>1
  <2> QED
    BY <1>1, <1>2, <2>2, TailFacts
<1>4. \A m \in 1..n - 1 : t[m] = s[k + m]
  BY <1>1, <1>2
<1>5. /\ Tail(s) \in Seq(S) /\ Len(Tail(s)) = Len(s) - 1
      /\ \A m \in 1..Len(s) - 1 : Tail(s)[m] = s[m + 1]
  BY <1>1, TailFacts
<1> DEFINE u == SubSeq(t, n + 1, Len(t))
           v == SubSeq(t, 1, j)
           x == n + 1
<1>6. \A m \in 1..Len(t) : t[m] \in S
  BY <1>2
<1>7. j \in Nat /\ j = Len(s) - k /\ x \in Nat /\ x = n + 1
  BY <1>1
<1>8. u \in Seq(S) /\ Len(u) = k - 1 /\ \A m \in 1..k - 1 : u[m] = s[m + 1]
  <2> HIDE DEF x
  <2>1. x \in 1..Len(t) + 1 /\ \A i \in x..Len(t) : t[i] \in S
    BY <1>1, <1>2, <1>6, <1>7
  <2>2. /\ SubSeq(t, x, Len(t)) \in Seq(S)
        /\ Len(SubSeq(t, x, Len(t))) = IF x <= Len(t) THEN Len(t) - x + 1 ELSE 0
        /\ \A m \in 1..Len(t) - x + 1 : SubSeq(t, x, Len(t))[m] = t[x + m - 1]
    BY <1>2, <1>7, <2>1, SubSeqProperties
  <2>3. u \in Seq(S) /\ Len(u) = k - 1 /\ \A m \in 1..k - 1 : u[m] = t[n + m]
    BY <1>1, <1>2, <1>7, <2>2
  <2>4. ASSUME NEW m \in 1..k - 1 PROVE t[n + m] = s[m + 1]
    <3>1. PICK p : p = n + m
      OBVIOUS
    <3>2. p \in Len(s) - k + 1..Len(s) /\ p - (Len(s) - k) = m + 1
      BY <1>1, <3>1
    <3>3. t[p] = s[p - (Len(s) - k)]
      BY <1>2, <3>2
    <3> QED
      BY <3>1, <3>2, <3>3
  <2> QED
    BY <2>3, <2>4
<1>9. v \in Seq(S) /\ Len(v) = Len(s) - k /\ \A m \in 1..Len(s) - k : v[m] = s[k + m]
  <2> HIDE DEF j
  <2>1. /\ SubSeq(t, 1, j) \in Seq(S)
        /\ Len(SubSeq(t, 1, j)) = IF 1 <= j THEN j - 1 + 1 ELSE 0
        /\ \A m \in 1..j - 1 + 1 : SubSeq(t, 1, j)[m] = t[1 + m - 1]
    BY <1>1, <1>2, <1>6, <1>7, SubSeqProperties
  <2> QED
    BY <1>1, <1>2, <1>7, <2>1
<1> HIDE DEF u, v
<1>10. /\ u \o v \in Seq(S) /\ Len(u \o v) = Len(u) + Len(v)
       /\ \A m \in 1..Len(u) + Len(v) :
            (u \o v)[m] = IF m <= Len(u) THEN u[m] ELSE v[m - Len(u)]
  BY <1>8, <1>9, ConcatProperties, Zenon
<1>11. Len(u) + Len(v) = Len(s) - 1
  BY <1>1, <1>8, <1>9
<1>12. ASSUME NEW m \in 1..Len(s) - 1 PROVE (u \o v)[m] = Tail(s)[m]
  <2>1. CASE m <= k - 1
    BY <1>1, <1>5, <1>8, <1>10, <1>11, <2>1
  <2>2. CASE m > k - 1
    <3>1. m - (k - 1) \in 1..Len(s) - k /\ k + (m - (k - 1)) = m + 1
      BY <1>1, <2>2
    <3>2. v[m - (k - 1)] = s[m + 1]
      BY <1>9, <3>1
    <3> QED
      BY <1>1, <1>5, <1>8, <1>10, <1>11, <2>2, <3>2
  <2>3. m <= k - 1 \/ m > k - 1
    BY <1>1
  <2> QED
    BY <2>1, <2>2, <2>3, Zenon
<1>13. u \o v = Tail(s)
  BY <1>1, <1>5, <1>10, <1>11, <1>12, SeqEqual, Zenon
<1> QED
  BY <1>3, <1>4, <1>13, Zenon DEF t, u, v, n

\* push_back adds the task to those that wait.
LEMMA PushedElements ==
  ASSUME NEW S, NEW q \in Seq(S), NEW x \in S, NEW r, r = Append(q, x)
  PROVE  {r[n] : n \in DOMAIN r} = {q[n] : n \in DOMAIN q} \cup {x}
<1>1. /\ DOMAIN q = 1..Len(q) /\ DOMAIN r = 1..Len(q) + 1 /\ Len(q) \in Nat
      /\ \A n \in 1..Len(q) : r[n] = q[n]
      /\ r[Len(q) + 1] = x
  BY AppendFacts
<1>2. ASSUME NEW n \in DOMAIN r PROVE r[n] \in {q[m] : m \in DOMAIN q} \cup {x}
  <2>1. CASE n = Len(q) + 1
    BY <1>1, <2>1
  <2>2. CASE n # Len(q) + 1
    <3>1. n \in 1..Len(q)
      BY <1>1, <2>2
    <3> QED
      BY <1>1, <3>1
  <2> QED
    BY <2>1, <2>2
<1>3. ASSUME NEW n \in DOMAIN q PROVE q[n] \in {r[m] : m \in DOMAIN r}
  <2>1. n \in DOMAIN r /\ r[n] = q[n]
    BY <1>1
  <2> QED
    BY <2>1
<1>4. x \in {r[m] : m \in DOMAIN r}
  <2>1. Len(q) + 1 \in DOMAIN r
    BY <1>1
  <2> QED
    BY <1>1, <2>1
<1> QED
  BY <1>2, <1>3, <1>4

\* pop_front takes the head, and only the head, from those that wait.
LEMMA TailElements ==
  ASSUME NEW S, NEW s \in Seq(S), s # <<>>
  PROVE  {Tail(s)[n] : n \in DOMAIN Tail(s)} \cup {Head(s)} = {s[n] : n \in DOMAIN s}
<1>1. Len(s) > 0
  OBVIOUS
<1>2. /\ Head(s) = s[1] /\ DOMAIN s = 1..Len(s) /\ DOMAIN Tail(s) = 1..Len(s) - 1
      /\ Len(s) \in Nat /\ \A n \in 1..Len(s) - 1 : Tail(s)[n] = s[n + 1]
  BY <1>1, TailFacts
<1>3. ASSUME NEW n \in DOMAIN s
      PROVE  s[n] \in {Tail(s)[m] : m \in DOMAIN Tail(s)} \cup {s[1]}
  <2>1. CASE n = 1
    BY <2>1
  <2>2. CASE n # 1
    <3>1. n - 1 \in 1..Len(s) - 1 /\ (n - 1) + 1 = n
      BY <1>2, <2>2
    <3>2. n - 1 \in DOMAIN Tail(s) /\ Tail(s)[n - 1] = s[n]
      BY <1>2, <3>1
    <3> QED
      BY <3>2
  <2> QED
    BY <2>1, <2>2
<1>4. ASSUME NEW n \in DOMAIN Tail(s) PROVE Tail(s)[n] \in {s[m] : m \in DOMAIN s}
  <2>1. n + 1 \in DOMAIN s /\ Tail(s)[n] = s[n + 1]
    BY <1>2
  <2> QED
    BY <2>1
<1>5. s[1] \in {s[m] : m \in DOMAIN s}
  <2>1. 1 \in DOMAIN s
    BY <1>1, <1>2
  <2> QED
    BY <2>1
<1> QED
  BY <1>2, <1>3, <1>4, <1>5

-----------------------------------------------------------------------------
\* The pass of schedule_once: what it has pushed back is asleep; outside it no
\* pass is left to do.  A task that never ran a step has none on its account.
PassInv ==
  /\ pc # "pick" => left = 0
  /\ pc = "pick" => \A m \in DOMAIN ready : m > left => state[ready[m]] = "Sleeping"
  /\ \A i \in Ids : state[i] = "Unborn" => runs[i] = 0
  /\ pc \in Spawning => runs[run] = 0

\* The steps of the driver, the trampoline and the stub that touch neither the
\* queue nor a task's state or account.
Elsewhere ==
  /\ UNCHANGED <<ready, left, run, state, runs>>
  /\ pc \in Spawning <=> pc' \in Spawning
  /\ pc = "pick" <=> pc' = "pick"

\* Every step is one of the seven the policy or the pass can tell apart.
LEMMA StepKinds ==
  ASSUME [Next]_vars
  PROVE  \/ Elsewhere
         \/ \E w \in Windows, s \in Slots, st \in {"Ready", "Sleeping"}, u \in 0..MaxTick :
              NewTask(w, st, u, s)
         \/ spawn \/ schedule_once \/ AllAsleep \/ SkipSleeper \/ PickTask
         \/ (\E alive \in BOOLEAN : StepReturns(alive))
         \/ Requeue \/ DropTask
<1>1. CASE Create
  BY <1>1, BoundsAssumption DEF Create
<1>2. CASE UNCHANGED vars \/ NothingQueued \/ Halted \/ lapic_preempt_stub
  BY <1>2 DEF Elsewhere, vars, NothingQueued, Halted, lapic_preempt_stub, tcb, queue
<1>3. CASE RefuseTask \/ SetBit \/ set_slot_bounds
  BY <1>3, Zenon DEF Elsewhere, RefuseTask, SetBit, set_slot_bounds, Goto, Panic, Spawning, tcb, queue
<1>4. CASE set_current \/ set_rsp0 \/ Cli \/ SwitchIn \/ SwitchOut \/ DriverSti
  BY <1>4 DEF Elsewhere, set_current, set_rsp0, Cli, SwitchIn, SwitchOut, DriverSti, Goto,
     Spawning, tcb, queue
<1>5. CASE ResolveTask \/ CanaryTrashed \/ set_preemptible \/ StepOverflows \/ StepPanics
  BY <1>5, Zenon DEF Elsewhere, ResolveTask, CurrentTaskPanics, current_task, CanaryTrashed,
     set_preemptible, StepOverflows, StepPanics, Goto, Panic, Spawning, tcb, queue
<1>6. CASE Retire \/ FrameInvalid \/ clear_task_ptr \/ unregister_task \/ ClearBit \/ PanicCli
  BY <1>6, Zenon DEF Elsewhere, Retire, FrameInvalid, clear_task_ptr, unregister_task, WipeFrame,
     NeverRegistered, ClearBit, PanicCli, Goto, Panic, Spawning, tcb, queue
<1> QED
  BY <1>1, <1>2, <1>3, <1>4, <1>5, <1>6 DEF Next, Cpu

\* The types of the variables the policy sees.
LEMMA PolicyTypes ==
  ASSUME IInv
  PROVE  /\ ready \in Seq(Ids) /\ Len(ready) \in Nat /\ DOMAIN ready = 1..Len(ready)
         /\ left \in 0..Len(ready) /\ run \in 0..MaxId /\ nextId \in 1..MaxId + 1
         /\ state \in [Ids -> TaskStates \cup {"Unborn", "Dropped"}]
         /\ runs \in [Ids -> Nat]
<1>1. QueueType /\ ControlType /\ TaskType
  BY DEF IInv, TypeOK
<1>2. ready \in Seq(Ids) /\ left \in 0..Len(ready)
  BY <1>1 DEF QueueType
<1>3. Len(ready) \in Nat /\ DOMAIN ready = 1..Len(ready)
  BY <1>2
<1>4. run \in 0..MaxId /\ nextId \in 1..MaxId + 1
  BY <1>1, Zenon DEF ControlType
<1>5. state \in [Ids -> TaskStates \cup {"Unborn", "Dropped"}] /\ runs \in [Ids -> Nat]
  BY <1>1 DEF TaskType
<1> QED
  BY <1>2, <1>3, <1>4, <1>5

\* PassInv is inductive relative to IInv.
LEMMA PassStep ==
  ASSUME IInv, PassInv, [Next]_vars
  PROVE  PassInv'
<1>0. /\ ready \in Seq(Ids) /\ Len(ready) \in Nat /\ DOMAIN ready = 1..Len(ready)
      /\ left \in 0..Len(ready) /\ run \in 0..MaxId /\ nextId \in 1..MaxId + 1
      /\ state \in [Ids -> TaskStates \cup {"Unborn", "Dropped"}] /\ runs \in [Ids -> Nat]
  BY PolicyTypes
<1>1. CASE Elsewhere
  BY <1>1 DEF Elsewhere, PassInv
<1>2. ASSUME NEW w \in Windows, NEW s \in Slots, NEW st \in {"Ready", "Sleeping"},
             NEW u \in 0..MaxTick, NewTask(w, st, u, s)
      PROVE  PassInv'
  <2>1. /\ pc = "driver" /\ pc' = "set_bit" /\ nextId \in Ids /\ run' = nextId
        /\ state' = [state EXCEPT ![nextId] = st] /\ UNCHANGED <<ready, left, runs>>
    BY <1>0, <1>2, BoundsAssumption DEF NewTask, Goto, queue, Ids
  <2>2. state[nextId] = "Unborn"
    BY <1>0, <2>1 DEF IInv, LifeInv
  <2> QED
    BY <1>0, <2>1, <2>2 DEF PassInv, Spawning
<1>3. CASE spawn
  BY <1>3 DEF spawn, Goto, PassInv, Spawning, tcb
<1>4. CASE schedule_once
  BY <1>0, <1>4 DEF schedule_once, Goto, PassInv, Spawning, tcb
<1>5. CASE AllAsleep
  BY <1>5 DEF AllAsleep, Goto, PassInv, Spawning, tcb, queue
<1>6. CASE SkipSleeper
  <2>1. /\ pc = "pick" /\ left > 0 /\ state[Head(ready)] = "Sleeping"
        /\ ready' = Append(Tail(ready), Head(ready)) /\ left' = left - 1
        /\ UNCHANGED <<pc, state, runs, run>>
    BY <1>6 DEF SkipSleeper, Asleep, tcb
  <2>2. Len(ready) > 0
    BY <1>0, <2>1
  <2>3. /\ Head(ready) \in Ids /\ Head(ready) = ready[1] /\ Tail(ready) \in Seq(Ids)
        /\ Len(Tail(ready)) = Len(ready) - 1
        /\ \A n \in 1..Len(ready) - 1 : Tail(ready)[n] = ready[n + 1]
    BY <1>0, <2>2, TailFacts
  <2>4. /\ DOMAIN ready' = 1..Len(Tail(ready)) + 1
        /\ \A n \in 1..Len(Tail(ready)) : ready'[n] = Tail(ready)[n]
        /\ ready'[Len(Tail(ready)) + 1] = Head(ready)
    BY <2>1, <2>3, AppendFacts
  <2>5. /\ DOMAIN ready' = 1..Len(ready) /\ ready'[Len(ready)] = Head(ready)
        /\ \A n \in 1..Len(ready) - 1 : ready'[n] = ready[n + 1]
    BY <1>0, <2>3, <2>4
  <2>6. ASSUME NEW m \in DOMAIN ready', m > left' PROVE state[ready'[m]] = "Sleeping"
    <3>1. CASE m = Len(ready)
      BY <2>1, <2>5, <3>1
    <3>2. CASE m # Len(ready)
      <4>1. m \in 1..Len(ready)
        BY <2>5
      <4>2. m \in 1..Len(ready) - 1 /\ m + 1 \in 1..Len(ready)
        BY <1>0, <3>2, <4>1
      <4>3. m + 1 > left
        BY <1>0, <2>1, <2>6, <4>1
      <4>4. state[ready[m + 1]] = "Sleeping"
        BY <1>0, <2>1, <4>2, <4>3 DEF PassInv
      <4> QED
        BY <2>5, <4>2, <4>4
    <3> QED
      BY <3>1, <3>2
  <2> QED
    BY <2>1, <2>6 DEF PassInv, Spawning
<1>7. CASE PickTask
  <2>1. /\ pc' = "publish" /\ left' = 0 /\ left > 0 /\ runs' = runs
        /\ state' = [state EXCEPT ![Head(ready)] = "Running"]
    BY <1>7 DEF PickTask, Goto
  <2> QED
    BY <1>0, <2>1 DEF PassInv, Spawning
<1>8. ASSUME NEW alive \in BOOLEAN, StepReturns(alive) PROVE PassInv'
  <2>1. /\ pc = "step" /\ pc' = "fence_down" /\ UNCHANGED <<ready, left, run>>
        /\ runs' = [runs EXCEPT ![me] = @ + 1]
        /\ state' = [state EXCEPT ![me] = IF alive THEN "Ready" ELSE "Finished"]
    BY <1>8 DEF StepReturns, Goto, queue
  <2>2. left' = 0 /\ pc' \notin Spawning /\ pc' # "pick"
    BY <2>1 DEF PassInv, Spawning
  <2>3. ASSUME NEW i \in Ids, state'[i] = "Unborn" PROVE runs'[i] = 0
    <3>1. i # me
      BY <1>0, <2>1, <2>3
    <3> QED
      BY <1>0, <2>1, <2>3, <3>1 DEF PassInv
  <2> QED
    BY <2>2, <2>3 DEF PassInv
<1>9. CASE Requeue
  BY <1>9 DEF Requeue, Goto, PassInv, Spawning, tcb
<1>10. CASE DropTask
  <2>1. /\ pc = "drop" /\ pc' = "driver" /\ UNCHANGED <<ready, left, runs>>
        /\ state' = [state EXCEPT ![run] = "Dropped"]
    BY <1>10 DEF DropTask, Goto, queue
  <2> QED
    BY <1>0, <2>1 DEF PassInv, Spawning
<1> QED
  BY <1>1, <1>2, <1>3, <1>4, <1>5, <1>6, <1>7, <1>8, <1>9, <1>10, StepKinds

-----------------------------------------------------------------------------
\* The verdict of a turn, as the mapping reads it off the held task.
LEMMA TurnFacts ==
  /\ pc \in Spawning => Turn = 0
  /\ pc \notin Spawning => Turn = run
  /\ Turn = 0 => Verdict = "none"
  /\ Turn # 0 /\ state[run] = "Ready" => Verdict = "alive"
  /\ Turn # 0 /\ state[run] = "Finished" => Verdict = "finished"
  /\ state[run] \notin {"Ready", "Finished"} => Verdict = "none"
<1>1. pc \in Spawning => Turn = 0
  BY DEF Turn, InPolicy, Spawning
<1>2. pc \notin Spawning => Turn = run
  BY DEF Turn, InPolicy, Spawning
<1>3. /\ Turn = 0 => Verdict = "none"
      /\ Turn # 0 /\ state[run] = "Ready" => Verdict = "alive"
      /\ Turn # 0 /\ state[run] = "Finished" => Verdict = "finished"
      /\ state[run] \notin {"Ready", "Finished"} => Verdict = "none"
  BY Zenon DEF Verdict
<1> QED
  BY <1>1, <1>2, <1>3

\* The same of the next state.
LEMMA NextTurnFacts ==
  /\ pc' \in Spawning => Turn' = 0
  /\ pc' \notin Spawning => Turn' = run'
  /\ Turn' = 0 => Verdict' = "none"
  /\ Turn' # 0 /\ state'[run'] = "Ready" => Verdict' = "alive"
  /\ Turn' # 0 /\ state'[run'] = "Finished" => Verdict' = "finished"
  /\ state'[run'] \notin {"Ready", "Finished"} => Verdict' = "none"
<1>1. pc' \in Spawning => Turn' = 0
  BY DEF Turn, InPolicy, Spawning
<1>2. pc' \notin Spawning => Turn' = run'
  BY DEF Turn, InPolicy, Spawning
<1>3. /\ Turn' = 0 => Verdict' = "none"
      /\ Turn' # 0 /\ state'[run'] = "Ready" => Verdict' = "alive"
      /\ Turn' # 0 /\ state'[run'] = "Finished" => Verdict' = "finished"
      /\ state'[run'] \notin {"Ready", "Finished"} => Verdict' = "none"
  BY Zenon DEF Verdict
<1> QED
  BY <1>1, <1>2, <1>3

\* Every step of the switch path is a step of the round-robin policy, or does
\* not show in it.
LEMMA PolicyStep ==
  ASSUME IInv, PassInv, PassInv', [Next]_vars
  PROVE  [Policy!Next]_(Policy!vars)
<1> DEFINE asleep == {i \in {ready[n] : n \in DOMAIN ready} : state[i] = "Sleeping"}
           done == {i \in Ids : state[i] = "Dropped"}
<1>0. /\ ready \in Seq(Ids) /\ Len(ready) \in Nat /\ DOMAIN ready = 1..Len(ready)
      /\ left \in 0..Len(ready) /\ run \in 0..MaxId /\ nextId \in 1..MaxId + 1
      /\ state \in [Ids -> TaskStates \cup {"Unborn", "Dropped"}] /\ runs \in [Ids -> Nat]
  BY PolicyTypes
<1>1. ControlInv /\ LifeInv /\ QueueHoldsEveryTask
  BY DEF IInv
<1>2. \A n \in DOMAIN ready : ready[n] \in Ids /\ Live(ready[n]) /\ ready[n] # run
  <2>1. \A n \in DOMAIN ready : ready[n] \in Ids
    BY <1>0
  <2> QED
    BY <1>1, <2>1 DEF QueueHoldsEveryTask
<1>3. Line = Turned(ready, left) /\ Line' = Turned(ready', left')
  BY DEF Line, Turned
<1>4. left = 0 => Line = ready
  BY <1>0, <1>3, TurnedWhole
<1>5. ASSUME Line' = Line, Turn' = Turn, Verdict' = Verdict, asleep' = asleep,
             runs' = runs, done' = done
      PROVE  UNCHANGED Policy!vars
  BY <1>5 DEF Policy!vars
<1>6. CASE Elsewhere
  <2>1. UNCHANGED <<ready, left, run, state, runs>> /\ (pc \in Spawning <=> pc' \in Spawning)
    BY <1>6 DEF Elsewhere
  <2>2. Line' = Line /\ asleep' = asleep /\ done' = done
    BY <2>1 DEF Line
  <2>3. Turn' = Turn
    BY <2>1, TurnFacts, NextTurnFacts
  <2>4. Verdict' = Verdict
    BY <2>1, <2>3, Zenon DEF Verdict
  <2> QED
    BY <1>5, <2>1, <2>2, <2>3, <2>4
<1>7. ASSUME NEW w \in Windows, NEW s \in Slots, NEW st \in {"Ready", "Sleeping"},
             NEW u \in 0..MaxTick, NewTask(w, st, u, s)
      PROVE  UNCHANGED Policy!vars
  <2>1. /\ pc = "driver" /\ pc' = "set_bit" /\ nextId \in Ids /\ run = 0
        /\ state' = [state EXCEPT ![nextId] = st] /\ UNCHANGED <<ready, left, runs>>
    BY <1>0, <1>1, <1>7, BoundsAssumption DEF NewTask, Goto, queue, Ids, ControlInv
  <2>2. state[nextId] = "Unborn"
    BY <1>0, <1>1, <2>1 DEF LifeInv
  <2>3. Turn = 0 /\ Turn' = 0
    BY <2>1, TurnFacts, NextTurnFacts DEF Spawning
  <2>4. Verdict = "none" /\ Verdict' = "none"
    BY <2>3, TurnFacts, NextTurnFacts
  <2>5. \A n \in DOMAIN ready : state'[ready[n]] = state[ready[n]]
    BY <1>0, <1>2, <2>1, <2>2 DEF Live, TaskStates
  <2>6. asleep' = asleep
    BY <2>1, <2>5
  <2>7. done' = done
    BY <1>0, <2>1, <2>2
  <2>8. Line' = Line
    BY <2>1 DEF Line
  <2> QED
    BY <1>5, <2>1, <2>3, <2>4, <2>6, <2>7, <2>8
<1>8. CASE schedule_once
  <2>1. /\ pc = "driver" /\ pc' = "pick" /\ left' = Len(ready)
        /\ UNCHANGED <<ready, run, state, runs>>
    BY <1>8 DEF schedule_once, Goto, tcb
  <2>2. left = 0
    BY <2>1 DEF PassInv
  <2>3. Line' = ready /\ Line = ready
    BY <1>0, <1>3, <1>4, <2>1, <2>2, TurnedWhole
  <2>4. Turn' = run /\ Turn = run
    BY <2>1, TurnFacts, NextTurnFacts DEF Spawning
  <2>5. Verdict' = Verdict
    BY <2>1, <2>4, Zenon DEF Verdict
  <2> QED
    BY <1>5, <2>1, <2>3, <2>4, <2>5
<1>9. CASE AllAsleep
  <2>1. pc = "pick" /\ pc' = "driver" /\ UNCHANGED <<ready, left, run, state, runs>>
    BY <1>9 DEF AllAsleep, Goto, tcb, queue
  <2>2. Line' = Line
    BY <2>1 DEF Line
  <2>3. Turn' = run /\ Turn = run
    BY <2>1, TurnFacts, NextTurnFacts DEF Spawning
  <2>4. Verdict' = Verdict
    BY <2>1, <2>3, Zenon DEF Verdict
  <2> QED
    BY <1>5, <2>1, <2>2, <2>3, <2>4
<1>10. CASE SkipSleeper
  <2>1. /\ pc = "pick" /\ pc' = pc /\ left > 0
        /\ ready' = Append(Tail(ready), Head(ready)) /\ left' = left - 1
        /\ UNCHANGED <<run, state, runs>>
    BY <1>10 DEF SkipSleeper, tcb
  <2>2. left \in 1..Len(ready) /\ Len(ready) > 0
    BY <1>0, <2>1
  <2>3. Line' = Line
    BY <1>0, <1>3, <2>1, <2>2, TurnedSkip
  <2>4. Turn' = run /\ Turn = run
    BY <2>1, TurnFacts, NextTurnFacts DEF Spawning
  <2>5. Verdict' = Verdict
    BY <2>1, <2>4, Zenon DEF Verdict
  <2>6. {ready'[n] : n \in DOMAIN ready'} = {ready[n] : n \in DOMAIN ready}
    <3>1. ready \in Seq(Ids) /\ ready # <<>>
      BY <1>0, <2>2
    <3>2. Head(ready) \in Ids /\ Tail(ready) \in Seq(Ids)
      BY <1>0, <2>2, TailFacts
    <3>3. {ready'[n] : n \in DOMAIN ready'}
            = {Tail(ready)[n] : n \in DOMAIN Tail(ready)} \cup {Head(ready)}
      BY <2>1, <3>2, PushedElements
    <3> QED
      BY <3>1, <3>3, TailElements, Zenon
  <2>7. asleep' = asleep
    BY <2>1, <2>6, Zenon
  <2> QED
    BY <1>5, <2>1, <2>3, <2>4, <2>5, <2>7
<1>11. CASE spawn
  <2>1. /\ pc = "spawn" /\ pc' = "driver" /\ ready' = Append(ready, run) /\ run' = 0
        /\ UNCHANGED <<left, state, runs>>
    BY <1>11 DEF spawn, Goto, tcb
  <2>2. /\ run \in Ids /\ state[run] \in {"Ready", "Sleeping"} /\ runs[run] = 0
        /\ left = 0 /\ left' = 0
    BY <1>1, <2>1 DEF ControlInv, LifeInv, PassInv, Spawning, PanicPcs
  <2>3. Turn = 0 /\ Turn' = 0 /\ run # 0
    BY <2>1, <2>2, TurnFacts, NextTurnFacts DEF Spawning, Ids
  <2>4. Verdict = "none" /\ Verdict' = "none"
    BY <2>3, TurnFacts, NextTurnFacts
  <2>5. /\ ready' \in Seq(Ids) /\ DOMAIN ready' = 1..Len(ready) + 1
        /\ \A n \in 1..Len(ready) : ready'[n] = ready[n]
        /\ ready'[Len(ready) + 1] = run
    BY <1>0, <2>1, <2>2, AppendFacts
  <2>6. Line = ready /\ Line' = Append(Line, run)
    <3>1. Turned(ready', 0) = ready'
      BY <2>5, TurnedWhole
    <3> QED
      BY <1>3, <1>4, <2>1, <2>2, <3>1
  <2>7. {ready'[n] : n \in DOMAIN ready'} = {ready[n] : n \in DOMAIN ready} \cup {run}
    BY <1>0, <2>1, <2>2, PushedElements
  <2>8. asleep' \in {asleep, asleep \cup {run}}
    BY <2>1, <2>2, <2>7
  <2>9. run \notin {ready[n] : n \in DOMAIN ready} \cup done \cup {Turn}
    BY <1>2, <2>2, <2>3
  <2>10. PICK i \in Ids : i = run
    BY <2>2
  <2>11. Policy!Join(i)
    BY <2>1, <2>2, <2>3, <2>4, <2>6, <2>8, <2>9, <2>10 DEF Policy!Join, Policy!Waiting
  <2> QED
    BY <2>10, <2>11 DEF Policy!Next
<1>12. CASE PickTask
  <2>1. /\ pc = "pick" /\ pc' = "publish" /\ left > 0 /\ left' = 0
        /\ run' = Head(ready) /\ ready' = Tail(ready) /\ runs' = runs
        /\ state' = [state EXCEPT ![Head(ready)] = "Running"]
    BY <1>12 DEF PickTask, Goto
  <2>2. left \in 1..Len(ready) /\ Len(ready) > 0 /\ run = 0
    BY <1>0, <1>1, <2>1 DEF ControlInv
  <2> DEFINE t == Turned(ready, left)
  <2>3. PICK n : n = Place(ready, left)
    OBVIOUS
  <2>4. /\ n \in DOMAIN Line /\ Line[n] = Head(ready)
        /\ \A m \in 1..n - 1 : Line[m] = ready[left + m]
        /\ SubSeq(Line, n + 1, Len(Line)) \o SubSeq(Line, 1, n - 1) = Tail(ready)
    <3>0. ready \in Seq(Ids) /\ left \in 1..Len(ready)
      BY <1>0, <2>2
    <3>1. /\ n \in DOMAIN t /\ t[n] = Head(ready)
          /\ \A m \in 1..n - 1 : t[m] = ready[left + m]
          /\ SubSeq(t, n + 1, Len(t)) \o SubSeq(t, 1, n - 1) = Tail(ready)
      BY <2>3, <3>0, TurnedPick, Zenon
    <3>2. Line = t
      BY <1>3
    <3> HIDE DEF t
    <3> QED
      BY <3>1, <3>2, Zenon
  <2>5. /\ Head(ready) = ready[1] /\ Tail(ready) \in Seq(Ids)
        /\ DOMAIN Tail(ready) = 1..Len(ready) - 1
        /\ \A m \in 1..Len(ready) - 1 : Tail(ready)[m] = ready[m + 1]
    BY <1>0, <2>2, TailFacts
  <2>6. Line' = Tail(ready)
    BY <1>3, <2>1, <2>5, TurnedWhole, Zenon
  <2>7. 1 \in DOMAIN ready /\ Head(ready) \in Ids /\ Live(Head(ready))
    BY <1>0, <1>2, <2>2, <2>5
  <2>8. \A m \in 1..n - 1 : Line[m] \in asleep
    <3>1. ASSUME NEW m \in 1..n - 1 PROVE left + m \in DOMAIN ready /\ left + m > left
      BY <1>0, <2>2, <2>3 DEF Place
    <3>2. \A m \in DOMAIN ready : m > left => ready[m] \in asleep
      BY <2>1 DEF PassInv
    <3> QED
      BY <2>4, <3>1, <3>2, Zenon
  <2>9. asleep' = asleep \ {Head(ready)}
    <3>1. \A i \in Ids : i # Head(ready) => state'[i] = state[i]
      BY <1>0, <2>1
    <3>2. state'[Head(ready)] = "Running"
      BY <1>0, <2>1, <2>7
    <3>3. {ready'[m] : m \in DOMAIN ready'} \subseteq {ready[m] : m \in DOMAIN ready}
      BY <1>0, <2>1, <2>5
    <3>4. \A m \in DOMAIN ready : m # 1 => m - 1 \in DOMAIN ready' /\ ready'[m - 1] = ready[m]
      BY <1>0, <2>1, <2>5
    <3>5. \A x \in {ready[m] : m \in DOMAIN ready} :
            x # Head(ready) => x \in {ready'[m] : m \in DOMAIN ready'}
      BY <2>5, <3>4
    <3>6. {ready[m] : m \in DOMAIN ready} \subseteq Ids
      BY <1>2
    <3> QED
      BY <3>1, <3>2, <3>3, <3>5, <3>6
  <2>10. done' = done
    BY <1>0, <2>1, <2>7 DEF Live, TaskStates
  <2>11. Turn = 0 /\ Turn' = Head(ready)
    BY <2>1, <2>2, TurnFacts, NextTurnFacts DEF Spawning
  <2>12. Verdict = "none" /\ Verdict' = "none"
    <3>1. state'[run'] = "Running"
      BY <1>0, <2>1, <2>7
    <3> QED
      BY <2>11, <3>1, TurnFacts, NextTurnFacts
  <2>13. Policy!Grant(n)
    BY <2>1, <2>4, <2>6, <2>8, <2>9, <2>10, <2>11, <2>12, Zenon DEF Policy!Grant
  <2> QED
    BY <2>4, <2>13 DEF Policy!Next
<1>13. ASSUME NEW alive \in BOOLEAN, StepReturns(alive) PROVE Policy!Next
  <2>1. /\ pc = "step" /\ pc' = "fence_down" /\ UNCHANGED <<ready, left, run>>
        /\ runs' = [runs EXCEPT ![me] = @ + 1]
        /\ state' = [state EXCEPT ![me] = IF alive THEN "Ready" ELSE "Finished"]
    BY <1>13 DEF StepReturns, Goto, queue
  <2>2. me = run /\ run \in Ids /\ run # 0 /\ state[run] = "Running"
    BY <1>1, <2>1 DEF ControlInv, LifeInv, TaskPcs, PanicPcs, Ids
  <2>3. Turn = run /\ Turn' = run
    BY <2>1, TurnFacts, NextTurnFacts DEF Spawning
  <2>4. state'[run'] \in {"Ready", "Finished"}
    BY <1>0, <2>1, <2>2
  <2>5. Verdict = "none" /\ Verdict' \in {"alive", "finished"}
    BY <2>2, <2>3, <2>4, TurnFacts, NextTurnFacts
  <2>6. done' = done
    BY <1>0, <2>1, <2>2
  <2>7. \A n \in DOMAIN ready : state'[ready[n]] = state[ready[n]]
    BY <1>0, <1>2, <2>1, <2>2
  <2>8. asleep' = asleep /\ Line' = Line
    BY <2>1, <2>7 DEF Line
  <2>9. Policy!Step
    BY <2>1, <2>2, <2>3, <2>5, <2>6, <2>8, Zenon DEF Policy!Step
  <2> QED
    BY <2>9 DEF Policy!Next
<1>14. CASE Requeue
  <2>1. /\ pc = "validate" /\ pc' = "driver" /\ state[run] = "Ready" /\ run' = 0
        /\ ready' = Append(ready, run) /\ UNCHANGED <<left, state, runs>>
    BY <1>14, Zenon DEF Requeue, Goto, tcb
  <2>2. run \in Ids /\ run # 0 /\ left = 0
    BY <1>1, <2>1 DEF ControlInv, PassInv, PanicPcs, Ids
  <2>3. Turn = run /\ Turn' = 0
    BY <2>1, TurnFacts, NextTurnFacts DEF Spawning
  <2>4. Verdict = "alive" /\ Verdict' = "none"
    BY <2>1, <2>2, <2>3, TurnFacts, NextTurnFacts
  <2>5. /\ ready' \in Seq(Ids) /\ DOMAIN ready' = 1..Len(ready) + 1
        /\ \A n \in 1..Len(ready) : ready'[n] = ready[n]
        /\ ready'[Len(ready) + 1] = run
    BY <1>0, <2>1, <2>2, AppendFacts
  <2>6. Line' = Append(Line, Turn)
    <3>1. Turned(ready', 0) = ready'
      BY <2>5, TurnedWhole
    <3> QED
      BY <1>3, <1>4, <2>1, <2>2, <2>3, <3>1
  <2>7. {ready'[n] : n \in DOMAIN ready'} = {ready[n] : n \in DOMAIN ready} \cup {run}
    BY <1>0, <2>1, <2>2, PushedElements
  <2>8. asleep' = asleep
    BY <2>1, <2>7
  <2>9. Policy!EndTurn
    BY <2>1, <2>3, <2>4, <2>6, <2>8 DEF Policy!EndTurn
  <2> QED
    BY <2>9 DEF Policy!Next
<1>15. CASE DropTask
  <2>1. /\ pc = "drop" /\ pc' = "driver" /\ run' = 0
        /\ state' = [state EXCEPT ![run] = "Dropped"] /\ UNCHANGED <<ready, left, runs>>
    BY <1>15 DEF DropTask, Goto, queue
  <2>2. run \in Ids /\ run # 0 /\ state[run] = "Finished"
    BY <1>1, <2>1 DEF ControlInv, LifeInv, PanicPcs, Retiring, Ids
  <2>3. Turn = run /\ Turn' = 0
    BY <2>1, TurnFacts, NextTurnFacts DEF Spawning
  <2>4. Verdict = "finished" /\ Verdict' = "none"
    BY <2>2, <2>3, TurnFacts, NextTurnFacts
  <2>5. done' = done \cup {Turn}
    BY <1>0, <2>1, <2>2, <2>3
  <2>6. \A n \in DOMAIN ready : state'[ready[n]] = state[ready[n]]
    BY <1>0, <1>2, <2>1, <2>2
  <2>7. asleep' = asleep /\ Line' = Line
    BY <2>1, <2>6 DEF Line
  <2>8. Policy!EndTurn
    BY <2>1, <2>3, <2>4, <2>5, <2>7 DEF Policy!EndTurn
  <2> QED
    BY <2>8 DEF Policy!Next
<1> QED
  BY <1>6, <1>7, <1>8, <1>9, <1>10, <1>11, <1>12, <1>13, <1>14, <1>15, StepKinds

\* The switch path implements the round-robin policy: whoever has waited
\* longest and is awake runs next, a turn is exactly one step, a task that is
\* not finished goes to the end of the line, and nobody is lost or repeated,
\* whatever tick comes between whatever two steps.
THEOREM SwitchPathRefinesRoundRobin == Spec => ImplementsRoundRobin
<1>1. Init => Policy!Init
  <2>1. ASSUME Init PROVE Line = <<>>
    <3>1. ready = <<>> /\ left = 0 /\ ready \in Seq(Ids)
      BY <2>1 DEF Init
    <3> QED
      BY <3>1, TurnedWhole DEF Line, Turned
  <2>2. ASSUME Init PROVE Turn = 0 /\ Verdict = "none"
    <3>1. pc = "driver" /\ run = 0
      BY <2>2 DEF Init
    <3> QED
      BY <3>1, TurnFacts DEF Spawning
  <2>3. ASSUME Init
        PROVE  /\ {i \in {ready[n] : n \in DOMAIN ready} : state[i] = "Sleeping"} = {}
               /\ runs = [i \in Ids |-> 0] /\ {i \in Ids : state[i] = "Dropped"} = {}
    BY <2>3 DEF Init
  <2> QED
    BY <2>1, <2>2, <2>3 DEF Policy!Init
<1>2. Init => PassInv
  BY DEF Init, PassInv, Spawning
<1>3. IInv /\ PassInv /\ [Next]_vars => PassInv'
  BY PassStep
<1>4. Spec => []PassInv
  BY <1>2, <1>3, Invariance, PTL DEF Spec
<1>5. IInv /\ PassInv /\ PassInv' /\ [Next]_vars => [Policy!Next]_(Policy!vars)
  BY PolicyStep
<1> QED
  BY <1>1, <1>4, <1>5, Invariance, PTL DEF Spec, Policy!Spec, ImplementsRoundRobin
=============================================================================
