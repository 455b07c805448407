----------------------------- MODULE QueueTheorems -----------------------------
(***************************************************************************)
(* What the run queues of kernel/src/task.rs (VecDeque<Box<Task>>) do to   *)
(* the tasks in them: push_back, pop_front, and remove from the middle.    *)
(* Both schedulers and the demo rest on these facts.                       *)
(***************************************************************************)
EXTENDS Integers, Sequences, SequencesExt, SequenceTheorems, WellFoundedInduction, TLAPS

Holds(s, t) == \E n \in DOMAIN s : s[n] = t
Distinct(s) == \A m, n \in DOMAIN s : s[m] = s[n] => m = n

\* A non-empty set of natural numbers has a smallest one.
LEMMA Smallest ==
  ASSUME NEW T, T \subseteq Nat, T # {}
  PROVE  \E x \in T : \A y \in T : x <= y
<1>1. PICK x \in T : \A y \in T : ~(<<y, x>> \in OpToRel(<, Nat))
  BY WFMin, NatLessThanWellFounded, Zenon
<1>2. ASSUME NEW y \in T PROVE x <= y
  <2>1. ~(<<y, x>> \in {ss \in Nat \X Nat : ss[1] < ss[2]})
    BY <1>1 DEF OpToRel
  <2>2. y \in Nat /\ x \in Nat
    OBVIOUS
  <2> QED
    BY <2>1, <2>2
<1> QED
  BY <1>2

\* A slice of a queue.
LEMMA Sliced ==
  ASSUME NEW S, NEW s \in Seq(S), NEW i \in Nat, NEW j \in Nat, 1 <= i, i <= j + 1, j <= Len(s)
  PROVE  /\ SubSeq(s, i, j) \in Seq(S) /\ Len(SubSeq(s, i, j)) = j - i + 1
         /\ \A k \in 1..(j - i + 1) : SubSeq(s, i, j)[k] = s[i + k - 1]
<1>1. \A k \in 1..Len(s) : s[k] \in S
  BY ElementOfSeq
<1>2. Len(s) \in Nat
  OBVIOUS
<1>3. i \in Int /\ j \in Int /\ \A k \in i..j : s[k] \in S
  BY <1>1, <1>2
<1>4. /\ SubSeq(s, i, j) \in Seq(S)
      /\ Len(SubSeq(s, i, j)) = IF i <= j THEN j - i + 1 ELSE 0
      /\ \A k \in 1..(j - i + 1) : SubSeq(s, i, j)[k] = s[i + k - 1]
  BY <1>3, SubSeqProperties
<1> QED
  BY <1>4

\* Two queues joined.
LEMMA Joined ==
  ASSUME NEW S, NEW a \in Seq(S), NEW b \in Seq(S)
  PROVE  /\ a \o b \in Seq(S) /\ DOMAIN (a \o b) = 1..(Len(a) + Len(b))
         /\ \A k \in 1..(Len(a) + Len(b)) :
              (a \o b)[k] = IF k <= Len(a) THEN a[k] ELSE b[k - Len(a)]
<1>1. /\ a \o b \in Seq(S) /\ Len(a \o b) = Len(a) + Len(b)
      /\ \A k \in 1..(Len(a) + Len(b)) :
           (a \o b)[k] = IF k <= Len(a) THEN a[k] ELSE b[k - Len(a)]
  BY ConcatProperties
<1> QED
  BY <1>1, LenProperties

\* What is left of the queue when the n-th is taken out of it, in either policy's
\* order.
LEMMA Removed ==
  ASSUME NEW S, NEW s \in Seq(S), NEW n \in 1..Len(s), Distinct(s), NEW w,
         \/ w = SubSeq(s, n + 1, Len(s)) \o SubSeq(s, 1, n - 1)
         \/ w = SubSeq(s, 1, n - 1) \o SubSeq(s, n + 1, Len(s))
  PROVE  /\ w \in Seq(S) /\ Distinct(w)
         /\ ~Holds(w, s[n])
         /\ \A t : t # s[n] => (Holds(w, t) <=> Holds(s, t))
<1> DEFINE L == Len(s)
           a == SubSeq(s, n + 1, L)
           b == SubSeq(s, 1, n - 1)
<1>1. L \in Nat /\ n \in Nat /\ 1 <= n /\ n <= L /\ DOMAIN s = 1..L
  OBVIOUS
<1>2. a \in Seq(S) /\ Len(a) = L - n /\ \A k \in 1..(L - n) : a[k] = s[n + k]
  <2>1. /\ a \in Seq(S) /\ Len(a) = L - (n + 1) + 1
        /\ \A k \in 1..(L - (n + 1) + 1) : a[k] = s[(n + 1) + k - 1]
    <3>1. n + 1 \in Nat /\ 1 <= n + 1 /\ n + 1 <= L + 1 /\ L <= Len(s) /\ L \in Nat
      BY <1>1
    <3> QED
      BY <3>1, Sliced
  <2> HIDE DEF a, L
  <2>2. L - (n + 1) + 1 = L - n /\ \A k \in 1..(L - n) : (n + 1) + k - 1 = n + k
    BY <1>1
  <2> QED
    BY <2>1, <2>2
<1>3. b \in Seq(S) /\ Len(b) = n - 1 /\ \A k \in 1..(n - 1) : b[k] = s[k]
  <2>1. /\ b \in Seq(S) /\ Len(b) = (n - 1) - 1 + 1
        /\ \A k \in 1..((n - 1) - 1 + 1) : b[k] = s[1 + k - 1]
    BY <1>1, Sliced
  <2> HIDE DEF b, L
  <2>2. (n - 1) - 1 + 1 = n - 1 /\ \A k \in 1..(n - 1) : 1 + k - 1 = k
    BY <1>1
  <2> QED
    BY <2>1, <2>2, Zenon
<1>4. w = a \o b \/ w = b \o a
  BY Zenon
<1> HIDE DEF a, b
<1>5. Len(a) = L - n /\ Len(b) = n - 1 /\ Len(a) + Len(b) = L - 1 /\ Len(b) + Len(a) = L - 1
  <2>1. Len(a) = L - n /\ Len(b) = n - 1
    BY Zenon, <1>2, <1>3
  <2>2. L \in Int /\ n \in Int
    BY <1>1
  <2> HIDE DEF L
  <2> QED
    BY ONLY <2>1, <2>2
<1>ab. /\ a \o b \in Seq(S) /\ DOMAIN (a \o b) = 1..(Len(a) + Len(b))
       /\ \A k \in 1..(Len(a) + Len(b)) :
            (a \o b)[k] = IF k <= Len(a) THEN a[k] ELSE b[k - Len(a)]
  <2>1. a \in Seq(S) /\ b \in Seq(S)
    BY <1>2, <1>3, Zenon
  <2> QED
    BY ONLY <2>1, Joined, Zenon
<1>ba. /\ b \o a \in Seq(S) /\ DOMAIN (b \o a) = 1..(Len(b) + Len(a))
       /\ \A k \in 1..(Len(b) + Len(a)) :
            (b \o a)[k] = IF k <= Len(b) THEN b[k] ELSE a[k - Len(b)]
  <2>1. b \in Seq(S) /\ a \in Seq(S)
    BY <1>2, <1>3, Zenon
  <2> QED
    BY ONLY <2>1, Joined, Zenon
\* Kept(f): f sends the places of w to the places of s, all but the n-th.
<1> DEFINE Kept(f) ==
             /\ w \in Seq(S)
             /\ \A k \in DOMAIN w : f[k] \in DOMAIN s /\ f[k] # n /\ w[k] = s[f[k]]
             /\ \A k, l \in DOMAIN w : f[k] = f[l] => k = l
             /\ \A m \in DOMAIN s : m # n => \E k \in DOMAIN w : f[k] = m
<1>6. \E f : Kept(f)
  <2>1. CASE w = a \o b
    <3> DEFINE At == [k \in 1..(L - 1) |-> IF k <= L - n THEN n + k ELSE k - (L - n)]
    <3>1. w \in Seq(S) /\ DOMAIN w = 1..(L - 1)
      <4>1. w \in Seq(S) /\ DOMAIN w = 1..(Len(a) + Len(b))
        BY <1>ab, <2>1, Zenon
      <4> QED
        BY <1>5, <4>1
    <3>2. \A k \in 1..(L - 1) : w[k] = IF k <= L - n THEN a[k] ELSE b[k - (L - n)]
      <4>1. \A k \in 1..(Len(a) + Len(b)) : w[k] = IF k <= Len(a) THEN a[k] ELSE b[k - Len(a)]
        BY <1>ab, <2>1, Zenon
      <4> QED
        BY <1>5, <4>1
    <3>3. \A k \in 1..(L - 1) : At[k] \in 1..L /\ At[k] # n /\ w[k] = s[At[k]]
      <4> SUFFICES ASSUME NEW k \in 1..(L - 1)
                   PROVE  At[k] \in 1..L /\ At[k] # n /\ w[k] = s[At[k]]
        BY Zenon
      <4>1. CASE k <= L - n
        <5>1. At[k] = n + k /\ n + k \in 1..L /\ n + k # n /\ k \in 1..(L - n)
          BY <1>1, <4>1
        <5> QED
          BY <1>2, <3>2, <4>1, <5>1, SMTT(30)
      <4>2. CASE ~(k <= L - n)
        <5>1. /\ At[k] = k - (L - n) /\ k - (L - n) \in 1..L /\ k - (L - n) # n
              /\ k - (L - n) \in 1..(n - 1)
          BY <1>1, <4>2
        <5> QED
          BY <1>3, <3>2, <4>2, <5>1
      <4> QED
        BY <4>1, <4>2
    <3>4. \A k, l \in 1..(L - 1) : At[k] = At[l] => k = l
      BY <1>1
    <3>5. ASSUME NEW m \in 1..L, m # n PROVE \E k \in 1..(L - 1) : At[k] = m
      <4>1. CASE m > n
        <5>1. m - n \in 1..(L - 1) /\ At[m - n] = m
          BY <1>1, <4>1
        <5> QED
          BY <5>1, Zenon
      <4>2. CASE m < n
        <5>1. m + (L - n) \in 1..(L - 1) /\ At[m + (L - n)] = m
          BY <1>1, <4>2
        <5> QED
          BY <5>1, Zenon
      <4> QED
        BY <1>1, <3>5, <4>1, <4>2
    <3> HIDE DEF At, L
    <3>6. \A k \in DOMAIN w : At[k] \in DOMAIN s /\ At[k] # n /\ w[k] = s[At[k]]
      BY <1>1, <3>1, <3>3
    <3>7. \A k, l \in DOMAIN w : At[k] = At[l] => k = l
      BY <3>1, <3>4
    <3>8. \A m \in DOMAIN s : m # n => \E k \in DOMAIN w : At[k] = m
      BY <1>1, <3>1, <3>5, Zenon
    <3>9. Kept(At)
      BY <3>1, <3>6, <3>7, <3>8
    <3> QED
      BY <3>9, Zenon
  <2>2. CASE w = b \o a
    <3> DEFINE At == [k \in 1..(L - 1) |-> IF k < n THEN k ELSE k + 1]
    <3>1. w \in Seq(S) /\ DOMAIN w = 1..(L - 1)
      <4>1. w \in Seq(S) /\ DOMAIN w = 1..(Len(b) + Len(a))
        BY <1>ba, <2>2, Zenon
      <4> QED
        BY <1>5, <4>1
    <3>2. \A k \in 1..(L - 1) : w[k] = IF k <= n - 1 THEN b[k] ELSE a[k - (n - 1)]
      <4>1. \A k \in 1..(Len(b) + Len(a)) : w[k] = IF k <= Len(b) THEN b[k] ELSE a[k - Len(b)]
        BY <1>ba, <2>2, Zenon
      <4> QED
        BY <1>5, <4>1
    <3>3. \A k \in 1..(L - 1) : At[k] \in 1..L /\ At[k] # n /\ w[k] = s[At[k]]
      <4> SUFFICES ASSUME NEW k \in 1..(L - 1)
                   PROVE  At[k] \in 1..L /\ At[k] # n /\ w[k] = s[At[k]]
        OBVIOUS
      <4>1. CASE k < n
        BY <1>1, <1>3, <3>2, <4>1
      <4>2. CASE ~(k < n)
        <5>1. At[k] = k + 1 /\ k + 1 \in 1..L /\ k + 1 # n
          BY <1>1, <4>2
        <5>2. w[k] = a[k - (n - 1)] /\ k - (n - 1) \in 1..(L - n)
          BY <1>1, <3>2, <4>2
        <5>3. n + (k - (n - 1)) = k + 1
          BY <1>1
        <5>4. a[k - (n - 1)] = s[n + (k - (n - 1))]
          BY <1>2, <5>2
        <5> QED
          BY <5>1, <5>2, <5>3, <5>4
      <4> QED
        BY <4>1, <4>2
    <3>4. \A k, l \in 1..(L - 1) : At[k] = At[l] => k = l
      BY <1>1
    <3>5. ASSUME NEW m \in 1..L, m # n PROVE \E k \in 1..(L - 1) : At[k] = m
      <4>1. CASE m > n
        <5>1. m - 1 \in 1..(L - 1) /\ At[m - 1] = m
          BY <1>1, <4>1
        <5> QED
          BY <5>1
      <4>2. CASE m < n
        <5>1. m \in 1..(L - 1) /\ At[m] = m
          BY <1>1, <4>2, SMTT(30)
        <5> QED
          BY <5>1
      <4> QED
        BY <1>1, <3>5, <4>1, <4>2
    <3> HIDE DEF At, L
    <3>6. \A k \in DOMAIN w : At[k] \in DOMAIN s /\ At[k] # n /\ w[k] = s[At[k]]
      BY <1>1, <3>1, <3>3
    <3>7. \A k, l \in DOMAIN w : At[k] = At[l] => k = l
      BY <3>1, <3>4
    <3>8. \A m \in DOMAIN s : m # n => \E k \in DOMAIN w : At[k] = m
      BY <1>1, <3>1, <3>5, Zenon
    <3>9. Kept(At)
      BY <3>1, <3>6, <3>7, <3>8
    <3> QED
      BY <3>9, Zenon
  <2> QED
    BY <1>4, <2>1, <2>2
<1>7. PICK f : Kept(f)
  BY <1>6, Zenon
<1>8. Distinct(w) /\ ~Holds(w, s[n])
  <2>1. \A k \in DOMAIN w : f[k] \in DOMAIN s /\ f[k] # n /\ w[k] = s[f[k]]
    BY <1>7
  <2>2. \A k, l \in DOMAIN w : f[k] = f[l] => k = l
    BY <1>7
  <2>3. n \in DOMAIN s /\ Distinct(s)
    BY <1>1
  <2> QED
    BY ONLY <2>1, <2>2, <2>3 DEF Distinct, Holds
<1>9. ASSUME NEW t, Holds(w, t) PROVE Holds(s, t)
  <2>1. PICK k \in DOMAIN w : w[k] = t
    BY Zenon, <1>9 DEF Holds
  <2>2. f[k] \in DOMAIN s /\ s[f[k]] = t
    BY <1>7, <2>1
  <2> QED
    BY Zenon, <2>2 DEF Holds
<1>10. ASSUME NEW t, t # s[n], Holds(s, t) PROVE Holds(w, t)
  <2>1. PICK m \in DOMAIN s : s[m] = t
    BY Zenon, <1>10 DEF Holds
  <2>2. PICK k \in DOMAIN w : f[k] = m
    BY <1>7, <1>10, <2>1
  <2> QED
    BY <1>7, <2>1, <2>2 DEF Holds
<1> QED
  BY <1>7, <1>8, <1>9, <1>10

\* VecDeque::remove(n): the n-th leaves the queue, the others keep their order.
LEMMA TakenOut ==
  ASSUME NEW S, NEW s \in Seq(S), NEW n \in 1..Len(s), Distinct(s)
  PROVE  /\ RemoveAt(s, n) \in Seq(S) /\ Distinct(RemoveAt(s, n))
         /\ ~Holds(RemoveAt(s, n), s[n])
         /\ \A t : t # s[n] => (Holds(RemoveAt(s, n), t) <=> Holds(s, t))
<1> DEFINE w == RemoveAt(s, n)
<1>1. \/ w = SubSeq(s, n + 1, Len(s)) \o SubSeq(s, 1, n - 1)
      \/ w = SubSeq(s, 1, n - 1) \o SubSeq(s, n + 1, Len(s))
  BY DEF RemoveAt
<1> HIDE DEF w
<1>2. /\ w \in Seq(S) /\ Distinct(w) /\ ~Holds(w, s[n])
      /\ \A t : t # s[n] => (Holds(w, t) <=> Holds(s, t))
  BY <1>1, Removed, Zenon
<1> QED
  BY <1>2 DEF w

\* What is left of a queue whose n-th is taken out and whose first n - 1 entries
\* go behind the others.
LEMMA TurnedOut ==
  ASSUME NEW S, NEW s \in Seq(S), NEW n \in 1..Len(s), Distinct(s)
  PROVE  LET w == SubSeq(s, n + 1, Len(s)) \o SubSeq(s, 1, n - 1)
         IN  /\ w \in Seq(S) /\ Distinct(w) /\ ~Holds(w, s[n])
             /\ \A t : t # s[n] => (Holds(w, t) <=> Holds(s, t))
<1> DEFINE w == SubSeq(s, n + 1, Len(s)) \o SubSeq(s, 1, n - 1)
<1>1. \/ w = SubSeq(s, n + 1, Len(s)) \o SubSeq(s, 1, n - 1)
      \/ w = SubSeq(s, 1, n - 1) \o SubSeq(s, n + 1, Len(s))
  OBVIOUS
<1> HIDE DEF w
<1>2. /\ w \in Seq(S) /\ Distinct(w) /\ ~Holds(w, s[n])
      /\ \A t : t # s[n] => (Holds(w, t) <=> Holds(s, t))
  BY <1>1, Removed, Zenon
<1> QED
  BY <1>2 DEF w

\* Removing the first is popping it: the others move one place forward.
LEMMA FirstTakenOut ==
  ASSUME NEW S, NEW s \in Seq(S), Len(s) >= 1
  PROVE  /\ RemoveAt(s, 1) = SubSeq(s, 1 + 1, Len(s)) \o SubSeq(s, 1, 1 - 1)
         /\ DOMAIN RemoveAt(s, 1) = 1..(Len(s) - 1)
         /\ \A k \in 1..(Len(s) - 1) : RemoveAt(s, 1)[k] = s[k + 1]
<1> DEFINE two == 2
           L == Len(s)
           t == SubSeq(s, two, L)
<1>1. L \in Nat /\ two \in Nat /\ 1 <= two /\ two <= L + 1 /\ L <= Len(s)
  OBVIOUS
<1> HIDE DEF two
<1>2. /\ t \in Seq(S) /\ Len(t) = L - two + 1
      /\ \A k \in 1..(L - two + 1) : t[k] = s[two + k - 1]
  BY <1>1, Sliced
<1>3. SubSeq(s, 1, 0) = <<>>
  BY SubSeqEmpty
<1> HIDE DEF t
<1>4. <<>> \o t = t /\ t \o <<>> = t
  BY <1>2, ConcatEmptySeq
<1>5. RemoveAt(s, 1) = t /\ SubSeq(s, 1 + 1, Len(s)) \o SubSeq(s, 1, 1 - 1) = t
  BY <1>3, <1>4 DEF RemoveAt, t, two
<1>6. L - two + 1 = L - 1 /\ \A k \in 1..(L - 1) : two + k - 1 = k + 1
  BY <1>1 DEF two
<1>7. DOMAIN t = 1..(Len(s) - 1)
  BY <1>2, <1>6, LenProperties
<1> QED
  <2>1. \A k \in 1..(Len(s) - 1) : t[k] = s[k + 1]
    BY <1>2, <1>6
  <2> QED
    BY <1>5, <1>7, <2>1

\* The queue after a push of somebody who was not in it.
LEMMA Pushed ==
  ASSUME NEW S, NEW s \in Seq(S), NEW e \in S, Distinct(s), ~Holds(s, e)
  PROVE  /\ Append(s, e) \in Seq(S) /\ Distinct(Append(s, e))
         /\ \A t : Holds(Append(s, e), t) <=> Holds(s, t) \/ t = e
<1>1. /\ Append(s, e) \in Seq(S) /\ Len(s) \in Nat /\ DOMAIN s = 1..Len(s)
      /\ DOMAIN Append(s, e) = 1..(Len(s) + 1)
      /\ \A k \in 1..Len(s) : Append(s, e)[k] = s[k]
      /\ Append(s, e)[Len(s) + 1] = e
  OBVIOUS
<1>2. Distinct(Append(s, e))
  BY <1>1 DEF Distinct, Holds
<1>3. ASSUME NEW t, Holds(Append(s, e), t) PROVE Holds(s, t) \/ t = e
  BY <1>1, <1>3 DEF Holds
<1>4. ASSUME NEW t, Holds(s, t) \/ t = e PROVE Holds(Append(s, e), t)
  <2>1. CASE t = e
    <3>1. Len(s) + 1 \in DOMAIN Append(s, e)
      BY <1>1
    <3> QED
      BY <1>1, <2>1, <3>1 DEF Holds
  <2>2. CASE Holds(s, t)
    <3>1. PICK k \in 1..Len(s) : s[k] = t
      BY <1>1, <2>2 DEF Holds
    <3>2. k \in DOMAIN Append(s, e) /\ Append(s, e)[k] = t
      BY <1>1, <3>1
    <3> QED
      BY <3>2 DEF Holds
  <2> QED
    BY <1>4, <2>1, <2>2
<1> QED
  BY <1>1, <1>2, <1>3, <1>4
=============================================================================
