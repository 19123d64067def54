-------------------------- MODULE HttpClientProofs --------------------------
(***************************************************************************)
(* What the limiter and a GET over it promise, proved for any callers,     *)
(* rate, cost, capacity and number of attempts: the bound on a window; the *)
(* tasks use the shared limiter only by its protocol, so all that is       *)
(* proved of the limiter holds under the client; a call is in the limiter  *)
(* just while it acquires; and retries and outcomes follow the answers.    *)
(***************************************************************************)
EXTENDS HttpClient, SequenceTheorems, TLAPS

-----------------------------------------------------------------------------
(* The limiter *)

\* What the bucket still owes the observer: once a token was taken in the
\* window, the last refill lies in the window, and the tokens taken, what is
\* left and what has flowed in since add up.
Ledger ==
    spent > 0 =>
        /\ age <= window
        /\ Cost * spent + level + Rate * age <= Capacity + Rate * window

\* What a sleeper will find when its sleep is over.
SleepCovers ==
    \A c \in asleep : c = owner /\ Rate * (age + due[c]) + level >= Cost

LimiterInv == LimiterTypeOK /\ Ledger /\ SleepCovers

-----------------------------------------------------------------------------

\* The refill never exceeds the capacity nor what flowed in.
LEMMA RefillBounds ==
    ASSUME LimiterTypeOK
    PROVE  /\ Refilled \in 0..Capacity
           /\ Refilled <= level + Rate * age
           /\ Refilled >= level
  <1>1. Rate * age \in Nat
    BY BucketAssumption, BoundsAssumption DEF LimiterTypeOK
  <1> QED
    BY <1>1, BucketAssumption DEF LimiterTypeOK, Refilled

\* Passing the lock on keeps its types.
LEMMA PassLockTypes ==
    ASSUME LimiterTypeOK, PassLock
    PROVE  owner' \in Callers \cup {Nobody} /\ queue' \in Seq(Callers)
  <1>1. CASE queue = <<>>
    BY <1>1 DEF PassLock, NextOwner, LimiterTypeOK
  <1>2. CASE queue # <<>>
    BY <1>2 DEF PassLock, NextOwner, LimiterTypeOK
  <1> QED
    BY <1>1, <1>2

\* The inductive invariant holds of every reachable state.
THEOREM LimiterInvariance == LimiterSpec => []LimiterInv
  <1>1. LimiterInit => LimiterInv
    <2> SUFFICES ASSUME LimiterInit PROVE LimiterInv
      OBVIOUS
    <2>1. LimiterTypeOK
      BY BucketAssumption, BoundsAssumption DEF LimiterInit, LimiterTypeOK
    <2>2. Ledger /\ SleepCovers
      BY DEF LimiterInit, Ledger, SleepCovers
    <2> QED
      BY <2>1, <2>2 DEF LimiterInv
  <1>2. LimiterInv /\ [LimiterNext]_limiterVars => LimiterInv'
    <2> SUFFICES ASSUME LimiterInv, [LimiterNext]_limiterVars PROVE LimiterInv'
      OBVIOUS
    <2> USE DEF LimiterInv
    <2>1. ASSUME NEW c \in Callers, Ask(c) PROVE LimiterInv'
      <3>1. LimiterTypeOK'
        <4>1. owner' \in Callers \cup {Nobody} /\ queue' \in Seq(Callers)
          <5>1. CASE owner' = c /\ UNCHANGED queue
            BY <5>1 DEF LimiterTypeOK
          <5>2. CASE queue' = Append(queue, c) /\ UNCHANGED owner
            BY <5>2 DEF LimiterTypeOK
          <5> QED
            BY <2>1, <5>1, <5>2 DEF Ask
        <4> QED
          BY <2>1, <4>1 DEF Ask, LimiterTypeOK
      <3>2. Ledger'
        BY <2>1 DEF Ask, Ledger
      <3>3. SleepCovers'
        BY <2>1, CallersAssumption DEF Ask, SleepCovers, LimiterTypeOK
      <3> QED
        BY <3>1, <3>2, <3>3
    <2>2. ASSUME NEW c \in Callers, Grant(c) PROVE LimiterInv'
      <3>1. /\ owner = c /\ Refilled >= Cost /\ level' = Refilled - Cost
            /\ age' = 0 /\ asleep' = asleep \ {c} /\ spent' = spent + 1
            /\ PassLock /\ due' = due /\ window' = window
        BY <2>2 DEF Grant, AtLoopHead
      <3>2. asleep' = {}
        BY <3>1 DEF SleepCovers
      <3>3. LimiterTypeOK'
        <4>1. level' \in 0..Capacity /\ age' \in 0..FullAge
          BY <3>1, RefillBounds, BucketAssumption, BoundsAssumption DEF LimiterTypeOK
        <4>2. owner' \in Callers \cup {Nobody} /\ queue' \in Seq(Callers)
          BY <3>1, PassLockTypes
        <4>3. /\ due' \in [Callers -> 0..Cost] /\ asleep' \subseteq Callers
              /\ window' \in 0..MaxWindow /\ spent' \in Nat
          BY <3>1, <3>2 DEF LimiterTypeOK
        <4> QED
          BY <4>1, <4>2, <4>3 DEF LimiterTypeOK
      <3>4. Cost * spent + Refilled <= Capacity + Rate * window
        <4>1. Rate * window \in Nat /\ Rate * age \in Nat
          BY BucketAssumption, BoundsAssumption DEF LimiterTypeOK
        <4>2. CASE spent = 0
          BY <4>1, <4>2, RefillBounds, BucketAssumption
        <4>3. CASE spent > 0
          BY <4>1, <4>3, RefillBounds, BucketAssumption DEF Ledger, LimiterTypeOK
        <4> QED
          BY <4>2, <4>3 DEF LimiterTypeOK
      <3>5. /\ Cost * spent' = Cost * spent + Cost
            /\ Rate * age' = 0 /\ Rate * window' = Rate * window
        BY <3>1, BucketAssumption DEF LimiterTypeOK
      <3>6. Ledger'
        <4>1. /\ Cost * spent \in Int /\ Rate * window \in Int
              /\ Refilled \in Int /\ Cost \in Int /\ Capacity \in Int
          BY RefillBounds, BucketAssumption DEF LimiterTypeOK
        <4>2. Cost * spent' + level' + Rate * age' = Cost * spent + Refilled
          BY <3>1, <3>5, <4>1
        <4>3. age' <= window'
          BY <3>1 DEF LimiterTypeOK
        <4> QED
          BY <3>4, <3>5, <4>2, <4>3 DEF Ledger
      <3> QED
        BY <3>2, <3>3, <3>6 DEF SleepCovers
    <2>3. ASSUME NEW c \in Callers, Doze(c) PROVE LimiterInv'
      <3>1. /\ owner = c /\ Refilled < Cost /\ level' = Refilled /\ age' = 0
            /\ asleep' = asleep \cup {c}
            /\ UNCHANGED <<owner, queue, window, spent>>
        BY <2>3 DEF Doze, AtLoopHead
      <3>2. PICK d \in 0..Cost : /\ SleepNeeded(Refilled, d)
                                 /\ due' = [due EXCEPT ![c] = d]
        BY <2>3 DEF Doze
      <3>3. asleep' = {c}
        BY <3>1 DEF SleepCovers
      <3>4. LimiterTypeOK'
        BY <3>1, <3>2, <3>3, RefillBounds, BoundsAssumption DEF LimiterTypeOK
      <3>5. Rate * d \in Nat /\ Rate * d >= Cost - Refilled
        BY <3>2, BucketAssumption DEF SleepNeeded
      <3>6. age' + due'[c] = d
        BY <3>1, <3>2 DEF LimiterTypeOK
      <3>7. SleepCovers'
        BY <3>1, <3>3, <3>5, <3>6, RefillBounds, BucketAssumption DEF SleepCovers
      <3>8. Rate * window \in Nat /\ Rate * age \in Nat /\ Cost * spent \in Nat
        BY BucketAssumption, BoundsAssumption DEF LimiterTypeOK
      <3>9. Ledger'
        <4>1. Rate * 0 = 0
          BY BucketAssumption
        <4> QED
          BY <3>1, <3>8, <4>1, RefillBounds, BucketAssumption DEF Ledger, LimiterTypeOK
      <3> QED
        BY <3>4, <3>7, <3>9
    <2>4. ASSUME NEW c \in Callers, CancelAcquire(c) PROVE LimiterInv'
      <3>1. UNCHANGED <<level, age, window, spent>>
        BY <2>4 DEF CancelAcquire
      <3>2. Ledger'
        BY <3>1 DEF Ledger
      <3>3. CASE owner = c /\ PassLock /\ asleep' = asleep \ {c} /\ due' = [due EXCEPT ![c] = 0]
        <4>1. asleep' = {}
          BY <3>3 DEF SleepCovers
        <4>2. LimiterTypeOK'
          BY <3>1, <3>3, <4>1, PassLockTypes, BucketAssumption DEF LimiterTypeOK
        <4> QED
          BY <3>2, <4>1, <4>2 DEF SleepCovers
      <3>4. ASSUME NEW i \in DOMAIN queue,
                   queue' = SubSeq(queue, 1, i - 1) \o SubSeq(queue, i + 1, Len(queue)),
                   UNCHANGED <<owner, asleep, due>>
            PROVE  LimiterInv'
        <4>1. /\ SubSeq(queue, 1, i - 1) \in Seq(Callers)
              /\ SubSeq(queue, i + 1, Len(queue)) \in Seq(Callers)
          <5>1. queue \in Seq(Callers) /\ i \in 1..Len(queue)
            BY DEF LimiterTypeOK
          <5> QED
            BY <5>1, SubSeqProperties
        <4>2. LimiterTypeOK'
          <5>1. queue' \in Seq(Callers)
            BY <3>4, <4>1, ConcatProperties
          <5> QED
            BY <3>1, <3>4, <5>1 DEF LimiterTypeOK
        <4> QED
          BY <3>1, <3>2, <3>4, <4>2 DEF SleepCovers
      <3> QED
        BY <2>4, <3>3, <3>4 DEF CancelAcquire
    <2>5. CASE Tick
      <3>1. /\ age' = IF age < FullAge THEN age + 1 ELSE age
            /\ due' = [c \in Callers |-> IF due[c] > 0 THEN due[c] - 1 ELSE 0]
            /\ UNCHANGED <<level, owner, queue, asleep>>
        BY <2>5 DEF Tick
      <3>2. LimiterTypeOK'
        <4>1. due' \in [Callers -> 0..Cost]
          BY <3>1, BucketAssumption DEF LimiterTypeOK
        <4>2. age' \in 0..FullAge
          BY <3>1, BoundsAssumption DEF LimiterTypeOK
        <4>3. window' \in 0..MaxWindow /\ spent' \in Nat
          BY <2>5, BoundsAssumption DEF Tick, LimiterTypeOK
        <4> QED
          BY <3>1, <4>1, <4>2, <4>3 DEF LimiterTypeOK
      <3>3. ASSUME NEW c \in asleep
            PROVE  Rate * (age' + due'[c]) + level >= Cost
        <4>1. /\ c \in Callers /\ due[c] \in Nat /\ age \in 0..FullAge /\ level \in Nat
              /\ Rate * (age + due[c]) + level >= Cost
          BY <3>3 DEF LimiterTypeOK, SleepCovers
        <4>2. CASE age < FullAge
          <5>1. age' + due'[c] = age + due[c] \/ age' + due'[c] = (age + due[c]) + 1
            BY <3>1, <4>1, <4>2, BoundsAssumption
          <5>2. Rate * ((age + due[c]) + 1) = Rate * (age + due[c]) + Rate
            BY <4>1, BucketAssumption, BoundsAssumption
          <5> QED
            BY <4>1, <5>1, <5>2, BucketAssumption, BoundsAssumption
        <4>3. CASE age = FullAge
          <5>1. age' = FullAge /\ due'[c] \in Nat
            BY <3>1, <4>1, <4>3, BoundsAssumption
          <5>2. Rate * (FullAge + due'[c]) = Rate * FullAge + Rate * due'[c]
            BY <5>1, BucketAssumption, BoundsAssumption
          <5>3. Rate * due'[c] \in Nat /\ Rate * FullAge \in Nat
            BY <5>1, BucketAssumption, BoundsAssumption
          <5> QED
            BY <4>1, <5>1, <5>2, <5>3, BucketAssumption, BoundsAssumption
        <4> QED
          BY <4>1, <4>2, <4>3, BoundsAssumption
      <3>4. SleepCovers'
        BY <3>1, <3>3 DEF SleepCovers
      <3>5. Ledger'
        <4>1. CASE window < MaxWindow
          <5>1. window' = window + 1 /\ spent' = spent
            BY <2>5, <4>1 DEF Tick
          <5>2. Rate * (window + 1) = Rate * window + Rate /\ Rate * (age + 1) = Rate * age + Rate
            BY BucketAssumption, BoundsAssumption DEF LimiterTypeOK
          <5>3. Rate * window \in Nat /\ Rate * age \in Nat /\ Cost * spent \in Nat
            BY BucketAssumption, BoundsAssumption DEF LimiterTypeOK
          <5> QED
            BY <3>1, <5>1, <5>2, <5>3, BucketAssumption, BoundsAssumption
            DEF Ledger, LimiterTypeOK
        <4>2. CASE ~(window < MaxWindow)
          BY <2>5, <4>2 DEF Tick, Ledger
        <4> QED
          BY <4>1, <4>2
      <3> QED
        BY <3>2, <3>4, <3>5
    <2>6. CASE Watch
      BY <2>6, BoundsAssumption DEF Watch, LimiterTypeOK, Ledger, SleepCovers
    <2>7. CASE UNCHANGED limiterVars
      BY <2>7 DEF limiterVars, LimiterTypeOK, Ledger, SleepCovers
    <2> QED
      BY <2>1, <2>2, <2>3, <2>4, <2>5, <2>6, <2>7 DEF LimiterNext
  <1> QED
    BY <1>1, <1>2, PTL DEF LimiterSpec

\* Every reachable state has the types the module declares.
THEOREM LimiterTypeCorrect == LimiterSpec => []LimiterTypeOK
  BY LimiterInvariance, PTL DEF LimiterInv

\* In any window of w ticks at most Capacity + Rate * w units are taken.
THEOREM WindowCorrect == LimiterSpec => []WindowBound
  <1>1. LimiterInv => WindowBound
    <2> SUFFICES ASSUME LimiterInv PROVE WindowBound
      OBVIOUS
    <2>1. /\ Rate * age \in Nat /\ Rate * window \in Nat /\ Cost * spent \in Nat
          /\ level \in Nat /\ Capacity \in Nat
      BY BucketAssumption, BoundsAssumption DEF LimiterInv, LimiterTypeOK
    <2>2. CASE spent = 0
      BY <2>1, <2>2, BucketAssumption DEF WindowBound
    <2>3. CASE spent > 0
      BY <2>1, <2>3 DEF LimiterInv, Ledger, WindowBound
    <2> QED
      BY <2>2, <2>3 DEF LimiterInv, LimiterTypeOK
  <1> QED
    BY <1>1, LimiterInvariance, PTL

\* A caller that has slept finds its token.
THEOREM OneSleepCorrect == LimiterSpec => []OneSleepSuffices
  <1>1. LimiterInv => OneSleepSuffices
    <2> SUFFICES ASSUME LimiterInv, NEW c \in asleep, due[c] = 0
                 PROVE  Refilled >= Cost
      BY DEF OneSleepSuffices
    <2>1. age + due[c] = age
      BY DEF LimiterInv, LimiterTypeOK
    <2>2. Rate * age + level >= Cost
      BY <2>1 DEF LimiterInv, SleepCovers
    <2>3. Rate * age \in Nat /\ level \in Nat
      BY BucketAssumption, BoundsAssumption DEF LimiterInv, LimiterTypeOK
    <2> QED
      BY <2>2, <2>3, BucketAssumption DEF Refilled
  <1> QED
    BY <1>1, LimiterInvariance, PTL

-----------------------------------------------------------------------------
(* The client is a user of the limiter *)

LEMMA ClientStepIsLimiters ==
    [ClientNext]_clientVars => [LimiterNext]_limiterVars
<1> SUFFICES ASSUME [ClientNext]_clientVars PROVE [LimiterNext]_limiterVars
  OBVIOUS
<1>1. CASE UNCHANGED clientVars
  BY <1>1 DEF clientVars
<1>2. ASSUME NEW c \in Callers,
             \/ Get(c) \/ Send(c) \/ Throttled(c) \/ Hear(c)
             \/ Retry(c) \/ CancelGet(c) \/ NextGet(c)
      PROVE  Ask(c) \/ Grant(c) \/ Doze(c) \/ CancelAcquire(c) \/ UNCHANGED limiterVars
  BY <1>2 DEF Get, Send, Throttled, Hear, Retry, CancelGet, NextGet
<1>3. CASE TimePasses
  BY <1>3 DEF TimePasses, LimiterNext
<1>4. CASE \E c \in Callers :
              \/ Get(c) \/ Send(c) \/ Throttled(c) \/ Hear(c)
              \/ Retry(c) \/ CancelGet(c) \/ NextGet(c)
  BY <1>2, <1>4 DEF LimiterNext
<1> QED BY <1>1, <1>3, <1>4 DEF ClientNext

\* Whatever the tasks do, the limiter behaves as RateLimiter says: the bound on
\* the tokens of a window, proved there, is a bound on the requests sent here.
THEOREM ClientImplementsLimiter == ClientSpec => LimiterSpec
<1>1. ClientInit => LimiterInit
  BY DEF ClientInit
<1> QED BY <1>1, ClientStepIsLimiters, PTL DEF ClientSpec, LimiterSpec

LEMMA ClientLimiterInv == ClientSpec => []LimiterInv
BY ClientImplementsLimiter, LimiterInvariance, PTL

-----------------------------------------------------------------------------
(* Who is in the limiter *)

InLimiter(c) == owner = c \/ Queued(c)

\* Nobody is in the limiter twice.
QueuedOnce ==
    /\ \A i, j \in DOMAIN queue : queue[i] = queue[j] => i = j
    /\ \A i \in DOMAIN queue : queue[i] # owner

\* Ask brings its caller in, and no other.
LEMMA AskMembers ==
    ASSUME LimiterTypeOK, QueuedOnce, NEW c \in Callers, Ask(c)
    PROVE  QueuedOnce' /\ \A d \in Callers : InLimiter(d)' <=> InLimiter(d) \/ d = c
<1> USE DEF QueuedOnce, InLimiter, Queued
<1>1. CASE owner = Nobody /\ owner' = c /\ queue = <<>> /\ queue' = queue
  BY <1>1, CallersAssumption
<1>2. CASE queue' = Append(queue, c) /\ owner' = owner
  <2>0. queue \in Seq(Callers)
    BY DEF LimiterTypeOK
  <2>1. /\ Len(queue) \in Nat /\ DOMAIN queue = 1 .. Len(queue)
        /\ DOMAIN queue' = 1 .. Len(queue) + 1
        /\ \A i \in DOMAIN queue : queue'[i] = queue[i]
        /\ queue'[Len(queue) + 1] = c
    BY <1>2, <2>0
  <2>2. owner # c /\ \A i \in DOMAIN queue : queue[i] # c
    BY DEF Ask
  <2>3. DOMAIN queue' = DOMAIN queue \cup {Len(queue) + 1}
    BY <2>1
  <2>4. QueuedOnce'
    BY <1>2, <2>1, <2>2, <2>3
  <2>5. \A d \in Callers : Queued(d)' <=> Queued(d) \/ d = c
    BY <2>1, <2>3
  <2> QED BY <1>2, <2>4, <2>5
<1> QED BY <1>1, <1>2 DEF Ask

\* queue' is queue without its n-th member.
Without(n) ==
    /\ DOMAIN queue' = 1 .. Len(queue) - 1
    /\ \A i \in 1 .. n - 1 : queue'[i] = queue[i]
    /\ \A i \in n .. Len(queue) - 1 : queue'[i] = queue[i + 1]

LEMMA WithoutMembers ==
    ASSUME LimiterTypeOK, QueuedOnce, NEW n \in DOMAIN queue, Without(n)
    PROVE  /\ \A i, j \in DOMAIN queue' : queue'[i] = queue'[j] => i = j
           /\ \A d : Queued(d)' <=> Queued(d) /\ d # queue[n]
<1>0. Len(queue) \in Nat /\ DOMAIN queue = 1 .. Len(queue) /\ n \in 1 .. Len(queue)
  BY DEF LimiterTypeOK
<1> DEFINE At(i) == IF i < n THEN i ELSE i + 1
<1>1. ASSUME NEW i \in DOMAIN queue'
      PROVE  At(i) \in DOMAIN queue \ {n} /\ queue'[i] = queue[At(i)]
  <2>0. i \in 1 .. Len(queue) - 1
    BY DEF Without
  <2>1. CASE i < n
    BY <1>0, <2>0, <2>1 DEF Without
  <2>2. CASE i >= n
    <3>1. i \in n .. Len(queue) - 1
      BY <1>0, <2>0, <2>2
    <3> QED BY <1>0, <2>0, <2>2, <3>1 DEF Without
  <2> QED BY <1>0, <2>0, <2>1, <2>2
<1>2. ASSUME NEW i \in DOMAIN queue', NEW j \in DOMAIN queue', At(i) = At(j)
      PROVE  i = j
  <2>1. i \in Int /\ j \in Int /\ n \in Int
    BY <1>0 DEF Without
  <2> QED BY <1>2, <2>1
<1>3. ASSUME NEW k \in DOMAIN queue \ {n}
      PROVE  \E i \in DOMAIN queue' : At(i) = k
  <2>1. CASE k < n
    <3>1. k \in DOMAIN queue' /\ At(k) = k
      BY <1>0, <2>1 DEF Without
    <3> QED BY <3>1
  <2>2. CASE k > n
    <3>1. k - 1 \in DOMAIN queue' /\ At(k - 1) = k
      BY <1>0, <2>2 DEF Without
    <3> QED BY <3>1
  <2> QED BY <1>0, <2>1, <2>2
<1> HIDE DEF At
<1>4. ASSUME NEW i \in DOMAIN queue', NEW j \in DOMAIN queue', queue'[i] = queue'[j]
      PROVE  i = j
  BY <1>1, <1>2, <1>4 DEF QueuedOnce
<1>5. ASSUME NEW d
      PROVE  Queued(d)' <=> Queued(d) /\ d # queue[n]
  BY <1>1, <1>3 DEF Queued, QueuedOnce
<1> QED BY <1>4, <1>5

\* Passing the lock takes its owner out, and no other.
LEMMA PassLockMembers ==
    ASSUME LimiterTypeOK, QueuedOnce, NEW c \in Callers, owner = c, PassLock
    PROVE  QueuedOnce' /\ \A d \in Callers : InLimiter(d)' <=> InLimiter(d) /\ d # c
<1>1. CASE queue = <<>>
  <2>1. owner' = Nobody /\ queue' = queue
    BY <1>1 DEF PassLock, NextOwner
  <2> QED BY <1>1, <2>1, CallersAssumption DEF QueuedOnce, InLimiter, Queued
<1>2. CASE queue # <<>>
  <2>0. queue \in Seq(Callers)
    BY DEF LimiterTypeOK
  <2>1. owner' = queue[1] /\ 1 \in DOMAIN queue /\ Without(1)
    <3>1. owner' = Head(queue) /\ queue' = Tail(queue)
      BY <1>2 DEF PassLock, NextOwner
    <3>2. owner' = queue[1] /\ 1 \in DOMAIN queue
      BY <1>2, <2>0, <3>1
    <3>3. Without(1)
      BY <1>2, <2>0, <3>1, HeadTailProperties DEF Without
    <3> QED BY <3>2, <3>3
  <2>2. /\ \A i, j \in DOMAIN queue' : queue'[i] = queue'[j] => i = j
        /\ \A d : Queued(d)' <=> Queued(d) /\ d # owner'
    BY <2>1, WithoutMembers
  <2>3. \A i \in DOMAIN queue' : queue'[i] # owner'
    BY <2>2 DEF Queued
  <2>4. Queued(owner') /\ ~Queued(c)
    BY <2>1 DEF Queued, QueuedOnce
  <2> QED BY <2>2, <2>3, <2>4 DEF QueuedOnce, InLimiter
<1> QED BY <1>1, <1>2

\* The i-th place of what follows place n of a queue is place n + i.
LEMMA TailIndex ==
    \A k \in Nat : \A n \in 1 .. k : \A i \in 1 .. k - n :
        i \in 1 .. k - (n + 1) + 1 /\ n + 1 + i - 1 = n + i
OBVIOUS

\* Leaving the queue takes one waiter out, and no other.
LEMMA LeaveMembers ==
    ASSUME LimiterTypeOK, QueuedOnce, NEW n \in DOMAIN queue,
           queue' = SubSeq(queue, 1, n - 1) \o SubSeq(queue, n + 1, Len(queue)),
           owner' = owner
    PROVE  /\ QueuedOnce'
           /\ \A d \in Callers : InLimiter(d)' <=> InLimiter(d) /\ d # queue[n]
<1> DEFINE l == SubSeq(queue, 1, n - 1)  r == SubSeq(queue, n + 1, Len(queue))
<1>0. queue \in Seq(Callers)
  BY DEF LimiterTypeOK
<1>00. n \in 1 .. Len(queue) /\ Len(queue) \in Nat /\ DOMAIN queue = 1 .. Len(queue)
  BY <1>0
<1>1. /\ l \in Seq(Callers) /\ Len(l) = n - 1
      /\ \A i \in 1 .. n - 1 : l[i] = queue[i]
  <2>1. \A i \in 1 .. n - 1 : queue[i] \in Callers
    BY <1>0, <1>00, ElementOfSeq
  <2>2. /\ l \in Seq(Callers) /\ Len(l) = IF 1 <= n - 1 THEN n - 1 - 1 + 1 ELSE 0
        /\ \A i \in 1 .. n - 1 - 1 + 1 : l[i] = queue[1 + i - 1]
    BY <1>00, <2>1, SubSeqProperties
  <2> QED BY <1>00, <2>2
<1>2. /\ r \in Seq(Callers) /\ Len(r) = Len(queue) - n
      /\ \A i \in 1 .. Len(queue) - n : r[i] = queue[n + i]
  <2>1. \A i \in n + 1 .. Len(queue) : queue[i] \in Callers
    BY <1>0, <1>00, ElementOfSeq
  <2>2. /\ r \in Seq(Callers)
        /\ Len(r) = IF n + 1 <= Len(queue) THEN Len(queue) - (n + 1) + 1 ELSE 0
        /\ \A i \in 1 .. Len(queue) - (n + 1) + 1 : r[i] = queue[n + 1 + i - 1]
    <3>1. n + 1 \in Int /\ n + 1 >= 1 /\ Len(queue) \in Int
      BY <1>00
    <3> QED BY <2>1, <3>1, SubSeqProperties
  <2>3. \A i \in 1 .. Len(queue) - n :
            i \in 1 .. Len(queue) - (n + 1) + 1 /\ n + 1 + i - 1 = n + i
    BY <1>00, TailIndex
  <2>4. Len(r) = Len(queue) - n
    <3> HIDE DEF r
    <3>1. Len(r) = IF n + 1 <= Len(queue) THEN Len(queue) - (n + 1) + 1 ELSE 0
      BY <2>2
    <3> QED BY <1>00, <3>1
  <2> QED BY <2>2, <2>3, <2>4
<1> HIDE DEF l, r
<1>3. queue' = l \o r
  BY DEF l, r
<1>4. Without(n)
  <2>1. /\ queue' \in Seq(Callers) /\ Len(queue') = Len(queue) - 1
        /\ \A i \in 1 .. Len(queue) - 1 :
              queue'[i] = IF i <= n - 1 THEN l[i] ELSE r[i - (n - 1)]
    <3>1. /\ queue' \in Seq(Callers) /\ Len(queue') = Len(l) + Len(r)
          /\ \A i \in 1 .. Len(l) + Len(r) :
                queue'[i] = IF i <= Len(l) THEN l[i] ELSE r[i - Len(l)]
      <4>1. l \in Seq(Callers) /\ r \in Seq(Callers)
        BY <1>1, <1>2
      <4>2. /\ l \o r \in Seq(Callers) /\ Len(l \o r) = Len(l) + Len(r)
            /\ \A i \in 1 .. Len(l) + Len(r) :
                  (l \o r)[i] = IF i <= Len(l) THEN l[i] ELSE r[i - Len(l)]
        BY <4>1, ConcatProperties
      <4> QED BY <1>3, <4>2, Zenon
    <3>2. Len(l) = n - 1 /\ Len(l) + Len(r) = Len(queue) - 1
      BY <1>00, <1>1, <1>2
    <3>3. \A i \in 1 .. Len(queue) - 1 :
              queue'[i] = IF i <= n - 1 THEN l[i] ELSE r[i - (n - 1)]
      <4>1. \A i \in 1 .. Len(l) + Len(r) :
                queue'[i] = IF i <= Len(l) THEN l[i] ELSE r[i - Len(l)]
        BY <3>1
      <4>2. Len(l) = n - 1
        BY <3>2
      <4>3. Len(l) + Len(r) = Len(queue) - 1
        BY <3>2
      <4>4. \A i \in 1 .. Len(queue) - 1 :
                queue'[i] = IF i <= Len(l) THEN l[i] ELSE r[i - Len(l)]
        BY <4>1, <4>3, Zenon
      <4> QED BY <4>2, <4>4, Zenon
    <3> QED BY <3>1, <3>2, <3>3, Zenon
  <2>2. DOMAIN queue' = 1 .. Len(queue) - 1
    <3>1. queue' \in Seq(Callers) /\ Len(queue') = Len(queue) - 1
      BY <2>1
    <3> QED BY <3>1
  <2>3. ASSUME NEW i \in 1 .. n - 1 PROVE queue'[i] = queue[i]
    BY <1>00, <1>1, <2>1
  <2>4. ASSUME NEW i \in n .. Len(queue) - 1 PROVE queue'[i] = queue[i + 1]
    <3>1. i \in 1 .. Len(queue) - 1 /\ ~(i <= n - 1)
          /\ i - (n - 1) \in 1 .. Len(queue) - n /\ n + (i - (n - 1)) = i + 1
      BY <1>00
    <3> QED BY <1>2, <2>1, <3>1
  <2> QED BY <2>2, <2>3, <2>4 DEF Without
<1>5. \A i \in DOMAIN queue' : queue'[i] # owner'
  <2>1. \A d : Queued(d)' => Queued(d)
    BY <1>4, WithoutMembers
  <2> QED BY <2>1 DEF QueuedOnce, Queued
<1>6. owner # queue[n]
  BY DEF QueuedOnce
<1> QED BY <1>4, <1>5, <1>6, WithoutMembers DEF QueuedOnce, InLimiter

\* A caller that is cancelled in the limiter was in it, and leaves it.
LEMMA CancelMembers ==
    ASSUME LimiterInv, QueuedOnce, NEW c \in Callers, CancelAcquire(c)
    PROVE  QueuedOnce' /\ \A d \in Callers : InLimiter(d)' <=> InLimiter(d) /\ d # c
<1>1. CASE owner = c /\ PassLock
  BY <1>1, PassLockMembers DEF LimiterInv
<1>2. ASSUME NEW n \in DOMAIN queue, queue[n] = c,
             queue' = SubSeq(queue, 1, n - 1) \o SubSeq(queue, n + 1, Len(queue)),
             owner' = owner
      PROVE  QueuedOnce' /\ \A d \in Callers : InLimiter(d)' <=> InLimiter(d) /\ d # c
  BY <1>2, LeaveMembers DEF LimiterInv
<1> QED BY <1>1, <1>2 DEF CancelAcquire

-----------------------------------------------------------------------------
(* The calls *)

Results == Errors \cup {"payload", None}

CallTypeOK ==
    /\ step \in [Callers -> Steps]
    /\ attempt \in [Callers -> Nat]
    /\ lastError \in [Callers -> Errors \cup {None}]
    /\ outcome \in [Callers -> Results]
    /\ heard \in [Callers -> Seq(Answers)]

\* The answers that ask for another attempt, as the properties list them.
Transient == {"timeout", "tooMany", "server"}

\* What c has heard accounts for its attempts, and its outcome for what it
\* heard.
CallOK(c) ==
    /\ step[c] = "idle" => heard[c] = <<>>
    /\ step[c] \in {"acquiring", "requested"} =>
          attempt[c] = Len(heard[c]) + 1 /\ attempt[c] <= MaxAttempts
    /\ step[c] \in {"backoff", "stalled"} => attempt[c] = Len(heard[c]) /\ attempt[c] < MaxAttempts
    /\ heard[c] # <<>> => Len(heard[c]) <= MaxAttempts
    /\ \A i \in DOMAIN heard[c] : i < Len(heard[c]) => heard[c][i] \in Transient
    /\ step[c] \in {"acquiring", "requested", "backoff", "stalled"} =>
          \A i \in DOMAIN heard[c] : heard[c][i] \in Transient
    /\ step[c] \in {"returned", "raised"} /\ heard[c] # <<>> =>
          LET n == Len(heard[c])
              last == heard[c][n]
          IN  /\ outcome[c] = IF last = "ok" THEN "payload" ELSE ErrorOf[last]
              /\ last \in Transient => n = MaxAttempts

Acquires(c) == InLimiter(c) <=> step[c] = "acquiring"

ClientInv ==
    /\ CallTypeOK
    /\ QueuedOnce
    /\ \A c \in Callers : CallOK(c) /\ Acquires(c)

\* Only c's call moves.
OnlyCall(c) ==
    \A d \in Callers \ {c} :
        /\ step'[d] = step[d] /\ attempt'[d] = attempt[d]
        /\ outcome'[d] = outcome[d] /\ heard'[d] = heard[d]

LEMMA OtherCalls ==
    ASSUME NEW c \in Callers, OnlyCall(c), NEW d \in Callers \ {c}, CallOK(d)
    PROVE  CallOK(d)'
BY DEF OnlyCall, CallOK

\* The limiter takes c in, lets it go, or leaves everybody where he is.
LEMMA LimiterEffect ==
    ASSUME LimiterInv, ClientInv, NEW c \in Callers,
           \/ Get(c) \/ Send(c) \/ Throttled(c) \/ Hear(c)
           \/ Retry(c) \/ CancelGet(c) \/ NextGet(c)
    PROVE  QueuedOnce' /\ \A d \in Callers : Acquires(d)'
<1> USE DEF ClientInv, CallTypeOK
<1>0. \A d \in Callers : InLimiter(d) <=> step[d] = "acquiring"
  BY DEF Acquires
<1>1. CASE step' = [step EXCEPT ![c] = "acquiring"] /\ Ask(c)
  BY <1>0, <1>1, AskMembers DEF LimiterInv, Acquires
<1>2. CASE Send(c)
  <2>1. owner = c /\ PassLock /\ step' = [step EXCEPT ![c] = "requested"]
    BY <1>2 DEF Send, Grant, AtLoopHead
  <2> QED BY <1>0, <2>1, PassLockMembers DEF LimiterInv, Acquires
<1>3. CASE CancelGet(c) /\ step[c] = "acquiring"
  <2>1. CancelAcquire(c) /\ step' = [step EXCEPT ![c] = "cancelled"]
    BY <1>3 DEF CancelGet, EndWith
  <2> QED BY <1>0, <2>1, CancelMembers DEF Acquires
<1>4. ASSUME owner' = owner, queue' = queue,
             \A d \in Callers : step'[d] = "acquiring" <=> step[d] = "acquiring"
      PROVE  QueuedOnce' /\ \A d \in Callers : Acquires(d)'
  BY <1>0, <1>4 DEF QueuedOnce, Acquires, InLimiter, Queued
<1>5. CASE Throttled(c)
  BY <1>4, <1>5 DEF Throttled, Doze, httpVars
<1>6. CASE Hear(c)
  <2>1. step[c] = "requested" /\ owner' = owner /\ queue' = queue
    BY <1>6 DEF Hear, limiterVars
  <2>2. \E kind \in {"raised", "returned", "backoff", "stalled"} :
           step' = [step EXCEPT ![c] = kind]
    BY <1>6 DEF Hear, HearRetryable, BackOff, EndWith
  <2> QED BY <1>4, <2>1, <2>2
<1>7. CASE CancelGet(c) /\ step[c] # "acquiring"
  <2>1. owner' = owner /\ queue' = queue /\ step' = [step EXCEPT ![c] = "cancelled"]
    BY <1>7 DEF CancelGet, EndWith, limiterVars
  <2> QED BY <1>4, <1>7, <2>1
<1>8. CASE NextGet(c)
  <2>1. /\ owner' = owner /\ queue' = queue /\ step' = [step EXCEPT ![c] = "idle"]
        /\ step[c] # "acquiring"
    BY <1>8 DEF NextGet, limiterVars
  <2> QED BY <1>4, <2>1
<1>9. CASE Get(c) /\ ~(MaxAttempts >= 1)
  <2>1. /\ owner' = owner /\ queue' = queue /\ step' = [step EXCEPT ![c] = "raised"]
        /\ step[c] = "idle"
    BY <1>9 DEF Get, limiterVars
  <2> QED BY <1>4, <2>1
<1>10. CASE Get(c) /\ MaxAttempts >= 1
  BY <1>1, <1>10 DEF Get
<1>11. CASE Retry(c)
  BY <1>1, <1>11 DEF Retry
<1> QED BY <1>2, <1>3, <1>5, <1>6, <1>7, <1>8, <1>9, <1>10, <1>11

\* An answer that does not end the call, or ends it, is accounted for.
LEMMA HearKeepsCall ==
    ASSUME CallTypeOK, NEW c \in Callers, CallOK(c), Hear(c)
    PROVE  CallTypeOK' /\ CallOK(c)' /\ OnlyCall(c)
<1> USE DEF CallTypeOK
<1>1. PICK a \in Answers :
          /\ heard' = [heard EXCEPT ![c] = Append(@, a)]
          /\ \/ a \in Retryable /\ HearRetryable(c, a)
             \/ /\ a = "ok"
                /\ EndWith(c, "returned", "payload")
                /\ UNCHANGED lastError
             \/ /\ a \notin Retryable \cup {"ok"}
                /\ EndWith(c, "raised", ErrorOf[a])
                /\ UNCHANGED lastError
  BY DEF Hear
<1>2. step[c] = "requested" /\ attempt' = attempt
  BY DEF Hear
<1> DEFINE n == Len(heard[c]) + 1
<1>3. /\ heard[c] \in Seq(Answers) /\ Len(heard[c]) \in Nat
      /\ DOMAIN heard[c] = 1 .. Len(heard[c])
  OBVIOUS
<1>4. /\ heard'[c] = Append(heard[c], a) /\ heard' \in [Callers -> Seq(Answers)]
      /\ \A d \in Callers \ {c} : heard'[d] = heard[d]
  BY <1>1
<1>5. /\ Len(heard'[c]) = n /\ DOMAIN heard'[c] = 1 .. n /\ heard'[c] # <<>>
      /\ heard'[c][n] = a
      /\ \A i \in 1 .. Len(heard[c]) : heard'[c][i] = heard[c][i]
  BY <1>3, <1>4
<1>6. attempt[c] = n /\ n <= MaxAttempts
      /\ \A i \in 1 .. Len(heard[c]) : heard[c][i] \in Transient
  BY <1>2, <1>3 DEF CallOK
<1>7. \A i \in DOMAIN heard'[c] : i < n => heard'[c][i] \in Transient
  BY <1>3, <1>5, <1>6
<1>8. \A e \in Answers \ {"ok"} : ErrorOf[e] \in Errors
  BY DEF Answers, ErrorOf, Errors
<1>9. CASE a \in Retryable /\ attempt[c] < MaxAttempts
  <2>1. /\ lastError' = [lastError EXCEPT ![c] = ErrorOf[a]]
        /\ outcome' = outcome
        /\ \/ step' = [step EXCEPT ![c] = "backoff"]
           \/ step' = [step EXCEPT ![c] = "stalled"]
    BY <1>1, <1>6, <1>9, AttemptsAssumption DEF HearRetryable, BackOff, Retryable
  <2>2. CallTypeOK'
    <3>1. step' \in [Callers -> Steps]
      BY <2>1 DEF Steps
    <3>2. attempt' \in [Callers -> Nat]
      BY <1>2
    <3>3. ErrorOf[a] \in Errors
      BY <1>8, <1>9 DEF Retryable
    <3>4. lastError' \in [Callers -> Errors \cup {None}]
      BY <2>1, <3>3
    <3>5. outcome' \in [Callers -> Results]
      BY <2>1
    <3>6. heard' \in [Callers -> Seq(Answers)]
      BY <1>4
    <3> HIDE DEF CallTypeOK
    <3> QED BY <3>1, <3>2, <3>4, <3>5, <3>6 DEF CallTypeOK
  <2>3. \A i \in DOMAIN heard'[c] : heard'[c][i] \in Transient
    <3>1. ASSUME NEW i \in DOMAIN heard'[c], i = n PROVE heard'[c][i] \in Transient
      BY <1>5, <1>9, <3>1 DEF Retryable, Transient
    <3>2. \A i \in DOMAIN heard'[c] : i < n \/ i = n
      BY <1>3, <1>5
    <3> QED BY <1>7, <3>1, <3>2
  <2>4. CallOK(c)'
    BY <1>2, <1>5, <1>6, <1>7, <1>9, <2>1, <2>3 DEF CallOK
  <2> QED BY <1>2, <1>4, <2>1, <2>2, <2>4 DEF OnlyCall
<1>10. CASE ~(a \in Retryable /\ attempt[c] < MaxAttempts)
  <2> DEFINE r == IF a = "ok" THEN "payload" ELSE ErrorOf[a]
  <2>1. PICK kind \in {"raised", "returned"} : EndWith(c, kind, r)
    BY <1>1, <1>6, <1>10, AttemptsAssumption DEF HearRetryable, Retryable
  <2>2. \/ lastError' = lastError
        \/ lastError' = [lastError EXCEPT ![c] = ErrorOf[a]] /\ a # "ok"
    BY <1>1 DEF HearRetryable, Retryable
  <2>3. r \in Errors \cup {"payload"}
    BY <1>8
  <2> HIDE DEF r
  <2>4. CallTypeOK'
    BY <1>2, <1>4, <1>8, <2>1, <2>2, <2>3 DEF EndWith, Steps, Results
  <2>5. a \in Transient => n = MaxAttempts
    BY <1>6, <1>10, AttemptsAssumption DEF Retryable, Transient
  <2>6. step'[c] = kind /\ outcome'[c] = r
    BY <2>1 DEF EndWith
  <2>7. CallOK(c)'
    BY <1>5, <1>6, <1>7, <2>5, <2>6 DEF CallOK, r
  <2>8. \A d \in Callers \ {c} : step'[d] = step[d] /\ outcome'[d] = outcome[d]
    BY <2>1 DEF EndWith
  <2> QED BY <1>2, <1>4, <2>4, <2>7, <2>8 DEF OnlyCall
<1> QED BY <1>9, <1>10

LEMMA CallStep ==
    ASSUME CallTypeOK, NEW c \in Callers, CallOK(c),
           \/ Get(c) \/ Send(c) \/ Hear(c)
           \/ Retry(c) \/ CancelGet(c) \/ NextGet(c)
    PROVE  CallTypeOK' /\ CallOK(c)' /\ OnlyCall(c)
<1> USE DEF CallTypeOK, CallOK, OnlyCall, Steps
<1>0. Len(heard[c]) \in Nat /\ "AssertionError" \in Results /\ "CancelledError" \in Results
      /\ None \in Results
  BY DEF Results, Errors
<1>1. CASE Get(c)
  <2>1. CASE MaxAttempts >= 1
    <3>1. /\ step' = [step EXCEPT ![c] = "acquiring"]
          /\ attempt' = [attempt EXCEPT ![c] = 1]
          /\ heard' = heard /\ outcome' = outcome /\ lastError' = lastError
          /\ step[c] = "idle" /\ heard[c] = <<>>
      BY <1>1, <2>1 DEF Get
    <3> QED BY <2>1, <3>1
  <2>2. CASE ~(MaxAttempts >= 1)
    <3>1. /\ step' = [step EXCEPT ![c] = "raised"]
          /\ outcome' = [outcome EXCEPT ![c] = "AssertionError"]
          /\ heard' = heard /\ attempt' = attempt /\ lastError' = lastError
          /\ step[c] = "idle" /\ heard[c] = <<>>
      BY <1>1, <2>2 DEF Get
    <3> QED BY <1>0, <3>1
  <2> QED BY <2>1, <2>2
<1>2. CASE Send(c)
  BY <1>2 DEF Send
<1>3. CASE Hear(c)
  BY <1>3, HearKeepsCall
<1>4. CASE Retry(c)
  BY <1>0, <1>4, AttemptsAssumption DEF Retry
<1>5. CASE CancelGet(c)
  BY <1>0, <1>5 DEF CancelGet, EndWith
<1>6. CASE NextGet(c)
  <2>1. heard'[c] = <<>> /\ step'[c] = "idle"
    BY <1>6 DEF NextGet
  <2>2. CallOK(c)'
    BY <2>1
  <2>3. heard' \in [Callers -> Seq(Answers)]
    BY <1>6 DEF NextGet
  <2> QED BY <1>0, <1>6, <2>2, <2>3 DEF NextGet
<1> QED BY <1>1, <1>2, <1>3, <1>4, <1>5, <1>6

LEMMA ClientInvariant == ClientSpec => []ClientInv
<1>1. ClientInit => ClientInv
  <2> SUFFICES ASSUME ClientInit PROVE ClientInv
    OBVIOUS
  <2>1. CallTypeOK
    BY DEF ClientInit, CallTypeOK, Steps, Results
  <2>2. owner = Nobody /\ queue = <<>>
    BY DEF ClientInit, LimiterInit
  <2>3. QueuedOnce
    BY <2>2 DEF QueuedOnce
  <2>4. ASSUME NEW c \in Callers PROVE CallOK(c) /\ Acquires(c)
    <3>1. heard[c] = <<>> /\ step[c] = "idle"
      BY DEF ClientInit
    <3>2. CallOK(c)
      BY <3>1 DEF CallOK
    <3>3. Acquires(c)
      BY <2>2, <3>1, CallersAssumption DEF Acquires, InLimiter, Queued
    <3> QED BY <3>2, <3>3
  <2> QED BY <2>1, <2>3, <2>4 DEF ClientInv
<1>2. LimiterInv /\ ClientInv /\ [ClientNext]_clientVars => ClientInv'
  <2> SUFFICES ASSUME LimiterInv, ClientInv, [ClientNext]_clientVars PROVE ClientInv'
    OBVIOUS
  <2>1. CASE UNCHANGED httpVars /\ UNCHANGED <<owner, queue>>
    BY <2>1 DEF httpVars, ClientInv, CallTypeOK, CallOK, Acquires, InLimiter, Queued,
                QueuedOnce
  <2>2. CASE TimePasses \/ UNCHANGED clientVars
    BY <2>1, <2>2 DEF TimePasses, Tick, clientVars, limiterVars
  <2>3. ASSUME NEW c \in Callers, Throttled(c) PROVE ClientInv'
    BY <2>1, <2>3 DEF Throttled, Doze
  <2>4. ASSUME NEW c \in Callers,
               Get(c) \/ Send(c) \/ Hear(c) \/ Retry(c) \/ CancelGet(c) \/ NextGet(c)
        PROVE  ClientInv'
    <3>1. CallTypeOK' /\ CallOK(c)' /\ OnlyCall(c)
      BY <2>4, CallStep DEF ClientInv
    <3>2. QueuedOnce' /\ \A d \in Callers : Acquires(d)'
      BY <2>4, LimiterEffect
    <3>3. \A d \in Callers \ {c} : CallOK(d)'
      BY <3>1, OtherCalls DEF ClientInv
    <3> QED BY <3>1, <3>2, <3>3 DEF ClientInv
  <2> QED BY <2>2, <2>3, <2>4 DEF ClientNext
<1> QED BY <1>1, <1>2, ClientLimiterInv, PTL DEF ClientSpec

\* In every reachable state no answer but a timeout, a 429 or a server error
\* was followed by another request, and no call made more than MaxAttempts.
THEOREM RetriesCorrect == ClientSpec => []OnlyRetryableRetried
<1>1. ClientInv => OnlyRetryableRetried
  BY DEF ClientInv, CallOK, OnlyRetryableRetried, Transient
<1> QED BY <1>1, ClientInvariant, PTL

\* In every reachable state a call that has returned or raised tells how its
\* last attempt ended.
THEOREM OutcomeCorrect == ClientSpec => []OutcomeTellsLastAnswer
<1>1. ClientInv => OutcomeTellsLastAnswer
  BY DEF ClientInv, CallOK, OutcomeTellsLastAnswer, Transient
<1> QED BY <1>1, ClientInvariant, PTL

\* In every reachable state the limiter holds exactly the calls that acquire:
\* no cancelled, waiting or finished call keeps others out.
THEOREM LimiterFree == ClientSpec => []LimiterFreeOfOthers
<1>1. ClientInv => LimiterFreeOfOthers
  BY DEF ClientInv, Acquires, InLimiter, LimiterFreeOfOthers
<1> QED BY <1>1, ClientInvariant, PTL

\* The bound on the tokens of a window holds of the requests of all the tasks.
THEOREM ClientWindowCorrect == ClientSpec => []WindowBound
BY ClientImplementsLimiter, WindowCorrect, PTL

=============================================================================
