----------------------------- MODULE RateLimiter -----------------------------
(***************************************************************************)
(* collectors/rate_limit.py, AsyncRateLimiter: the token bucket one HTTP   *)
(* client shares among its callers.  A caller refills the bucket and takes *)
(* its token while it holds an asyncio.Lock, and keeps the lock while it   *)
(* sleeps for what is missing.  The lock serves its waiters in order.      *)
(*                                                                         *)
(* Time is discrete and amounts are integers: the bucket gains Rate units  *)
(* per tick, a token is Cost units.  A sleep lasts at least what was asked *)
(* for, rounded up to a tick.  The rounding of floats is not modelled.     *)
(***************************************************************************)
EXTENDS Integers, Sequences

CONSTANTS
    Callers, Nobody,
    Rate, Cost, Capacity,
    FullAge,    \* bound: age is counted up to here, where the bucket is full
    MaxWindow   \* bound: the observer measures windows up to this length

ASSUME CallersAssumption == Nobody \notin Callers
\* __init__ refuses a rate that is not positive; http.py passes no capacity,
\* so it is max(rate, 1) tokens.
ASSUME BucketAssumption == /\ Rate \in Nat \ {0} /\ Cost \in Nat \ {0}
                           /\ Capacity \in Nat /\ Capacity >= Cost
ASSUME BoundsAssumption == /\ FullAge \in Nat /\ Rate * FullAge >= Capacity
                           /\ MaxWindow \in Nat

VARIABLES
    level,      \* _tokens
    age,        \* ticks since _updated_at
    owner,      \* who holds _lock
    queue,      \* who waits for it, in order
    due,        \* caller -> ticks left of its sleep
    asleep,     \* the callers that sleep
    window,     \* observer: ticks since it began to watch
    spent       \* observer: tokens taken since then

limiterVars == <<level, age, owner, queue, due, asleep, window, spent>>

LimiterInit ==
    /\ level = Capacity
    /\ age = 0
    /\ owner = Nobody
    /\ queue = <<>>
    /\ due = [c \in Callers |-> 0]
    /\ asleep = {}
    /\ window = 0
    /\ spent = 0

Queued(c) == \E i \in DOMAIN queue : queue[i] = c

-----------------------------------------------------------------------------
(* The bucket *)

\* Mutant: the refill is not capped.
RefilledUncapped == level + Rate * age

\* The level after the refill every attempt begins with.
Refilled == IF level + Rate * age < Capacity THEN level + Rate * age ELSE Capacity

\* Mutant: one tick short, as if the wait were rounded down.
SleepNeededShort(l, d) == Rate * d < Cost - l /\ Cost - l <= Rate * (d + 1)

\* d ticks bring level l up to a token, and fewer do not.
SleepNeeded(l, d) == Rate * d >= Cost - l /\ Rate * (d - 1) < Cost - l

-----------------------------------------------------------------------------
(* The lock *)

\* acquire() is called: the lock is taken at once, or waited for.
Ask(c) ==
    /\ owner # c /\ ~Queued(c)
    /\ IF owner = Nobody /\ queue = <<>>
       THEN owner' = c /\ UNCHANGED queue
       ELSE queue' = Append(queue, c) /\ UNCHANGED owner
    /\ UNCHANGED <<level, age, due, asleep, window, spent>>

\* A free lock goes to the first waiter.
NextOwner == IF queue = <<>> THEN Nobody ELSE Head(queue)

\* Mutant: the lock is let go and no waiter is woken.
PassLockToNobody == owner' = Nobody /\ UNCHANGED queue

PassLock ==
    /\ owner' = NextOwner
    /\ queue' = IF queue = <<>> THEN queue ELSE Tail(queue)


\* The owner is at the head of its loop.
AtLoopHead(c) == owner = c /\ (c \in asleep => due[c] = 0)

\* The bucket holds a token: it is taken and acquire() returns.
Grant(c) ==
    /\ AtLoopHead(c)
    /\ Refilled >= Cost
    /\ level' = Refilled - Cost
    /\ age' = 0
    /\ asleep' = asleep \ {c}
    /\ spent' = spent + 1
    /\ PassLock
    /\ UNCHANGED <<due, window>>

\* It does not: the caller sleeps for what is missing, keeping the lock.
Doze(c) ==
    /\ AtLoopHead(c)
    /\ Refilled < Cost
    /\ level' = Refilled
    /\ age' = 0
    /\ \E d \in 0..Cost :
          /\ SleepNeeded(Refilled, d)
          /\ due' = [due EXCEPT ![c] = d]
    /\ asleep' = asleep \cup {c}
    /\ UNCHANGED <<owner, queue, window, spent>>

\* The caller's task is cancelled while it sleeps, while it waits, or when it
\* has been handed the lock and has not run since: asyncio wakes the next.
CancelAcquire(c) ==
    /\ \/ /\ owner = c
          /\ PassLock
          /\ asleep' = asleep \ {c}
          /\ due' = [due EXCEPT ![c] = 0]
       \/ /\ \E i \in DOMAIN queue :
                /\ queue[i] = c
                /\ queue' = SubSeq(queue, 1, i - 1) \o SubSeq(queue, i + 1, Len(queue))
          /\ UNCHANGED <<owner, asleep, due>>
    /\ UNCHANGED <<level, age, window, spent>>

-----------------------------------------------------------------------------
(* Time *)

\* A tick.  The observer gives up a window that has become too long.
Tick ==
    /\ age' = IF age < FullAge THEN age + 1 ELSE age
    /\ due' = [c \in Callers |-> IF due[c] > 0 THEN due[c] - 1 ELSE 0]
    /\ IF window < MaxWindow
       THEN window' = window + 1 /\ UNCHANGED spent
       ELSE window' = 0 /\ spent' = 0
    /\ UNCHANGED <<level, owner, queue, asleep>>

\* The observer begins to watch now.
Watch ==
    /\ window' = 0
    /\ spent' = 0
    /\ UNCHANGED <<level, age, owner, queue, due, asleep>>

LimiterNext ==
    \/ \E c \in Callers : Ask(c) \/ Grant(c) \/ Doze(c) \/ CancelAcquire(c)
    \/ Tick
    \/ Watch

LimiterSpec == LimiterInit /\ [][LimiterNext]_limiterVars

\* Time passes and the event loop resumes a task whose sleep is over.
LimiterFairness ==
    /\ WF_limiterVars(Tick)
    /\ \A c \in Callers : WF_limiterVars(Grant(c)) /\ WF_limiterVars(Doze(c))

LimiterFairSpec == LimiterSpec /\ LimiterFairness

-----------------------------------------------------------------------------
(* Properties *)

LimiterTypeOK ==
    /\ level \in 0..Capacity
    /\ age \in 0..FullAge
    /\ owner \in Callers \cup {Nobody}
    /\ queue \in Seq(Callers)
    /\ due \in [Callers -> 0..Cost]
    /\ asleep \subseteq Callers
    /\ window \in 0..MaxWindow
    /\ spent \in Nat

\* However callers ask, sleep, are cancelled and resume, any window of w
\* ticks, wherever it begins, sees at most Capacity + Rate * w units of
\* tokens taken: one full bucket and what flows in meanwhile.
WindowBound == Cost * spent <= Capacity + Rate * window

\* One sleep is enough: a caller that has slept finds its token, whoever was
\* cancelled or granted before it, because it kept the lock.
OneSleepSuffices ==
    \A c \in asleep : due[c] = 0 => Refilled >= Cost

\* Every caller gets its token or is cancelled; none starves behind others
\* that keep asking.
EveryCallerServed ==
    \A c \in Callers : Queued(c) \/ owner = c ~> ~Queued(c) /\ owner # c

=============================================================================
