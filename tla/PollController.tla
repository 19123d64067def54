--------------------------- MODULE PollController ---------------------------
(***************************************************************************)
(* services/ingestion.py, PollController: the loop that runs one cycle     *)
(* after another until it is told to stop.  A controller runs as one       *)
(* asyncio task: whatever lies between two awaits is one step, and another *)
(* task, or the interrupt of the terminal, can act only while the          *)
(* controller awaits its cycle or the stop event.                          *)
(*                                                                         *)
(* The length of the interval is left out: only the order of the timeout   *)
(* and the stop event matters.  Iterations are counted only where          *)
(* max_iterations makes the count readable.                                *)
(***************************************************************************)
EXTENDS Integers

CONSTANTS
    Controllers,
    Limits,     \* the values of max_iterations other than None
    NoLimit     \* max_iterations is None

ASSUME LimitsAssumption == Limits \subseteq Int /\ NoLimit \notin Int

VARIABLES
    limit,      \* _max_iterations
    stop,       \* the stop event is set
    at,         \* where run() is
    iterations, \* cycles that have returned, the length of results too
    stopped     \* the public flag

pollVars == <<limit, stop, at, iterations, stopped>>

Places == {"ready", "cycle", "waiting", "returned", "raised"}

PollInit ==
    /\ limit \in [Controllers -> Limits \cup {NoLimit}]
    /\ stop = [c \in Controllers |-> FALSE]
    /\ at = [c \in Controllers |-> "ready"]
    /\ iterations = [c \in Controllers |-> 0]
    /\ stopped = [c \in Controllers |-> FALSE]

-----------------------------------------------------------------------------

\* Mutant: the loop head does not look at the event.
LoopHeadBlind(c) ==
    /\ at' = [at EXCEPT ![c] = "cycle"]
    /\ UNCHANGED stopped

\* The head of the while loop: the event decides between a cycle and the end.
LoopHead(c) ==
    /\ at' = [at EXCEPT ![c] = IF stop[c] THEN "returned" ELSE "cycle"]
    /\ stopped' = [stopped EXCEPT ![c] = stop[c]]

Run(c) ==
    /\ at[c] = "ready"
    /\ LoopHead(c)
    /\ UNCHANGED <<limit, stop, iterations>>

\* Mutant: one cycle too many.
LimitReachedLate(c, n) == limit[c] # NoLimit /\ n > limit[c]

LimitReached(c, n) == limit[c] # NoLimit /\ n >= limit[c]

\* The cycle returned its result; a step with no await in it.
CycleReturns(c) ==
    /\ at[c] = "cycle"
    /\ LET n == iterations[c] + 1
           ends == LimitReached(c, n) \/ stop[c]
       IN  /\ iterations' = [iterations EXCEPT ![c] = IF limit[c] = NoLimit THEN @ ELSE n]
           /\ at' = [at EXCEPT ![c] = IF ends THEN "returned" ELSE "waiting"]
           /\ stopped' = [stopped EXCEPT ![c] = ends]
    /\ UNCHANGED <<limit, stop>>

\* The cycle raised: nothing in run() catches it.
CycleRaises(c) ==
    /\ at[c] = "cycle"
    /\ at' = [at EXCEPT ![c] = "raised"]
    /\ UNCHANGED <<limit, stop, iterations, stopped>>

\* Mutant: sleep(interval) for wait_for(stop.wait(), interval).
StopWakesDeaf(c) == FALSE /\ UNCHANGED pollVars

\* The event ends the wait.
StopWakes(c) ==
    /\ at[c] = "waiting"
    /\ stop[c]
    /\ LoopHead(c)
    /\ UNCHANGED <<limit, stop, iterations>>

\* The interval ends the wait, perhaps after the event was set too.
IntervalPasses(c) ==
    /\ at[c] = "waiting"
    /\ LoopHead(c)
    /\ UNCHANGED <<limit, stop, iterations>>

\* stop(), or a set of the event that was passed in, by another task.
Stop(c) ==
    /\ ~stop[c]
    /\ stop' = [stop EXCEPT ![c] = TRUE]
    /\ UNCHANGED <<limit, at, iterations, stopped>>

\* The task is cancelled (Ctrl+C) while it awaits the event.
WaitCancelled(c) ==
    /\ at[c] = "waiting"
    /\ at' = [at EXCEPT ![c] = "raised"]
    /\ UNCHANGED <<limit, stop, iterations, stopped>>

PollNext ==
    \E c \in Controllers :
        \/ Run(c)
        \/ CycleReturns(c)
        \/ CycleRaises(c)
        \/ StopWakes(c)
        \/ IntervalPasses(c)
        \/ Stop(c)
        \/ WaitCancelled(c)

PollSpec == PollInit /\ [][PollNext]_pollVars

\* The loop runs, a set event wakes its waiter, and a cycle ends one way or
\* the other (ListingStore, CyclesEnd).  Nobody need call stop(), and nothing
\* is assumed of the interval, which may be as long as the user likes.
PollFairness ==
    \A c \in Controllers :
        /\ WF_pollVars(Run(c))
        /\ WF_pollVars(CycleReturns(c) \/ CycleRaises(c))
        /\ WF_pollVars(StopWakes(c))

PollFairSpec == PollSpec /\ PollFairness

-----------------------------------------------------------------------------
(* Properties *)

PollTypeOK ==
    /\ limit \in [Controllers -> Limits \cup {NoLimit}]
    /\ stop \in [Controllers -> BOOLEAN]
    /\ at \in [Controllers -> Places]
    /\ iterations \in [Controllers -> Nat]
    /\ stopped \in [Controllers -> BOOLEAN]

\* Cycles begun: those that returned and the one that runs.
Begun(c) == iterations[c] + (IF at[c] = "cycle" THEN 1 ELSE 0)

\* A positive max_iterations bounds the cycles begun, so also those that
\* return a result, however the interval, the event and the cycles interleave.
LimitBoundsCycles ==
    \A c \in Controllers :
        limit[c] # NoLimit /\ limit[c] > 0 => Begun(c) <= limit[c]

\* Once the event is set, no further cycle begins: not at the first look, not
\* when the event and the interval end the same wait.
NoCycleAfterStop ==
    [][\A c \in Controllers :
          stop[c] /\ at[c] # "cycle" => at'[c] # "cycle"]_pollVars

\* The public flag tells a run that ended by itself from one that runs or was
\* torn down, and such a run ended for one of its two reasons.
StoppedFlagIsTrue ==
    \A c \in Controllers :
        /\ stopped[c] <=> at[c] = "returned"
        /\ stopped[c] => stop[c] \/ LimitReached(c, iterations[c])

\* A stop request is never lost and never waits for the interval: the run
\* ends whether the request comes before it, in a cycle or in the wait.
StopEndsRun ==
    \A c \in Controllers : stop[c] ~> at[c] \in {"returned", "raised"}

=============================================================================
