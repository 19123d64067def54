-------------------------- MODULE PollCommandProofs --------------------------
(***************************************************************************)
(* What the commands poll and collect-once promise, proved for any         *)
(* processes, tokens, answers and limits: each of their two parts behaves  *)
(* as its own module says, the loop and its cycles keep in step, and every *)
(* result that is reported was stored.                                     *)
(***************************************************************************)
EXTENDS PollCommand, ListingStoreProofs

PollProofs == INSTANCE PollControllerProofs WITH Controllers <- Pollers

-----------------------------------------------------------------------------
(* The two parts *)

\* A step of the commands is a step of the store.
LEMMA StepOfStore == [CommandNext]_commandVars => [Next]_vars
<1> SUFFICES ASSUME [CommandNext]_commandVars PROVE [Next]_vars
  OBVIOUS
<1>1. CASE UNCHANGED commandVars
  BY <1>1 DEF commandVars
<1>2. ASSUME NEW p \in Pollers,
             \/ LoopTurns(p) \/ CycleStep(p) \/ CycleLands(p) \/ CycleEnds(p)
             \/ CycleBreaks(p) \/ WaitBreaks(p) \/ StopRequested(p)
      PROVE  [Next]_vars
  <2>0. p \in Sessions
    BY SessionsAssumption
  <2>1. \/ StartCycle(p) \/ FeedAnswers(p) \/ Upsert(p) \/ SendCommit(p) \/ Commit(p)
        \/ Return(p) \/ Fail(p) \/ DeadlockAbort(p) \/ Interrupt(p) \/ UNCHANGED vars
    BY <1>2 DEF LoopTurns, CycleStep, CycleLands, CycleEnds, CycleBreaks, WaitBreaks,
                StopRequested
  <2> QED BY <2>0, <2>1 DEF Next
<1>3. ASSUME NEW s \in Sessions \ Pollers, CollectOnce(s)
      PROVE  [Next]_vars
  BY <1>3 DEF CollectOnce, Next
<1> QED BY <1>1, <1>2, <1>3 DEF CommandNext

\* A step of the commands is a step of the controllers.
LEMMA StepOfControllers == [CommandNext]_commandVars => [Poll!PollNext]_(Poll!pollVars)
<1> SUFFICES ASSUME [CommandNext]_commandVars PROVE [Poll!PollNext]_(Poll!pollVars)
  OBVIOUS
<1> USE DEF Poll!pollVars, pollVars
<1>1. CASE UNCHANGED commandVars
  BY <1>1 DEF commandVars
<1>2. ASSUME NEW p \in Pollers,
             \/ LoopTurns(p) \/ CycleStep(p) \/ CycleLands(p) \/ CycleEnds(p)
             \/ CycleBreaks(p) \/ WaitBreaks(p) \/ StopRequested(p)
      PROVE  [Poll!PollNext]_(Poll!pollVars)
  <2>1. \/ Poll!Run(p) \/ Poll!CycleReturns(p) \/ Poll!CycleRaises(p)
        \/ Poll!StopWakes(p) \/ Poll!IntervalPasses(p) \/ Poll!Stop(p)
        \/ Poll!WaitCancelled(p) \/ UNCHANGED pollVars
    BY <1>2 DEF LoopTurns, CycleStep, CycleLands, CycleEnds, CycleBreaks, WaitBreaks,
                StopRequested
  <2> QED BY <2>1 DEF Poll!PollNext
<1>3. ASSUME NEW s \in Sessions \ Pollers, CollectOnce(s)
      PROVE  [Poll!PollNext]_(Poll!pollVars)
  BY <1>3 DEF CollectOnce
<1> QED BY <1>1, <1>2, <1>3 DEF CommandNext

\* The commands implement the store and its controllers: what is proved of
\* either, with the other left out, holds of the whole processes.
THEOREM CommandImplementsParts == CommandSpec => Spec /\ Poll!PollSpec
<1>1. CommandInit => Init /\ Poll!PollInit
  BY DEF CommandInit
<1> QED BY <1>1, StepOfStore, StepOfControllers, PTL DEF CommandSpec, Spec, Poll!PollSpec

\* No lost update and no late cycle in the whole processes: the table says of
\* every token the earliest time a committed cycle reported, no poller begins
\* more cycles than its limit, and none once it was told to stop.
THEOREM CommandKeepsParts ==
    CommandSpec => /\ []FirstSeenIsEarliest /\ []LockDiscipline /\ KnowledgeKept
                   /\ []Poll!LimitBoundsCycles /\ Poll!NoCycleAfterStop
<1>1. Poll!PollSpec => PollProofs!PollSpec
  <2>1. Poll!PollInit => PollProofs!PollInit
    BY DEF Poll!PollInit, PollProofs!PollInit
  <2>2. [Poll!PollNext]_(Poll!pollVars) => [PollProofs!PollNext]_(PollProofs!pollVars)
    <3> USE DEF Poll!pollVars, PollProofs!pollVars
    <3>1. ASSUME NEW p \in Pollers
          PROVE  /\ Poll!Run(p) => PollProofs!Run(p)
                 /\ Poll!StopWakes(p) => PollProofs!StopWakes(p)
                 /\ Poll!IntervalPasses(p) => PollProofs!IntervalPasses(p)
      BY DEF Poll!Run, PollProofs!Run, Poll!StopWakes, PollProofs!StopWakes,
             Poll!IntervalPasses, PollProofs!IntervalPasses,
             Poll!LoopHead, PollProofs!LoopHead
    <3>2. ASSUME NEW p \in Pollers
          PROVE  /\ Poll!CycleReturns(p) => PollProofs!CycleReturns(p)
                 /\ Poll!CycleRaises(p) => PollProofs!CycleRaises(p)
      BY DEF Poll!CycleReturns, PollProofs!CycleReturns,
             Poll!CycleRaises, PollProofs!CycleRaises,
             Poll!LimitReached, PollProofs!LimitReached
    <3>3. ASSUME NEW p \in Pollers
          PROVE  /\ Poll!Stop(p) => PollProofs!Stop(p)
                 /\ Poll!WaitCancelled(p) => PollProofs!WaitCancelled(p)
      BY DEF Poll!Stop, PollProofs!Stop, Poll!WaitCancelled, PollProofs!WaitCancelled
    <3> QED BY <3>1, <3>2, <3>3 DEF Poll!PollNext, PollProofs!PollNext
  <2> QED BY <2>1, <2>2, PTL DEF Poll!PollSpec, PollProofs!PollSpec
<1>2. PollProofs!PollSpec => []PollProofs!LimitBoundsCycles /\ PollProofs!NoCycleAfterStop
  BY PollProofs!LimitCorrect, PollProofs!NoLateCycle, LimitsAssumption, PTL
<1>3. PollProofs!LimitBoundsCycles => Poll!LimitBoundsCycles
  BY DEF PollProofs!LimitBoundsCycles, Poll!LimitBoundsCycles, PollProofs!Begun, Poll!Begun
<1>4. PollProofs!NoCycleAfterStop => Poll!NoCycleAfterStop
  <2>1. [\A c \in Pollers : stop[c] /\ at[c] # "cycle" => at'[c] # "cycle"]_(PollProofs!pollVars)
        => [\A c \in Pollers : stop[c] /\ at[c] # "cycle" => at'[c] # "cycle"]_(Poll!pollVars)
    BY DEF Poll!pollVars, PollProofs!pollVars
  <2> QED BY <2>1, PTL DEF Poll!NoCycleAfterStop, PollProofs!NoCycleAfterStop
<1> QED BY <1>1, <1>2, <1>3, <1>4, CommandImplementsParts, FirstSeenCorrect,
           LockDisciplineCorrect, KnowledgeCorrect, PTL

-----------------------------------------------------------------------------
(* Loop and store *)

\* The loop of p is in a cycle just while the store runs one for it.
InStep(p) ==
    /\ at[p] \in {"ready", "cycle", "waiting", "returned", "raised"}
    /\ at[p] = "cycle" <=> phase[p] \notin {"idle", "stopped"}
    /\ at[p] = "raised" <=> phase[p] = "stopped"

\* A landed cycle is one that was counted, or the one whose answer is on its
\* way or was lost.
Counts(p) ==
    /\ iterations[p] \in Nat /\ landed[p] \in Nat
    /\ iterations[p] <= landed[p] /\ landed[p] <= iterations[p] + 1
    /\ at[p] # "raised" =>
          landed[p] = iterations[p]
                      + IF phase[p] = "committed" /\ limit[p] # NoLimit THEN 1 ELSE 0

\* The variables of the loops are functions of the pollers.
OfPollers ==
    /\ at = [p \in Pollers |-> at[p]]
    /\ iterations = [p \in Pollers |-> iterations[p]]
    /\ limit = [p \in Pollers |-> limit[p]]
    /\ landed = [p \in Pollers |-> landed[p]]

CommandInv ==
    /\ OfPollers
    /\ \A p \in Pollers : InStep(p) /\ Counts(p)

\* Only p's process moves.
OnlyProcess(p) ==
    \A q \in Pollers \ {p} :
        /\ at'[q] = at[q] /\ iterations'[q] = iterations[q] /\ limit'[q] = limit[q]
        /\ landed'[q] = landed[q] /\ phase'[q] = phase[q]

LEMMA ProcessStep ==
    ASSUME TypeOK, CommandInv, NEW p \in Pollers,
           \/ LoopTurns(p) \/ CycleStep(p) \/ CycleLands(p) \/ CycleEnds(p)
           \/ CycleBreaks(p) \/ WaitBreaks(p) \/ StopRequested(p)
    PROVE  OfPollers' /\ OnlyProcess(p) /\ InStep(p)' /\ Counts(p)'
<1> USE DEF CommandInv, OfPollers, OnlyProcess
<1>0. /\ p \in Sessions /\ phase \in [Sessions -> Phases]
      /\ Pollers \subseteq Sessions /\ InStep(p) /\ Counts(p)
  BY SessionsAssumption DEF TypeOK
<1>1. CASE LoopTurns(p)
  <2>1. /\ at[p] \in {"ready", "waiting"} /\ limit' = limit /\ iterations' = iterations
        /\ \E place \in {"returned", "cycle"} : at' = [at EXCEPT ![p] = place]
        /\ landed' = landed
    BY <1>1 DEF LoopTurns, Poll!Run, Poll!IntervalPasses, Poll!StopWakes, Poll!LoopHead
  <2>2. CASE at'[p] = "cycle"
    <3>1. phase' = [phase EXCEPT ![p] = "fetching"]
      BY <1>1, <2>2 DEF LoopTurns, StartCycle
    <3> QED BY <1>0, <2>1, <2>2, <3>1 DEF InStep, Counts, Phases
  <2>3. CASE at'[p] # "cycle"
    <3>1. phase' = phase
      BY <1>1, <2>3 DEF LoopTurns, vars
    <3> QED BY <1>0, <2>1, <2>3, <3>1 DEF InStep, Counts, Phases
  <2> QED BY <2>2, <2>3
<1>2. CASE CycleStep(p)
  <2>1. /\ at' = at /\ iterations' = iterations /\ limit' = limit /\ landed' = landed
        /\ phase[p] \in {"fetching", "writing"}
        /\ \E place \in {"fetching", "writing", "committing"} :
              phase' = [phase EXCEPT ![p] = place]
    BY <1>0, <1>2 DEF CycleStep, pollVars, FeedAnswers, Upsert, HasNext, SendCommit
  <2> QED BY <1>0, <2>1 DEF InStep, Counts, Phases
<1>3. CASE CycleLands(p)
  <2>1. /\ at' = at /\ iterations' = iterations /\ limit' = limit
        /\ landed' = [landed EXCEPT ![p] = IF limit[p] = NoLimit THEN @ ELSE @ + 1]
        /\ phase[p] = "committing" /\ phase' = [phase EXCEPT ![p] = "committed"]
    BY <1>3 DEF CycleLands, Commit, pollVars
  <2> QED BY <1>0, <2>1 DEF InStep, Counts, Phases
<1>4. CASE CycleEnds(p)
  <2>1. /\ at[p] = "cycle" /\ limit' = limit /\ landed' = landed
        /\ iterations' = [iterations EXCEPT ![p] = IF limit[p] = NoLimit THEN @ ELSE @ + 1]
        /\ \E place \in {"returned", "waiting"} : at' = [at EXCEPT ![p] = place]
        /\ phase[p] = "committed" /\ phase' = [phase EXCEPT ![p] = "idle"]
    BY <1>4 DEF CycleEnds, Return, Poll!CycleReturns
  <2>2. OfPollers' /\ OnlyProcess(p) /\ InStep(p)'
    BY <1>0, <2>1 DEF InStep, Phases
  <2>3. landed[p] = iterations[p] + IF limit[p] = NoLimit THEN 0 ELSE 1
    BY <1>0, <2>1 DEF Counts
  <2>4. landed'[p] = iterations'[p] /\ phase'[p] = "idle" /\ iterations'[p] \in Nat
    BY <1>0, <2>1, <2>3 DEF Counts
  <2> QED BY <2>2, <2>4 DEF Counts
<1>5. CASE CycleBreaks(p) \/ WaitBreaks(p)
  <2>1. /\ at' = [at EXCEPT ![p] = "raised"] /\ iterations' = iterations
        /\ limit' = limit /\ landed' = landed /\ phase' = [phase EXCEPT ![p] = "stopped"]
    BY <1>5 DEF CycleBreaks, WaitBreaks, Fail, DeadlockAbort, RollBack, Interrupt,
                Poll!CycleRaises, Poll!WaitCancelled
  <2> QED BY <1>0, <2>1 DEF InStep, Counts, Phases
<1>6. CASE StopRequested(p)
  <2>1. /\ at' = at /\ iterations' = iterations /\ limit' = limit /\ landed' = landed
        /\ phase' = phase
    BY <1>6 DEF StopRequested, Poll!Stop, vars
  <2> QED BY <1>0, <2>1 DEF InStep, Counts
<1> QED BY <1>1, <1>2, <1>3, <1>4, <1>5, <1>6

\* A process of collect-once moves no poller.
LEMMA CollectOnceApart ==
    ASSUME TypeOK, NEW s \in Sessions \ Pollers, CollectOnce(s)
    PROVE  /\ UNCHANGED <<pollVars, landed>>
           /\ \A p \in Pollers : phase'[p] = phase[p]
<1>1. \E place \in Phases : phase' = [phase EXCEPT ![s] = place] \/ phase' = phase
  BY DEF CollectOnce, StartCycle, FeedAnswers, Upsert, SendCommit, Commit, Return,
         Fail, DeadlockAbort, RollBack, Interrupt, TypeOK, Phases
<1> QED BY <1>1, SessionsAssumption DEF CollectOnce, TypeOK

LEMMA CommandInvariant == CommandSpec => []CommandInv
<1>1. CommandInit => CommandInv
  <2> SUFFICES ASSUME CommandInit PROVE CommandInv
    OBVIOUS
  <2>1. OfPollers
    BY DEF CommandInit, Poll!PollInit, OfPollers
  <2>2. ASSUME NEW p \in Pollers PROVE InStep(p) /\ Counts(p)
    <3>1. at[p] = "ready" /\ phase[p] = "idle" /\ iterations[p] = 0 /\ landed[p] = 0
      BY SessionsAssumption DEF CommandInit, Init, Poll!PollInit
    <3> QED BY <3>1 DEF InStep, Counts
  <2> QED BY <2>1, <2>2 DEF CommandInv
<1>2. TypeOK /\ CommandInv /\ [CommandNext]_commandVars => CommandInv'
  <2> SUFFICES ASSUME TypeOK, CommandInv, [CommandNext]_commandVars PROVE CommandInv'
    OBVIOUS
  <2>1. ASSUME UNCHANGED <<pollVars, landed>>, \A p \in Pollers : phase'[p] = phase[p]
        PROVE  CommandInv'
    BY <2>1 DEF pollVars, CommandInv, OfPollers, InStep, Counts
  <2>2. CASE UNCHANGED commandVars
    BY <2>1, <2>2 DEF commandVars, vars
  <2>3. ASSUME NEW p \in Pollers,
               \/ LoopTurns(p) \/ CycleStep(p) \/ CycleLands(p) \/ CycleEnds(p)
               \/ CycleBreaks(p) \/ WaitBreaks(p) \/ StopRequested(p)
        PROVE  CommandInv'
    <3>1. OfPollers' /\ OnlyProcess(p) /\ InStep(p)' /\ Counts(p)'
      BY <2>3, ProcessStep
    <3>2. \A q \in Pollers \ {p} : InStep(q)' /\ Counts(q)'
      BY <3>1 DEF OnlyProcess, CommandInv, InStep, Counts
    <3> QED BY <3>1, <3>2 DEF CommandInv
  <2>4. ASSUME NEW s \in Sessions \ Pollers, CollectOnce(s)
        PROVE  CommandInv'
    BY <2>1, <2>4, CollectOnceApart
  <2> QED BY <2>2, <2>3, <2>4 DEF CommandNext
<1> QED BY <1>1, <1>2, CommandImplementsParts, TypeCorrect, PTL DEF CommandSpec

\* In every reachable state the controllers await a cycle just while the store
\* runs it, and a run that is over holds no key.
THEOREM LoopsMatch == CommandSpec => []LoopMatchesStore
<1>1. IInv /\ CommandInv => LoopMatchesStore
  <2> SUFFICES ASSUME IInv, CommandInv, NEW p \in Pollers,
                      at[p] \in {"returned", "raised"}, NEW k \in Keys
               PROVE  holder[k] # p
    BY DEF LoopMatchesStore, CommandInv, InStep
  <2>1. phase[p] \in {"idle", "stopped"}
    BY DEF CommandInv, InStep
  <2> QED BY <2>1, SessionsAssumption DEF IInv, LockDiscipline, DraftAccounts
<1> QED BY <1>1, CommandInvariant, CommandImplementsParts, Invariance, PTL

\* In every reachable state every result a poller has collected stands for a
\* cycle the server committed, and at most one such cycle has no result.
THEOREM ResultsDurable == CommandSpec => []ResultsAreDurable
<1>1. CommandInv => ResultsAreDurable
  <2> SUFFICES ASSUME CommandInv, NEW p \in Pollers
               PROVE  /\ iterations[p] <= landed[p] /\ landed[p] <= iterations[p] + 1
                      /\ at[p] \in {"waiting", "returned"} => landed[p] = iterations[p]
    BY DEF ResultsAreDurable
  <2> QED BY DEF CommandInv, InStep, Counts
<1> QED BY <1>1, CommandInvariant, PTL

=============================================================================
