----------------------------- MODULE PollCommand -----------------------------
(***************************************************************************)
(* The commands poll and collect-once as whole processes: every poller is  *)
(* a PollController whose cycle is a cycle of ListingStore, one database   *)
(* session and one commit per cycle (cli/main.py, one_cycle).  The store's *)
(* StartCycle is taken exactly when the controller enters a cycle, and the *)
(* cycle's end, whichever it is, is what the controller's await sees.      *)
(***************************************************************************)
EXTENDS ListingStore

CONSTANTS Limits, NoLimit     \* as in PollController

ASSUME LimitsAssumption == Limits \subseteq Int /\ NoLimit \notin Int

VARIABLES limit, stop, at, iterations, stopped

VARIABLE landed     \* history: poller -> its cycles the server committed

Poll == INSTANCE PollController WITH Controllers <- Pollers

pollVars == <<limit, stop, at, iterations, stopped>>

commandVars == <<vars, pollVars, landed>>

CommandInit ==
    /\ Init
    /\ Poll!PollInit
    /\ landed = [p \in Pollers |-> 0]

-----------------------------------------------------------------------------

\* The loop is entered, or its wait ends: into a cycle or out of the loop.
LoopTurns(p) ==
    /\ Poll!Run(p) \/ Poll!IntervalPasses(p) \/ Poll!StopWakes(p)
    /\ IF at'[p] = "cycle" THEN StartCycle(p) ELSE UNCHANGED vars
    /\ UNCHANGED landed

CycleStep(p) ==
    /\ FeedAnswers(p) \/ Upsert(p) \/ SendCommit(p)
    /\ UNCHANGED <<pollVars, landed>>

\* Landings are counted where iterations are.
CycleLands(p) ==
    /\ Commit(p)
    /\ landed' = [landed EXCEPT ![p] = IF limit[p] = NoLimit THEN @ ELSE @ + 1]
    /\ UNCHANGED pollVars

\* Mutant: the result is returned before the commit is sent.
CycleEndsEarly(p) ==
    /\ phase[p] \in {"committing", "committed"}
    /\ Poll!CycleReturns(p)
    /\ Forget(p)
    /\ Release(p)
    /\ phase' = [phase EXCEPT ![p] = "idle"]
    /\ UNCHANGED <<tokens, accepted, landed>>

CycleEnds(p) ==
    /\ Return(p)
    /\ Poll!CycleReturns(p)
    /\ UNCHANGED landed

\* An exception or a cancellation leaves the cycle and then the loop.
CycleBreaks(p) ==
    /\ \/ Fail(p)
       \/ DeadlockAbort(p)
       \/ phase[p] = "committed" /\ Interrupt(p)
    /\ Poll!CycleRaises(p)
    /\ UNCHANGED landed

WaitBreaks(p) ==
    /\ Interrupt(p)
    /\ Poll!WaitCancelled(p)
    /\ UNCHANGED landed

StopRequested(p) ==
    /\ Poll!Stop(p)
    /\ UNCHANGED <<vars, landed>>

\* A process of the command collect-once.
CollectOnce(s) ==
    /\ \/ StartCycle(s)
       \/ FeedAnswers(s) \/ Upsert(s) \/ SendCommit(s) \/ Commit(s)
       \/ Return(s)
       \/ Fail(s) \/ DeadlockAbort(s) \/ Interrupt(s)
    /\ UNCHANGED <<pollVars, landed>>

CommandNext ==
    \/ \E p \in Pollers :
          \/ LoopTurns(p)
          \/ CycleStep(p)
          \/ CycleLands(p)
          \/ CycleEnds(p)
          \/ CycleBreaks(p)
          \/ WaitBreaks(p)
          \/ StopRequested(p)
    \/ \E s \in Sessions \ Pollers : CollectOnce(s)

CommandSpec == CommandInit /\ [][CommandNext]_commandVars

\* The fairness of the two parts, and intervals end.  A cycle that can only
\* go on by being chosen as a deadlock's victim is chosen or released.
CommandFairness ==
    /\ \A p \in Pollers :
          /\ WF_commandVars(LoopTurns(p))
          /\ SF_commandVars(CycleStep(p))
          /\ WF_commandVars(CycleLands(p))
          /\ WF_commandVars(CycleEnds(p))
          /\ WF_commandVars(DeadlockAbort(p) /\ CycleBreaks(p))
    /\ \A s \in Sessions \ Pollers :
          /\ SF_commandVars((FeedAnswers(s) \/ Upsert(s)) /\ CollectOnce(s))
          /\ WF_commandVars((SendCommit(s) \/ Commit(s)) /\ CollectOnce(s))
          /\ WF_commandVars((Return(s) \/ DeadlockAbort(s)) /\ CollectOnce(s))

CommandFairSpec == CommandSpec /\ CommandFairness

-----------------------------------------------------------------------------
(* Properties *)

\* The controller awaits a cycle exactly while the store runs one for it, and
\* a run that is over, however it ended, leaves no transaction open.
LoopMatchesStore ==
    \A p \in Pollers :
        /\ at[p] = "cycle" <=> phase[p] \notin {"idle", "stopped"}
        /\ at[p] = "raised" <=> phase[p] = "stopped"
        /\ at[p] \in {"returned", "raised"} => \A k \in Keys : holder[k] # p

\* Every result a poller collected stands for a durable cycle, and at most
\* one durable cycle has no result: the one whose commit was acknowledged too
\* late.  A run that ends by itself reports exactly what it stored.
ResultsAreDurable ==
    \A p \in Pollers :
        /\ iterations[p] <= landed[p] /\ landed[p] <= iterations[p] + 1
        /\ at[p] \in {"waiting", "returned"} => landed[p] = iterations[p]

\* Every cycle ends, and a poller with max_iterations ends, whatever the other
\* processes do to the keys it needs: N cycles return, or one of them raises.
CommandsEnd ==
    /\ CyclesEnd
    /\ \A p \in Pollers : limit[p] # NoLimit ~> at[p] \in {"returned", "raised"}

=============================================================================
