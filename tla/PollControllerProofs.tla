------------------------ MODULE PollControllerProofs ------------------------
(***************************************************************************)
(* Proofs about PollController, for any controllers and any max_iterations *)
(* (also zero and negative ones, which LimitBoundsCycles leaves aside).    *)
(***************************************************************************)
EXTENDS PollController, TLAPS

\* The strengthening: a positive limit has not been reached where the loop
\* can still turn into a cycle.
RoomLeft ==
    \A c \in Controllers :
        limit[c] # NoLimit /\ limit[c] > 0 =>
            /\ at[c] \in {"ready", "cycle", "waiting"} => iterations[c] < limit[c]
            /\ iterations[c] <= limit[c]

\* A controller that has not run counts from nothing.
FreshRun == \A c \in Controllers : at[c] = "ready" => iterations[c] = 0

PollInv == PollTypeOK /\ RoomLeft /\ FreshRun /\ StoppedFlagIsTrue

-----------------------------------------------------------------------------

\* A limit that is not None is an integer.
LEMMA LimitType ==
    ASSUME limit \in [Controllers -> Limits \cup {NoLimit}], NEW c \in Controllers,
           limit[c] # NoLimit
    PROVE  limit[c] \in Int
  BY LimitsAssumption

\* The inductive invariant holds of every reachable state.
THEOREM PollInvariance == PollSpec => []PollInv
  <1>1. PollInit => PollInv
    <2> SUFFICES ASSUME PollInit PROVE PollInv
      OBVIOUS
    <2>1. PollTypeOK /\ FreshRun /\ StoppedFlagIsTrue
      BY DEF PollInit, PollTypeOK, FreshRun, StoppedFlagIsTrue, Places
    <2>2. RoomLeft
      BY LimitType DEF PollInit, RoomLeft
    <2> QED
      BY <2>1, <2>2 DEF PollInv
  <1>2. PollInv /\ [PollNext]_pollVars => PollInv'
    <2> SUFFICES ASSUME PollInv, [PollNext]_pollVars PROVE PollInv'
      OBVIOUS
    <2> USE LimitsAssumption DEF PollInv, PollTypeOK, RoomLeft, FreshRun,
            StoppedFlagIsTrue, Places, LimitReached
    <2>1. ASSUME NEW c \in Controllers, Run(c) PROVE PollInv'
      BY <2>1 DEF Run, LoopHead
    <2>2. ASSUME NEW c \in Controllers, CycleReturns(c) PROVE PollInv'
      <3> DEFINE n == iterations[c] + 1
                 ends == LimitReached(c, n) \/ stop[c]
      <3>1. /\ iterations' = [iterations EXCEPT ![c] = IF limit[c] = NoLimit THEN @ ELSE n]
            /\ at' = [at EXCEPT ![c] = IF ends THEN "returned" ELSE "waiting"]
            /\ stopped' = [stopped EXCEPT ![c] = ends]
            /\ UNCHANGED <<limit, stop>>
            /\ at[c] = "cycle" /\ n \in Nat
        BY <2>2 DEF CycleReturns
      <3>2. PollTypeOK'
        BY <3>1
      <3>3. RoomLeft'
        BY <3>1, LimitType
      <3>4. FreshRun'
        BY <3>1
      <3>5. StoppedFlagIsTrue'
        BY <3>1
      <3> QED
        BY <3>2, <3>3, <3>4, <3>5
    <2>3. ASSUME NEW c \in Controllers, CycleRaises(c) PROVE PollInv'
      BY <2>3 DEF CycleRaises
    <2>4. ASSUME NEW c \in Controllers, StopWakes(c) \/ IntervalPasses(c)
          PROVE PollInv'
      BY <2>4 DEF StopWakes, IntervalPasses, LoopHead
    <2>5. ASSUME NEW c \in Controllers, Stop(c) PROVE PollInv'
      BY <2>5 DEF Stop
    <2>6. ASSUME NEW c \in Controllers, WaitCancelled(c) PROVE PollInv'
      BY <2>6 DEF WaitCancelled
    <2>7. CASE UNCHANGED pollVars
      BY <2>7 DEF pollVars
    <2> QED
      BY <2>1, <2>2, <2>3, <2>4, <2>5, <2>6, <2>7 DEF PollNext
  <1> QED
    BY <1>1, <1>2, PTL DEF PollSpec

\* Every reachable state has the types the module declares.
THEOREM PollTypeCorrect == PollSpec => []PollTypeOK
  BY PollInvariance, PTL DEF PollInv

\* A positive max_iterations bounds the cycles begun, for every limit.
THEOREM LimitCorrect == PollSpec => []LimitBoundsCycles
  <1>1. PollInv => LimitBoundsCycles
    BY LimitType DEF PollInv, PollTypeOK, RoomLeft, LimitBoundsCycles, Begun, Places
  <1> QED
    BY <1>1, PollInvariance, PTL

\* The flag "stopped" is set exactly in runs that ended by themselves, and
\* those ended because of the event or the limit.
THEOREM FlagCorrect == PollSpec => []StoppedFlagIsTrue
  BY PollInvariance, PTL DEF PollInv

\* No step begins a cycle once the stop event is set.
THEOREM NoLateCycle == PollSpec => NoCycleAfterStop
  <1>1. PollInv /\ [PollNext]_pollVars =>
          [\A c \in Controllers :
              stop[c] /\ at[c] # "cycle" => at'[c] # "cycle"]_pollVars
    BY DEF PollInv, PollTypeOK, PollNext, pollVars, Run, CycleReturns, CycleRaises,
           StopWakes, IntervalPasses, Stop, WaitCancelled, LoopHead
  <1> QED
    BY <1>1, PollInvariance, PTL DEF PollSpec, NoCycleAfterStop

=============================================================================
