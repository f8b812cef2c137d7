------------------------- MODULE VerifiedLoopProofs -------------------------
(***************************************************************************)
(* Proof of VerifiedIsEarned, for any budgets, any sizes of the pipe, the  *)
(* reads and the sink, and any deadline.                                   *)
(*                                                                         *)
(* The invariant has four parts: types; the bookkeeping of ZENKAI at every *)
(* place of an attempt; what the parent's place says of the child, the     *)
(* pipe and the sink (Tracked); and that the verdict COMPLETED, which is   *)
(* judged after the process is gone, still describes it (Judged).          *)
(***************************************************************************)
EXTENDS VerifiedLoop, TLAPS

Types ==
    /\ child \in {"none", "running", "exited", "killed", "reaped"}
    /\ exitOk \in BOOLEAN /\ doomed \in BOOLEAN /\ descendant \in BOOLEAN
    /\ pipe \in Nat /\ own \in Nat /\ elapsed \in Nat
    /\ sink \in [captured : Nat, truncated : BOOLEAN]
    /\ run \in Runs
    /\ loop \in Loops

\* An attempt is budgeted and authorized when it is planned.
Booked ==
    /\ loop.attempts <= loop.budget.attempts
    /\ loop.tools <= loop.budget.tools /\ loop.evidence <= loop.budget.evidence
    /\ loop.attempts > 1 => loop.retries
    /\ loop.at \in {"plan", "execute"} =>
        /\ loop.attempts < loop.budget.attempts
        /\ loop.attempts > 0 => loop.retries
    /\ loop.at = "execute" <=> run.at # "off"

\* Where the parent is says what the child can be, and a child is doomed only
\* by a ceiling that FORGE will see in the report.
Tracked ==
    /\ run.at \in {"off", "report"} => child \in {"none", "reaped"}
    /\ run.at = "launch" => child = "none"
    /\ run.at \in {"drain", "poll", "wait"} => child \in {"running", "exited", "killed"}
    /\ run.at = "final" => child = "reaped"
    /\ run.at \in {"launch", "drain", "poll"} => ~run.timeout
    /\ run.at # "off" =>
        /\ run.told # "nothing" <=> child = "reaped"
        /\ run.told = "zero" => exitOk
        /\ doomed => run.overflow \/ run.timeout
        /\ run.overflow => sink.truncated
    /\ own <= pipe
    /\ sink.captured <= MaxOutput
    /\ run.at = "report" /\ child = "reaped" => own = 0 \/ sink.truncated

Earned ==
    /\ child = "reaped" /\ exitOk /\ ~doomed
    /\ own = 0 /\ ~sink.truncated
    /\ elapsed <= MaxWall

Judged ==
    /\ loop.at = "judge" /\ loop.latest = "COMPLETED" => Earned
    /\ loop.at = "idle" /\ loop.stop = "VERIFIED" /\ ~loop.trusting => Earned

IInv == Types /\ Booked /\ Tracked /\ Judged

-----------------------------------------------------------------------------

LEMMA Starts == Init => IInv
PROOF
  <1> SUFFICES ASSUME Init PROVE IInv
    OBVIOUS
  <1>1. PICK b \in Budgets : loop = [Fresh(FALSE, FALSE, b) EXCEPT !.at = "idle"]
    BY LoopAssumption DEF Init
  <1>2. b \in [attempts : Nat \ {0}, tools : Nat \ {0}, evidence : Nat \ {0}]
    BY LoopAssumption
  <1>a. loop \in Loops
    BY <1>1, <1>2 DEF Fresh, Loops, ForgeStatuses, StopReasons
  <1>3. Types
    BY <1>a DEF Init, InitProcess, Types, Off, Runs, EmptySink
  <1>b. /\ loop.at = "idle" /\ loop.budget = b
        /\ loop.attempts = 0 /\ loop.tools = 0 /\ loop.evidence = 0
    BY <1>1 DEF Fresh
  <1>4. Booked
    <2>1. run.at = "off"
      BY DEF Init, InitProcess, Off
    <2>2. b.attempts \in Nat /\ b.tools \in Nat /\ b.evidence \in Nat
      BY <1>2
    <2> QED
      BY <1>b, <2>1, <2>2 DEF Booked
  <1>5. Tracked
    BY ProcessAssumption DEF Init, InitProcess, Tracked, Off, EmptySink
  <1>6. Judged
    BY <1>1 DEF Judged, Fresh
  <1> QED
    BY <1>3, <1>4, <1>5, <1>6 DEF IInv

-----------------------------------------------------------------------------
(* Steps of ZENKAI: the process stands still, but for Execute.              *)

LEMMA BudgetTypes ==
    ASSUME Types
    PROVE  loop.budget \in [attempts : Nat \ {0}, tools : Nat \ {0}, evidence : Nat \ {0}]
BY LoopAssumption DEF Types, Loops

LEMMA CallerKeeps == IInv /\ Caller => IInv'
PROOF
  <1> SUFFICES ASSUME IInv, Caller PROVE IInv'
    OBVIOUS
  <1>1. PICK retries \in BOOLEAN, trusting \in BOOLEAN, b \in Budgets :
            Start(retries, trusting, b)
    BY DEF Caller
  <1>2. b \in [attempts : Nat \ {0}, tools : Nat \ {0}, evidence : Nat \ {0}]
    BY LoopAssumption
  <1>3. UNCHANGED <<child, exitOk, doomed, descendant, pipe, own, elapsed, sink, run>>
    BY <1>1 DEF Start, process, childVars
  <1>4. Types'
    BY <1>1, <1>2, <1>3 DEF IInv, Types, Start, Fresh, Loops, ForgeStatuses, StopReasons
  <1>5. Booked'
    BY <1>1, <1>2, <1>3 DEF IInv, Booked, Start, LoopAt, Fresh
  <1>6. Tracked'
    BY <1>3 DEF IInv, Tracked
  <1>7. Judged'
    BY <1>1 DEF Judged, Start, Fresh
  <1> QED
    BY <1>4, <1>5, <1>6, <1>7 DEF IInv

LEMMA LoopStepsKeep == IInv /\ LoopSteps => IInv'
PROOF
  <1> SUFFICES ASSUME IInv, LoopSteps PROVE IInv'
    OBVIOUS
  <1> USE DEF IInv
  <1> DEFINE Still == UNCHANGED <<child, exitOk, doomed, descendant, pipe, own, elapsed, sink, run>>
  <1>b. loop.budget \in [attempts : Nat \ {0}, tools : Nat \ {0}, evidence : Nat \ {0}]
    BY BudgetTypes
  <1>s. UNCHANGED process => Still
    BY DEF process, childVars
  <1>t. ASSUME Still PROVE Tracked'
    BY <1>t DEF Tracked
  <1>1. CASE NextAttempt
    <2>1. Still
      BY <1>1, <1>s DEF NextAttempt
    <2>2. loop' \in Loops
      BY <1>1 DEF NextAttempt, LoopAt, Stop, Types, Loops, StopReasons
    <2>3. Types'
      BY <2>1, <2>2 DEF Types
    <2>4. Booked'
      <3>1. /\ loop'.budget = loop.budget /\ loop'.retries = loop.retries
            /\ loop'.attempts = loop.attempts
            /\ loop'.tools = loop.tools /\ loop'.evidence = loop.evidence
            /\ \/ loop'.at = "idle"
               \/ /\ loop'.at = "plan" /\ ~(loop.attempts >= loop.budget.attempts)
                  /\ loop.attempts > 0 => loop.retries
        BY <1>1 DEF NextAttempt, Stop, Types, Loops
      <3>2. run'.at = "off"
        BY <1>1, <2>1 DEF NextAttempt, LoopAt, Booked, Types, Runs
      <3>3. loop.attempts \in Nat /\ loop.budget.attempts \in Nat
        BY <1>b DEF Types, Loops
      <3> QED
        BY <3>1, <3>2, <3>3 DEF Booked
    <2>5. Judged'
      BY <1>1, <2>1 DEF NextAttempt, LoopAt, Stop, Types, Loops, Judged, Earned
    <2> QED
      BY <1>t, <2>1, <2>3, <2>4, <2>5
  <1>2. CASE NoRetryPlan
    <2>1. Still
      BY <1>2, <1>s DEF NoRetryPlan
    <2>2. loop' \in Loops
      <3>1. PICK n \in Nat : n = loop.attempts + 1
        BY DEF Types, Loops
      <3> QED
        BY <1>2, <3>1 DEF NoRetryPlan, Types, Loops, StopReasons
    <2>3. Types'
      BY <2>1, <2>2 DEF Types
    <2>4. Booked'
      BY <1>2, <1>b, <2>1 DEF NoRetryPlan, LoopAt, Types, Loops, Booked
    <2>5. Judged'
      BY <1>2, <2>1 DEF NoRetryPlan, LoopAt, Types, Loops, Judged, Earned
    <2> QED
      BY <1>t, <2>1, <2>3, <2>4, <2>5
  <1>3. CASE Rejected
    <2>1. Still
      BY <1>3, <1>s DEF Rejected
    <2>2. loop' \in Loops
      <3>1. PICK n \in Nat : n = loop.attempts + 1
        BY DEF Types, Loops
      <3> QED
        BY <1>3, <3>1 DEF Rejected, Types, Loops, StopReasons
    <2>3. Types'
      BY <2>1, <2>2 DEF Types
    <2>4. Booked'
      BY <1>3, <1>b, <2>1 DEF Rejected, LoopAt, Types, Loops, Booked
    <2>5. Judged'
      BY <1>3, <2>1 DEF Rejected, LoopAt, Types, Loops, Judged, Earned
    <2> QED
      BY <1>t, <2>1, <2>3, <2>4, <2>5
  <1>4. CASE Execute
    <2>1. Types'
      BY <1>4 DEF Execute, LoopAt, Types, Loops, Runs, Off, EmptySink
    <2>2. Booked'
      BY <1>4, <1>b DEF Execute, LoopAt, Booked, Types, Loops, Off
    <2>3. Tracked'
      BY <1>4, ProcessAssumption DEF Execute, Tracked, Off, EmptySink
    <2>4. Judged'
      BY <1>4 DEF Execute, LoopAt, Judged, Types, Loops
    <2> QED
      BY <2>1, <2>2, <2>3, <2>4
  <1>5. CASE ForgeReturns
    <2> USE <1>5 DEF ForgeReturns
    <2>1. UNCHANGED <<child, exitOk, doomed, descendant, pipe, own, elapsed, sink>>
      BY DEF childVars
    <2>2. Verdict \in ForgeStatuses
      BY DEF Verdict, ForgeStatuses
    <2>a. loop' \in Loops
      <3>1. PICK n \in Nat : n = loop.attempts + 1
        BY DEF Types, Loops
      <3>2. loop' = [loop EXCEPT !.at = "judge", !.attempts = n, !.previous = loop.latest,
                                 !.latest = Verdict]
        BY <3>1
      <3>3. loop \in Loops /\ loop.latest \in ForgeStatuses
        BY DEF Types, Loops
      <3> HIDE <1>5 DEF ForgeReturns
      <3> QED
        BY <2>2, <3>2, <3>3 DEF Loops
    <2>b. run' \in Runs
      BY DEF Types, Runs
    <2>3. Types'
      BY <2>1, <2>a, <2>b DEF Types
    <2>4. Booked'
      BY <1>b DEF LoopAt, Booked, Types, Loops, Runs
    <2>5. Tracked'
      BY <2>1 DEF Tracked, Types, Runs, At
    <2>6. Verdict = "COMPLETED" => Earned
      <3> SUFFICES ASSUME Verdict = "COMPLETED" PROVE Earned
        OBVIOUS
      <3>1. /\ ~(elapsed > MaxWall) /\ ~(ReportedWall > MaxWall)
            /\ ~sink.truncated /\ run.told = "zero"
        BY DEF Verdict, Completed
      <3>2. ~run.timeout
        BY <3>1, ProcessAssumption DEF ReportedWall
      <3> QED
        BY <3>1, <3>2, ProcessAssumption DEF Earned, Tracked, Types, At
    <2>7. Judged'
      BY <2>1, <2>6 DEF Judged, Earned, LoopAt, Types, Loops
    <2> QED
      BY <2>3, <2>4, <2>5, <2>7
  <1>6. CASE OverBudget
    <2>1. Still
      BY <1>6, <1>s DEF OverBudget
    <2>2. loop' \in Loops
      BY <1>6 DEF OverBudget, LoopAt, Stop, Types, Loops, StopReasons
    <2>3. Types'
      BY <2>1, <2>2 DEF Types
    <2>4. Booked'
      BY <1>6, <1>b, <2>1 DEF OverBudget, LoopAt, Stop, Types, Loops, Booked
    <2>5. Judged'
      BY <1>6, <2>1 DEF OverBudget, LoopAt, Stop, Types, Loops, Judged, Earned
    <2> QED
      BY <1>t, <2>1, <2>3, <2>4, <2>5
  <1>7. CASE Judge
    <2>1. Still
      BY <1>7, <1>s DEF Judge
    <2>2. PICK passed \in Verifies, new \in News :
            loop' = [loop EXCEPT !.tools = @ + 1, !.evidence = @ + 1,
                             !.at = IF passed \/ ~new THEN "idle" ELSE "next",
                             !.stop = IF passed THEN "VERIFIED"
                                      ELSE IF ~new THEN "NO_NEW_INFORMATION" ELSE @]
      BY <1>7 DEF Judge
    <2>a. loop' \in Loops
      <3>1. PICK n \in Nat, m \in Nat : n = loop.tools + 1 /\ m = loop.evidence + 1
        BY DEF Types, Loops
      <3>2. PICK at \in {"idle", "next"}, stop \in StopReasons :
                loop' = [loop EXCEPT !.tools = n, !.evidence = m, !.at = at, !.stop = stop]
        BY <2>2, <3>1 DEF Types, Loops, StopReasons
      <3> QED
        BY <3>2 DEF Types, Loops
    <2>b. Types'
      BY <2>1, <2>a DEF Types
    <2>3. Booked'
      BY <1>7, <1>b, <2>1, <2>2 DEF Judge, LoopAt, Types, Loops, Booked
    <2>4. passed /\ ~loop.trusting => loop.latest = "COMPLETED"
      BY <2>2 DEF Verifies
    <2>5. Judged'
      BY <1>7, <2>1, <2>2, <2>4 DEF Judge, LoopAt, Judged, Earned, Types, Loops
    <2> QED
      BY <1>t, <2>1, <2>b, <2>3, <2>5
  <1>8. CASE NoReport
    <2>1. Still
      BY <1>8, <1>s DEF NoReport
    <2>2. PICK passed \in IF loop.trusting THEN BOOLEAN ELSE {FALSE}, new \in BOOLEAN :
            loop' = [loop EXCEPT !.attempts = @ + 1,
                             !.previous = loop.latest, !.latest = "EXECUTOR_ERROR",
                             !.at = IF passed \/ ~new THEN "idle" ELSE "next",
                             !.stop = IF passed THEN "VERIFIED"
                                      ELSE IF ~new THEN "NO_NEW_INFORMATION" ELSE @]
      BY <1>8 DEF NoReport
    <2>a. loop' \in Loops
      <3>1. PICK n \in Nat : n = loop.attempts + 1
        BY DEF Types, Loops
      <3>2. PICK at \in {"idle", "next"}, stop \in StopReasons :
                loop' = [loop EXCEPT !.attempts = n, !.previous = loop.latest,
                                     !.latest = "EXECUTOR_ERROR", !.at = at, !.stop = stop]
        BY <2>2, <3>1 DEF Types, Loops, StopReasons
      <3> QED
        BY <3>2 DEF Types, Loops, ForgeStatuses
    <2>b. Types'
      BY <2>1, <2>a DEF Types
    <2>3. Booked'
      BY <1>8, <1>b, <2>1, <2>2 DEF NoReport, LoopAt, Types, Loops, Booked
    <2>4. passed => loop.trusting
      BY <2>2
    <2>5. Judged'
      BY <1>8, <2>1, <2>2, <2>4 DEF NoReport, LoopAt, Judged, Types, Loops
    <2> QED
      BY <1>t, <2>1, <2>b, <2>3, <2>5
  <1> QED
    BY <1>1, <1>2, <1>3, <1>4, <1>5, <1>6, <1>7, <1>8 DEF LoopSteps

-----------------------------------------------------------------------------
(* Steps of the parent, the child and the clock: the loop stands still.     *)

\* A read takes what the sink has room for, and marks what it had not.
LEMMA ReadKeeps ==
    ASSUME Types, own <= pipe, sink.captured <= MaxOutput, Read
    PROVE  /\ sink' \in [captured : Nat, truncated : BOOLEAN]
           /\ pipe' \in Nat /\ own' \in Nat /\ own' <= pipe'
           /\ sink'.captured <= MaxOutput
           /\ sink.truncated \/ SinkFull => sink'.truncated
PROOF
  <1> DEFINE count == Lesser(pipe, Buffer)
             room == MaxOutput - sink.captured
             take == Lesser(count, room)
  <1>1. /\ count \in Nat /\ count <= pipe
        /\ room \in Nat /\ take \in Nat /\ take <= count /\ take <= room
    BY ProcessAssumption DEF Types, Lesser
  <1>2. sink' = [captured |-> sink.captured + take,
                 truncated |-> sink.truncated \/ take # count]
    BY DEF Read
  <1>3. pipe' = pipe - count /\ own' = Minus(own, count)
    BY DEF Read
  <1>4. pipe' \in Nat /\ own' \in Nat /\ own' <= pipe'
    BY <1>1, <1>3 DEF Types, Minus
  <1>5. sink' \in [captured : Nat, truncated : BOOLEAN] /\ sink'.captured <= MaxOutput
    BY <1>1, <1>2, ProcessAssumption DEF Types
  <1>6. sink'.captured = sink.captured + take /\ sink'.truncated = (sink.truncated \/ take # count)
    BY <1>2
  <1>7. SinkFull => take # count
    BY <1>1, <1>6 DEF Types, SinkFull
  <1> QED
    BY <1>4, <1>5, <1>6, <1>7

LEMMA ProcessStepsKeep == IInv /\ ProcessSteps => IInv'
PROOF
  <1> SUFFICES ASSUME IInv, ProcessSteps PROVE IInv'
    OBVIOUS
  <1> USE DEF IInv
  <1>l. UNCHANGED loop
    BY DEF ProcessSteps
  <1>o. run.at # "off"
    BY DEF ProcessSteps, Parent, Environment, Launch, LaunchFails, DrainReads, DrainEnds,
           PollReaps, PollAgain, WaitReaps, FinalReads, FinalEnds, ChildWrites,
           DescendantWrites, ChildExits, ChildDies, Tick, At, PipeOpen, Tracked
  <1>e. loop.at = "execute"
    BY <1>o DEF Booked
  <1>j. Judged'
    BY <1>l, <1>e DEF Judged
  <1>k. ASSUME run'.at # "off" PROVE Booked'
    BY <1>k, <1>l, <1>e DEF Booked
  <1>1. CASE Launch
    <2>1. Types' /\ Tracked' /\ run'.at # "off"
      BY <1>1, <1>l DEF Launch, Goto, At, Types, Runs, Tracked
    <2> QED
      BY <1>j, <1>k, <2>1
  <1>2. CASE LaunchFails
    <2>1. Types' /\ Tracked' /\ run'.at # "off"
      BY <1>2, <1>l DEF LaunchFails, childVars, Goto, At, Types, Runs, Tracked
    <2> QED
      BY <1>j, <1>k, <2>1
  <1>3. CASE DrainReads
    <2> USE <1>3 DEF DrainReads
    <2>1. /\ sink' \in [captured : Nat, truncated : BOOLEAN]
          /\ pipe' \in Nat /\ own' \in Nat /\ own' <= pipe'
          /\ sink'.captured <= MaxOutput
          /\ sink.truncated \/ SinkFull => sink'.truncated
      BY ReadKeeps DEF Tracked
    <2>2. CASE SinkFull
      BY <2>1, <2>2, <1>l, <1>j, <1>k DEF At, Types, Runs, Tracked
    <2>3. CASE ~SinkFull
      BY <2>1, <2>3, <1>l, <1>j, <1>k DEF At, Types, Runs, Tracked
    <2> QED
      BY <2>2, <2>3
  <1>4. CASE DrainEnds
    <2>1. Types' /\ Tracked' /\ run'.at # "off"
      BY <1>4, <1>l DEF DrainEnds, childVars, Goto, At, Types, Runs, Tracked
    <2> QED
      BY <1>j, <1>k, <2>1
  <1>5. CASE PollReaps \/ WaitReaps
    <2>1. Reap("final") /\ run.at \in {"poll", "wait"}
      BY <1>5 DEF PollReaps, WaitReaps, At
    <2>2. Told \in {"zero", "nonzero", "signal"} /\ (Told = "zero" => exitOk)
      BY DEF Told
    <2>3. Types' /\ Tracked' /\ run'.at # "off"
      BY <2>1, <2>2, <1>l DEF Reap, Types, Runs, Tracked
    <2> QED
      BY <1>j, <1>k, <2>3
  <1>6. CASE PollAgain
    <2> DEFINE late == ~run.overflow /\ elapsed >= MaxWall
    <2> USE <1>6 DEF PollAgain
    <2>1. late \in BOOLEAN /\ run.overflow \in BOOLEAN
      BY DEF Types, Runs
    <2>2. run' \in Runs /\ doomed' \in BOOLEAN
      BY <2>1 DEF Types, Runs
    <2>3. Types'
      BY <2>2, <1>l DEF Types
    <2>a. /\ run'.at \in {"wait", "drain"} /\ run'.told = run.told
          /\ run'.overflow = run.overflow /\ run'.timeout = late
      BY DEF Types, Runs
    <2>b. run.overflow \/ ~doomed \/ run.timeout
      BY DEF Tracked, At
    <2>4. Tracked' /\ run'.at # "off"
      BY <2>1, <2>a, <2>b DEF At, Types, Runs, Tracked
    <2> QED
      BY <1>j, <1>k, <2>3, <2>4
  <1>7. CASE FinalReads
    <2> USE <1>7 DEF FinalReads
    <2>1. /\ sink' \in [captured : Nat, truncated : BOOLEAN]
          /\ pipe' \in Nat /\ own' \in Nat /\ own' <= pipe'
          /\ sink'.captured <= MaxOutput
          /\ sink.truncated \/ SinkFull => sink'.truncated
      BY ReadKeeps DEF Tracked
    <2>2. CASE SinkFull
      BY <2>1, <2>2, <1>l, <1>j, <1>k DEF childVars, Goto, At, Types, Runs, Tracked
    <2>3. CASE ~SinkFull
      BY <2>1, <2>3, <1>l, <1>j, <1>k DEF childVars, At, Types, Runs, Tracked
    <2> QED
      BY <2>2, <2>3
  <1>8. CASE FinalEnds
    <2>1. Types' /\ Tracked' /\ run'.at # "off"
      BY <1>8, <1>l DEF FinalEnds, childVars, Goto, At, Types, Runs, Tracked
    <2> QED
      BY <1>j, <1>k, <2>1
  <1>9. CASE Environment \/ ChildDies \/ Tick
    <2>1. UNCHANGED <<sink, run>>
      BY <1>9 DEF Environment, ChildWrites, DescendantWrites, ChildExits, ChildDies, Tick
    <2>2. Types'
      BY <1>9, <1>l, ProcessAssumption DEF Environment, ChildWrites, DescendantWrites, ChildExits, ChildDies,
                         Tick, childVars, Types
    <2>3. Tracked'
      BY <1>9, <1>l, ProcessAssumption DEF Environment, ChildWrites, DescendantWrites, ChildExits, ChildDies,
                         Tick, childVars, Types, Runs, Tracked, PipeOpen
    <2> QED
      BY <1>j, <1>k, <1>o, <2>1, <2>2, <2>3
  <1> QED
    BY <1>1, <1>2, <1>3, <1>4, <1>5, <1>6, <1>7, <1>8, <1>9 DEF ProcessSteps, Parent

-----------------------------------------------------------------------------

LEMMA StandingStill == IInv /\ UNCHANGED vars => IInv'
BY DEF IInv, Types, Booked, Tracked, Judged, Earned, vars, process, childVars

\* The strengthened invariant: the types, ZENKAI's books, what the parent knows
\* of its child at every place of run_posix, and what a verdict still says.
THEOREM Invariant == Spec => []IInv
PROOF
  <1>1. IInv /\ [Next]_vars => IInv'
    BY CallerKeeps, LoopStepsKeep, ProcessStepsKeep, StandingStill DEF Next
  <1> QED
    BY Starts, <1>1, PTL DEF Spec

\* A run that is reported VERIFIED on FORGE's verdict had a child that ended by
\* itself with status 0, in time, with all its output captured, and stayed
\* within every budget, whatever the races with the deadline and the pipe.
THEOREM VerifiedRunsAreEarned == Spec => []VerifiedIsEarned
PROOF
  <1>1. IInv => VerifiedIsEarned
    BY DEF IInv, Booked, Judged, Earned, VerifiedIsEarned, LoopAt
  <1> QED
    BY Invariant, <1>1, PTL
=============================================================================
