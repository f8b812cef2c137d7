---------------------------- MODULE VerifiedLoop ----------------------------
(***************************************************************************)
(* The execution of one session request: ZenkaiLoop::run of                *)
(* src/src/zenkai.cpp around the attempts of                               *)
(* ExecutionSessionOrchestrator::run (src/src/execution_session.cpp), each *)
(* of them a ForgeAdapter::execute (src/src/forge.cpp) of a native process *)
(* (NativeProcess).  When a run has ended another request may be run.      *)
(*                                                                         *)
(* The retry factory and the verifier belong to the caller: they answer,   *)
(* and answer what they like.  An item of evidence is taken to have a      *)
(* fixed size, so that its byte budget is one on items.                    *)
(***************************************************************************)
EXTENDS NativeProcess

CONSTANTS
    Budgets         \* ZenkaiBudget: the budgets a request may come with

VARIABLES
    loop            \* the running request, or the last one

vars == <<process, loop>>

\* A request has a budget, and the constructor raises one of zero to one.
ASSUME LoopAssumption ==
    /\ Budgets # {}
    /\ Budgets \subseteq [attempts : Nat \ {0}, tools : Nat \ {0}, evidence : Nat \ {0}]

\* Of an execution; the refusals before it end the run (Rejected).
ForgeStatuses ==
    {"COMPLETED", "EXECUTOR_ERROR", "TIMEOUT", "OUTPUT_BUDGET", "EXECUTION_FAILED", "NONE"}

StopReasons ==
    {"VERIFIED", "RETRY_NOT_AUTHORIZED", "NO_NEW_INFORMATION", "FATAL_FAILURE",
     "ATTEMPT_BUDGET", "TOOL_BUDGET", "EVIDENCE_BUDGET", "NONE"}

Loops ==
    [at : {"idle", "next", "plan", "execute", "judge"},
     retries : BOOLEAN,         \* RetryAuthority::Bounded
     trusting : BOOLEAN,        \* the caller brings a verifier of its own
     budget : Budgets,
     attempts : Nat, tools : Nat, evidence : Nat,
     previous : ForgeStatuses, latest : ForgeStatuses,
     stop : StopReasons]

Fresh(retries, trusting, budget) ==
    [at |-> "next", retries |-> retries, trusting |-> trusting, budget |-> budget,
     attempts |-> 0, tools |-> 0, evidence |-> 0,
     previous |-> "NONE", latest |-> "NONE", stop |-> "NONE"]

\* Nothing has been run, with whatever budget.
Init ==
    /\ InitProcess
    /\ loop = [Fresh(FALSE, FALSE, CHOOSE b \in Budgets : TRUE) EXCEPT !.at = "idle"]

LoopAt(step) == loop.at = step

Stop(reason) == loop' = [loop EXCEPT !.at = "idle", !.stop = reason]

-----------------------------------------------------------------------------
(* ZENKAI: the attempts.                                                    *)

Start(retries, trusting, budget) ==
    /\ LoopAt("idle")
    /\ loop' = Fresh(retries, trusting, budget)
    /\ UNCHANGED process

NextAttempt ==
    /\ LoopAt("next")
    /\ IF loop.attempts >= loop.budget.attempts THEN Stop("ATTEMPT_BUDGET")
       ELSE IF loop.attempts > 0 /\ ~loop.retries THEN Stop("RETRY_NOT_AUTHORIZED")
       ELSE loop' = [loop EXCEPT !.at = "plan"]
    /\ UNCHANGED process

\* The attempt ends before anything is executed: it counts, and brings no evidence.
\* There is no retry factory, or it has no new request.
NoRetryPlan ==
    /\ LoopAt("plan") /\ loop.attempts > 0
    /\ loop' = [loop EXCEPT !.attempts = @ + 1, !.at = "idle", !.stop = "NO_NEW_INFORMATION"]
    /\ UNCHANGED process

\* The retry leaves the correlation, the slot, the capability or the layer, or
\* FORGE refuses the request.
Rejected ==
    /\ LoopAt("plan")
    /\ loop' = [loop EXCEPT !.attempts = @ + 1, !.at = "idle", !.stop = "FATAL_FAILURE"]
    /\ UNCHANGED process

\* FORGE calls the executor, with a new sink and a new child to come.
Execute ==
    /\ LoopAt("plan")
    /\ loop' = [loop EXCEPT !.at = "execute"]
    /\ child' = "none"
    /\ exitOk' = FALSE /\ doomed' = FALSE /\ descendant' = FALSE
    /\ pipe' = 0 /\ own' = 0 /\ elapsed' = 0
    /\ sink' = EmptySink
    /\ run' = [Off EXCEPT !.at = "launch"]

-----------------------------------------------------------------------------
(* FORGE: what the report is worth.                                         *)

\* There is no executor, or it throws before it has a child: an EXECUTOR_ERROR
\* without evidence, which is judged like any other execution.
NoReport ==
    /\ LoopAt("plan")
    /\ \E passed \in IF loop.trusting THEN BOOLEAN ELSE {FALSE},
          new \in IF loop.latest = "EXECUTOR_ERROR" THEN BOOLEAN ELSE {TRUE} :
        loop' = [loop EXCEPT !.attempts = @ + 1,
                             !.previous = loop.latest, !.latest = "EXECUTOR_ERROR",
                             !.at = IF passed \/ ~new THEN "idle" ELSE "next",
                             !.stop = IF passed THEN "VERIFIED"
                                      ELSE IF ~new THEN "NO_NEW_INFORMATION" ELSE @]
    /\ UNCHANGED process

Verdict ==
    IF elapsed > MaxWall \/ ReportedWall > MaxWall THEN "TIMEOUT"
    ELSE IF sink.truncated THEN "OUTPUT_BUDGET"
    ELSE IF ~Completed THEN "EXECUTOR_ERROR"
    ELSE IF run.told # "zero" THEN "EXECUTION_FAILED"
    ELSE "COMPLETED"

ForgeReturns ==
    /\ LoopAt("execute") /\ At("report")
    /\ loop' = [loop EXCEPT !.at = "judge", !.attempts = @ + 1, !.previous = loop.latest,
                            !.latest = Verdict]
    /\ run' = [run EXCEPT !.at = "off"]
    /\ UNCHANGED <<childVars, pipe, own, elapsed, sink>>

-----------------------------------------------------------------------------
(* ZENKAI: the judgement.  The evidence is booked before it is looked at.   *)

OverBudget ==
    /\ LoopAt("judge")
    /\ \/ loop.tools >= loop.budget.tools /\ Stop("TOOL_BUDGET")
       \/ /\ loop.tools < loop.budget.tools /\ loop.evidence >= loop.budget.evidence
          /\ Stop("EVIDENCE_BUDGET")
    /\ UNCHANGED process

\* Without a verifier of the caller's, FORGE's verdict is the verification.
Verifies == IF loop.trusting THEN BOOLEAN ELSE {loop.latest = "COMPLETED"}

\* The digest of the execution is new, unless a retry repeats an invocation
\* and has the same result.
News == IF loop.attempts > 1 /\ loop.latest = loop.previous THEN BOOLEAN ELSE {TRUE}

Judge ==
    /\ LoopAt("judge")
    /\ loop.tools < loop.budget.tools /\ loop.evidence < loop.budget.evidence
    /\ \E passed \in Verifies, new \in News :
        loop' = [loop EXCEPT !.tools = @ + 1, !.evidence = @ + 1,
                             !.at = IF passed \/ ~new THEN "idle" ELSE "next",
                             !.stop = IF passed THEN "VERIFIED"
                                      ELSE IF ~new THEN "NO_NEW_INFORMATION" ELSE @]
    /\ UNCHANGED process

-----------------------------------------------------------------------------

ProcessSteps == (Parent \/ Environment \/ ChildDies \/ Tick) /\ UNCHANGED loop

Caller == \E retries, trusting \in BOOLEAN, b \in Budgets : Start(retries, trusting, b)

LoopSteps ==
    \/ NextAttempt
    \/ NoRetryPlan
    \/ Rejected
    \/ Execute
    \/ NoReport
    \/ ForgeReturns
    \/ OverBudget
    \/ Judge

Next == Caller \/ LoopSteps \/ ProcessSteps

\* The calling thread goes on when it can, time passes, and the kernel delivers
\* a SIGKILL.  Nothing is assumed of the child, which may hang or write for
\* ever, and nothing of the caller, which need not start another run.
Fairness ==
    /\ WF_vars(LoopSteps \/ (Parent /\ UNCHANGED loop))
    /\ WF_vars(Tick /\ UNCHANGED loop)
    /\ WF_vars(ChildDies /\ UNCHANGED loop)

Spec == Init /\ [][Next]_vars /\ Fairness

-----------------------------------------------------------------------------
(* Properties.                                                             *)

\* A run that ends VERIFIED without a verifier of the caller's has earned it:
\* its last child ended by itself with status 0, in time, and was reaped; all
\* it had written, up to its last moment, is in the sink, none of it cut off;
\* and a second attempt was made only with retry authority, within the budgets.
\* The child racing its timeout, or its own output ceiling, never gets through.
VerifiedIsEarned ==
    LoopAt("idle") /\ loop.stop = "VERIFIED" =>
        /\ loop.attempts <= loop.budget.attempts
        /\ loop.tools <= loop.budget.tools /\ loop.evidence <= loop.budget.evidence
        /\ loop.attempts > 1 => loop.retries
        /\ ~loop.trusting =>
            /\ child = "reaped" /\ exitOk /\ ~doomed
            /\ own = 0 /\ ~sink.truncated
            /\ elapsed <= MaxWall

\* Every run ends, with a reason and no child left running or unreaped, though
\* its children may hang, write for ever or leave descendants that do
\* (docs/ZENKAI_LOOP.md: "always exits with an explicit reason";
\* docs/NATIVE_PROCESS_EXECUTOR.md: crossing a ceiling terminates the child).
RunEnds ==
    ~LoopAt("idle") ~>
        (LoopAt("idle") /\ loop.stop # "NONE" /\ child \in {"none", "reaped"})
=============================================================================
