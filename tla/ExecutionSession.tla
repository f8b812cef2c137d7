-------------------------- MODULE ExecutionSession --------------------------
(***************************************************************************)
(* ExecutionSessionOrchestrator::run of src/src/execution_session.cpp, in  *)
(* any number of processes over one transaction journal.  A process runs   *)
(* one request at a time; it may die between any two of its steps.         *)
(*                                                                         *)
(* The session id is a digest of the request, so submitting a request      *)
(* again submits the same session.  (The digest also covers the recovery   *)
(* lineage; here a session may be submitted with or without one, which     *)
(* only adds behaviours.)  The routes, the slots, the ZENKAI loop and the  *)
(* artifacts only matter here by how they end.                             *)
(***************************************************************************)
EXTENDS SessionJournal

CONSTANTS
    CorrelationOf,      \* CorrelationOf[s]: the correlation id in the request of s
    RequestOf           \* RequestOf[s]: the request digest of s

ASSUME SessionAssumption ==
    /\ CorrelationOf \in [Sessions -> Correlations]
    /\ RequestOf \in [Sessions -> Requests]

VARIABLES
    job,                \* job[c]: the run or the decision process c is in
    dojo,               \* sessions that have an episode in the DOJO store
    effects,            \* history: how often the work of s was executed
    returned            \* history: returned[s], the statuses begun runs of s returned

execution == <<job, dojo, effects, returned>>

Steps == {"idle", "begin", "route", "executed", "finish", "terminal", "decided", "recover"}

Statuses ==
    {"COMPLETED", "REJECTED", "VERIFICATION_FAILED", "DOJO_STORE_FAILED",
     "JOURNAL_STORE_FAILED"}    \* REJECTED: ROUTE_REJECTED or INVOCATION_REJECTED

\* A decision of the recovery protocol: RecoveryAuthorization with its receipt.
Decisions ==
    [parent : Begins, kind : {"DISMISS", "RETRY"}, child : Correlations, auth : Auths]

Jobs ==
    [step : Steps, session : Sessions \cup {None}, status : Statuses \cup {None},
     decision : Decisions \cup {None}]

Idle == [step |-> "idle", session |-> None, status |-> None, decision |-> None]

\* execution_session_id and execution_request_sha256: the identity a request has.
Contract(s) == [session |-> s, corr |-> CorrelationOf[s], request |-> RequestOf[s]]

InitExecution ==
    /\ job = [c \in Clients |-> Idle]
    /\ dojo = {}
    /\ effects = [s \in Sessions |-> 0]
    /\ returned = [s \in Sessions |-> {}]

-----------------------------------------------------------------------------

At(c, step) == job[c].step = step

Goto(c, step) == job' = [job EXCEPT ![c].step = step]

Return(c, status) ==
    /\ job' = [job EXCEPT ![c] = Idle]
    /\ returned' = [returned EXCEPT ![job[c].session] = @ \cup {status}]

\* The BEGIN comes before routing and before any effect.  A request carries
\* either no recovery lineage or a parent and an authorization.
StartRun(c, s) ==
    /\ job' = [job EXCEPT ![c] = [Idle EXCEPT !.step = "begin", !.session = s]]
    /\ UNCHANGED <<dojo, effects, returned>>

Submit(c, s) ==
    /\ At(c, "idle")
    /\ Begin(c, Contract(s))
    /\ StartRun(c, s)

SubmitChild(c, s, parent, auth) ==
    /\ At(c, "idle")
    /\ BeginRecoveryChild(c, Contract(s), parent, auth)
    /\ StartRun(c, s)

\* The journal refuses the BEGIN: the run ends before it has done anything.
\* (begin; a refusal of begin_recovery_child leaves the same state behind.)
SubmitRefused(c, s) ==
    /\ At(c, "idle")
    /\ Enter(c)
    /\ ~MayBegin(Contract(s))
    /\ UNCHANGED <<journal, execution>>

Begun(c) ==
    /\ At(c, "begin")
    /\ Append(c)
    /\ Goto(c, "route")
    /\ UNCHANGED <<dojo, effects, returned>>

BeginFailsIgnored(c) ==    \* mutated: the run goes on without its BEGIN
    /\ At(c, "begin")
    /\ AppendFails(c)
    /\ Goto(c, "route")
    /\ UNCHANGED <<dojo, effects, returned>>
BeginFails(c) ==
    /\ At(c, "begin")
    /\ AppendFails(c)
    /\ Return(c, "JOURNAL_STORE_FAILED")
    /\ UNCHANGED <<dojo, effects>>

\* CADDY does not select a route, or CLUBHOUSE refuses the slot.
RejectNoStatus(c) ==    \* mutated: no status is set
    /\ At(c, "route")
    /\ Goto(c, "finish")
    /\ UNCHANGED <<journal, dojo, effects, returned>>
Reject(c) ==
    /\ At(c, "route")
    /\ job' = [job EXCEPT ![c].step = "finish", ![c].status = "REJECTED"]
    /\ UNCHANGED <<journal, dojo, effects, returned>>

\* The ZENKAI loop drives the executor; its verdict is the status to come.
Execute(c, status) ==
    /\ At(c, "route")
    /\ status \in {"COMPLETED", "VERIFICATION_FAILED"}
    /\ job' = [job EXCEPT ![c].step = "executed", ![c].status = status]
    /\ effects' = [effects EXCEPT ![job[c].session] = @ + 1]
    /\ UNCHANGED <<journal, dojo, returned>>

RecordEpisode(c) ==
    /\ At(c, "executed")
    /\ dojo' = dojo \cup {job[c].session}
    /\ Goto(c, "finish")
    /\ UNCHANGED <<journal, effects, returned>>

EpisodeFails(c) ==
    /\ At(c, "executed")
    /\ job' = [job EXCEPT ![c].step = "finish", ![c].status = "DOJO_STORE_FAILED"]
    /\ UNCHANGED <<journal, dojo, effects, returned>>

\* finalize: COMMIT for a completed run, ABORT for any other.
TerminalKindAlwaysCommit(status) == "COMMIT"    \* mutated
TerminalKind(status) == IF status = "COMPLETED" THEN "COMMIT" ELSE "ABORT"

Finalize(c) ==
    /\ At(c, "finish")
    /\ Finish(c, Contract(job[c].session), TerminalKind(job[c].status))
    /\ Goto(c, "terminal")
    /\ UNCHANGED <<dojo, effects, returned>>

FinalizeRefused(c) ==
    /\ At(c, "finish")
    /\ Enter(c)
    /\ ~MayFinish(Contract(job[c].session))
    /\ Return(c, "JOURNAL_STORE_FAILED")
    /\ UNCHANGED <<journal, dojo, effects>>

Finalized(c) ==
    /\ At(c, "terminal")
    /\ Append(c)
    /\ Return(c, job[c].status)
    /\ UNCHANGED <<dojo, effects>>

FinalizeFailsQuietly(c) ==    \* mutated: the status of the run is kept
    /\ At(c, "terminal")
    /\ AppendFails(c)
    /\ Return(c, job[c].status)
    /\ UNCHANGED <<dojo, effects>>
FinalizeFails(c) ==
    /\ At(c, "terminal")
    /\ AppendFails(c)
    /\ Return(c, "JOURNAL_STORE_FAILED")
    /\ UNCHANGED <<dojo, effects>>

RunStep(c) ==
    \/ \E s \in Sessions :
        \/ Submit(c, s)
        \/ SubmitRefused(c, s)
        \/ \E p \in Sessions, a \in Auths : SubmitChild(c, s, p, a)
    \/ Begun(c)
    \/ BeginFails(c)
    \/ Reject(c)
    \/ \E status \in Statuses : Execute(c, status)
    \/ RecordEpisode(c)
    \/ EpisodeFails(c)
    \/ Finalize(c)
    \/ FinalizeRefused(c)
    \/ Finalized(c)
    \/ FinalizeFails(c)

\* The process dies (or the executor throws through run).  An append it was in
\* may have reached the file, whole, in part or not at all; nobody hears of it.
Crash(c) ==
    /\ ~At(c, "idle")
    /\ job' = [job EXCEPT ![c] = Idle]
    /\ UNCHANGED <<dojo, effects, returned>>
    /\ \/ pending[c] = None /\ UNCHANGED journal
       \/ Append(c)
       \/ AppendFails(c)

-----------------------------------------------------------------------------

\* The variables of the runs have the types their code gives them.
ExecutionTypeOK ==
    /\ job \in [Clients -> Jobs]
    /\ dojo \subseteq Sessions
    /\ effects \in [Sessions -> Nat]
    /\ returned \in [Sessions -> SUBSET Statuses]
=============================================================================
