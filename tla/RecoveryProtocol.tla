-------------------------- MODULE RecoveryProtocol --------------------------
(***************************************************************************)
(* RecoveryDecisionProtocol::decide of src/src/recovery_protocol.cpp beside *)
(* the execution sessions: a human signs a one-use receipt for one decision *)
(* on one interrupted session; decide checks the journal, has the authority *)
(* gate consume the receipt, and only then writes the recovery record.     *)
(* An interrupted session is one the journal shows open: whether a process *)
(* is still running it, the journal cannot tell.                           *)
(*                                                                         *)
(* The receipt, the scope it is signed for and the authorization digest    *)
(* are one value of Auths: a receipt is used for one decision only.        *)
(***************************************************************************)
EXTENDS ExecutionSession

VARIABLES
    spent,              \* receipts the authority ledger has recorded as used
    overlapped,         \* history: two journal operations have been inside at once
    left                \* history: lines whose append failed, but which a scan read

vars == <<journal, execution, spent, overlapped, left>>

RecoveryInit ==
    /\ Init
    /\ InitExecution
    /\ spent = {}
    /\ overlapped = FALSE
    /\ left = {}

-----------------------------------------------------------------------------

\* validate_authorization, the inspection, and the checks before the gate.
\* The child is compared with the correlation of its own parent only.
Decidable(d) ==
    /\ view.healthy
    /\ d.parent \in view.open
    /\ d.kind = "RETRY" => d.child # d.parent.corr

\* The gate consumes the receipt durably before the journal is asked.
GateReusesReceipt(d) == TRUE    \* mutated: the ledger does not count the use
GateAllows(d) == d.auth \notin spent

Authorize(c, d) ==
    /\ At(c, "idle")
    /\ Enter(c)
    /\ Decidable(d)
    /\ GateAllows(d)
    /\ spent' = spent \cup {d.auth}
    /\ job' = [job EXCEPT ![c] = [Idle EXCEPT !.step = "decided", !.decision = d]]
    /\ UNCHANGED <<journal, dojo, effects, returned>>

Decide(c) ==
    LET d == job[c].decision IN
    /\ At(c, "decided")
    /\ Recover(c, d.parent, d.kind, d.auth, d.child)
    /\ Goto(c, "recover")
    /\ UNCHANGED <<dojo, effects, returned, spent>>

DecideRefused(c) ==
    LET d == job[c].decision IN
    /\ At(c, "decided")
    /\ Enter(c)
    /\ ~MayRecover(d.parent, d.kind, d.child)
    /\ job' = [job EXCEPT ![c] = Idle]
    /\ UNCHANGED <<journal, dojo, effects, returned, spent>>

Decided(c) ==
    /\ At(c, "recover")
    /\ Append(c)
    /\ job' = [job EXCEPT ![c] = Idle]
    /\ UNCHANGED <<dojo, effects, returned, spent>>

DecideFails(c) ==
    /\ At(c, "recover")
    /\ AppendFails(c)
    /\ job' = [job EXCEPT ![c] = Idle]
    /\ UNCHANGED <<dojo, effects, returned, spent>>

\* The decisions a human can sign now: any kind, any child correlation.
Signable == {d \in [parent : view.open, kind : {"DISMISS", "RETRY"},
                    child : Correlations, auth : Auths] :
                d.kind = "DISMISS" => d.child = d.parent.corr}

RecoveryStep(c) ==
    \/ \E d \in Signable : Authorize(c, d)
    \/ Decide(c)
    \/ DecideRefused(c)
    \/ Decided(c)
    \/ DecideFails(c)

\* History: the overlaps of operations, and the lines that failed appends have
\* left complete but for their newline, where a scan reads and accepts them.
Observe(c) ==
    /\ overlapped' =
        (overlapped \/ \E d \in Clients \ {c} : pending'[c] # None /\ pending'[d] # None)
    /\ left' = left \cup (IF clean /\ ~clean' /\ view'.healthy THEN {pending[c]} ELSE {})

RecoveryNext ==
    \E c \in Clients :
        /\ \/ RunStep(c) /\ UNCHANGED spent
           \/ RecoveryStep(c)
           \/ Crash(c) /\ UNCHANGED spent
        /\ Observe(c)

RecoverySpec == RecoveryInit /\ [][RecoveryNext]_vars

-----------------------------------------------------------------------------
(* Properties.  They hold whatever the processes and the failed appends    *)
(* do.  Where an append after a whole tail or beside another operation      *)
(* takes lines from the scan, the journal reads as damaged from then on,    *)
(* and they say what is still true of it.                                  *)

RecoveryTypeOK ==
    /\ TypeOK
    /\ ExecutionTypeOK
    /\ spent \subseteq Auths
    /\ overlapped \in BOOLEAN
    /\ left \subseteq Records

\* Operations never overlapped, and no failed append left a readable line:
\* crashes, lost and torn appends are all that happened.
Undisturbed == ~overlapped /\ left = {}

\* What the journal shows can be relied on: it reads as healthy, or it was
\* damaged by nothing worse than crashes, lost and torn appends.
Reliable == view.healthy \/ Undisturbed

\* The recovery records on file: decide() returned OK for them, or its process
\* died while it returned.
DecisionsMade == {r \in acked : r.kind \in {"DISMISS", "RETRY"}}

OpenIn(scan, s) == \E b \in scan.open : b.session = s

\* Durable intent precedes side effects (README law 37): whatever was executed
\* has a BEGIN that every later inspection of a healthy journal reads, and of
\* a damaged one too, unless operations overlapped or a whole tail was there.
DurableIntent ==
    Reliable => \A s \in Sessions : effects[s] > 0 => s \in view.seen

\* However often a request is submitted, by whichever process, before or after
\* crashes and recoveries: its session is executed at most once.  Two runs can
\* only come of BEGINs that overlapped, and then the journal reads as damaged
\* for good.
ExecutedOnce ==
    (overlapped => view.healthy) => \A s \in Sessions : effects[s] <= 1

\* A session has one outcome.  If a run returned COMPLETED, its episode is
\* stored and its COMMIT was acknowledged; and that COMMIT is in force, and
\* nobody has dismissed or retried the session, as long as the journal can be
\* relied on, even though a running session looks interrupted to whoever
\* decides.
OneOutcome ==
    \A s \in Sessions :
        "COMPLETED" \in returned[s] =>
            /\ s \in dojo
            /\ \E r \in acked : r.kind = "COMMIT" /\ r.session = s
            /\ Reliable =>
                /\ s \in view.seen /\ ~OpenIn(view, s)
                /\ \A d \in DecisionsMade : d.session # s
                /\ \A l \in view.lineages : l.parent # s

\* Closure is never invented (README laws 40 and 41).  A session the journal
\* shows closed, healthy or not, was closed by a line that was acknowledged or
\* left whole: a COMMIT of a run that stored its episode, an ABORT, or a
\* decision whose receipt was consumed first.
NoInventedClosure ==
    \A s \in view.seen :
        OpenIn(view, s)
        \/ \E r \in acked \cup left :
            /\ r.session = s /\ r.kind # "BEGIN"
            /\ r.kind = "COMMIT" => s \in dojo /\ effects[s] >= 1
            /\ r.kind \in {"DISMISS", "RETRY"} => r.auth \in spent

\* A receipt decides about one parent, whatever happens to the journal, and a
\* parent is decided about once, unless the two decisions overlapped and the
\* journal reads as damaged.
OneDecision ==
    \A d1, d2 \in DecisionsMade :
        \/ d1.auth = d2.auth
        \/ d1.session = d2.session /\ (overlapped => view.healthy)
        => d1 = d2

-----------------------------------------------------------------------------
(* What the documentation says and the code does not keep.                 *)

\* docs/AUTHORITY_LEDGER.md, Recovery interaction: recovery checks the fresh
\* child correlation before it consumes a receipt, so "invalid recovery
\* requests therefore do not burn one-shot authority".  One process: nobody
\* changes the journal between the inspection and the decision.
ConsumedReceiptDecides ==
    \A c \in Clients :
        At(c, "decided") =>
            MayRecover(job[c].decision.parent, job[c].decision.kind, job[c].decision.child)
=============================================================================
