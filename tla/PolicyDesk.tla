----------------------------- MODULE PolicyDesk -----------------------------
(***************************************************************************)
(* The registry (PolicyRegistry), the engine that asks it on every         *)
(* evaluation (RegistryBackedPolicyEngine of src/src/policy_registry.cpp   *)
(* around PolicyEngine) and the operator console that files what needs a   *)
(* human (OperatorConsole::enqueue_review of src/src/operator_console.cpp, *)
(* into ReviewQueue).  One process, Desk, evaluates and files; it and the  *)
(* others change the registry and close tickets meanwhile.                 *)
(*                                                                         *)
(* The engine scans the registry twice and the console a third time; the   *)
(* registry may change between any two scans.                              *)
(***************************************************************************)
EXTENDS Integers, FiniteSets, Sequences, JournalFile

CONSTANTS
    Policies, Nonces, Operators, MaxRecords, MaxPolicies,   \* as in PolicyRegistry
    Resolutions, MaxQueueRecords, MaxTickets,   \* as in ReviewQueue
    Operations, RuntimeLease,       \* as in PolicyEngine
    RulesOf,        \* RulesOf[p]: the rules of p, in their order
    Asked,          \* the requests that are evaluated
    Desk,           \* the process that evaluates
    MaxFailures,    \* bound: failed appends
    None            \* absent

VARIABLES
    regFile, regPending, regAcked,          \* PolicyRegistry
    queueFile, queuePending, queueAcked,    \* ReviewQueue
    call,           \* the evaluation Desk is in, or None
    failures        \* history: failed appends so far

registryVars == <<regFile, regPending, regAcked>>
queueVars == <<queueFile, queuePending, queueAcked>>
vars == <<registryVars, queueVars, call, failures>>

Registry == INSTANCE PolicyRegistry

Tickets == [policy : Policies, operation : Operations]

Queue == INSTANCE ReviewQueue WITH MaxRecords <- MaxQueueRecords

Engine == INSTANCE PolicyEngine

ASSUME DeskAssumption ==
    /\ Desk \in Operators
    /\ MaxFailures \in Nat
    /\ {MaxRecords, MaxPolicies, MaxQueueRecords, MaxTickets} \subseteq Nat \ {0}
    /\ None \notin Policies \cup Engine!Rules
    /\ Asked \subseteq Engine!Requests
    /\ \A p \in Policies : RulesOf[p] \in Seq(Engine!Rules)

Calls ==
    [at : {"active", "rules", "return", "review", "enqueue"}, policy : Policies,
     request : Asked, since : SUBSET (Policies \cup {None}),
     answer : Engine!Answers \cup {None}]

Init ==
    /\ Registry!Init
    /\ Queue!Init
    /\ call = None
    /\ failures = 0

-----------------------------------------------------------------------------
(* The registry changes.                                                    *)

\* The policy is_policy_active answers for, by what the file holds.
ActiveIn(file) == IF file.view.healthy THEN file.view.active ELSE None

\* History: the policies that were active during the running evaluation.
Witness ==
    call' = IF call # None /\ call.answer = None
            THEN [call EXCEPT !.since = @ \cup {ActiveIn(regFile')}] ELSE call

\* A process does one thing at a time.
Free(o) ==
    /\ regPending[o] = None /\ queuePending[o] = None
    /\ o = Desk => call = None

RegisterPolicy(o, p, long) ==
    /\ Free(o)
    /\ Registry!RegisterPolicy(o, p, long)
    /\ UNCHANGED <<queueVars, call, failures>>

ApplyControl(o, c, long) ==
    /\ Free(o)
    /\ Registry!ApplyControl(o, c, long)
    /\ UNCHANGED <<queueVars, call, failures>>

RegistryAppends(o) ==
    /\ Registry!Append(o)
    /\ Witness
    /\ UNCHANGED <<queueVars, failures>>

Fails == failures < MaxFailures /\ failures' = failures + 1

RegistryAppendFails(o) ==
    /\ Registry!AppendFails(o)
    /\ Fails
    /\ Witness
    /\ UNCHANGED queueVars

-----------------------------------------------------------------------------
(* RegistryBackedPolicyEngine::evaluate with the document of p.             *)

Goto(step) == call' = [call EXCEPT !.at = step]

At(step) == call # None /\ call.at = step

\* The first scan: an unhealthy registry answers POLICY_INACTIVE.
Inspect(p, r) ==
    /\ Free(Desk)
    /\ Registry!Scan.healthy
    /\ call' = [at |-> "active", policy |-> p, request |-> r, since |-> {ActiveIn(regFile)},
                answer |-> None]
    /\ UNCHANGED <<registryVars, queueVars, failures>>

\* The second scan: only the active policy may answer.
CheckRegistered ==    \* mutated: a policy that is registered and not revoked may answer
    /\ At("active")
    /\ IF /\ Registry!Scan.healthy
          /\ call.policy \in Registry!Scan.known \ Registry!Scan.revoked
       THEN Goto("rules") ELSE call' = None
    /\ UNCHANGED <<registryVars, queueVars, failures>>
CheckActive ==
    /\ At("active")
    /\ IF Registry!IsPolicyActive(call.policy) THEN Goto("rules") ELSE call' = None
    /\ UNCHANGED <<registryVars, queueVars, failures>>

\* The rules decide.
Decide ==
    /\ At("rules")
    /\ call' = [call EXCEPT !.answer = Engine!Evaluate(RulesOf[call.policy], call.request),
                            !.at = "return"]
    /\ UNCHANGED <<registryVars, queueVars, failures>>

\* The caller takes what needs a human to the console.
Return ==
    /\ At("return")
    /\ IF call.answer.decision = "HUMAN_REVIEW" THEN Goto("review") ELSE call' = None
    /\ UNCHANGED <<registryVars, queueVars, failures>>

-----------------------------------------------------------------------------
(* OperatorConsole::enqueue_review, and the operators that close tickets.   *)

TicketOf(c) == [policy |-> c.policy, operation |-> c.request.operation]

\* The third scan: the policy must still be the active one.
ConsoleChecks ==
    /\ At("review")
    /\ IF ActiveIn(regFile) = call.policy THEN Goto("enqueue") ELSE call' = None
    /\ UNCHANGED <<registryVars, queueVars, failures>>

Enqueue ==
    /\ At("enqueue")
    /\ Queue!Enqueue(Desk, TicketOf(call))
    /\ call' = None
    /\ UNCHANGED <<registryVars, failures>>

\* The queue is unhealthy or full, or holds the ticket already.
EnqueueRefused ==
    /\ At("enqueue")
    /\ ~Queue!MayEnqueue(TicketOf(call))
    /\ call' = None
    /\ UNCHANGED <<registryVars, queueVars, failures>>

CloseTicket(o, t, state) ==
    /\ Free(o)
    /\ Queue!Close(o, t, state)
    /\ UNCHANGED <<registryVars, call, failures>>

QueueAppends(o) ==
    /\ Queue!Append(o)
    /\ UNCHANGED <<registryVars, call, failures>>

QueueAppendFails(o) ==
    /\ Queue!AppendFails(o)
    /\ Fails
    /\ UNCHANGED <<registryVars, call>>

Next ==
    \/ \E o \in Operators :
        \/ \E p \in Policies, long \in BOOLEAN : RegisterPolicy(o, p, long)
        \/ \E c \in Registry!Controls, long \in BOOLEAN : ApplyControl(o, c, long)
        \/ RegistryAppends(o)
        \/ RegistryAppendFails(o)
        \/ \E t \in Queue!Pending(Queue!Scan), state \in Resolutions :
            CloseTicket(o, t, state)
        \/ QueueAppends(o)
        \/ QueueAppendFails(o)
    \/ \E p \in Policies, r \in Asked : Inspect(p, r)
    \/ CheckActive
    \/ Decide
    \/ Return
    \/ ConsoleChecks
    \/ Enqueue
    \/ EnqueueRefused

Spec == Init /\ [][Next]_vars

-----------------------------------------------------------------------------
(* Properties.                                                             *)

\* Both journals keep what they acknowledged (PolicyRegistry, ReviewQueue).
Acknowledged == Registry!RegistryAcked /\ Queue!QueueAcked

\* Both journals accept what the operations write, at the limits on records,
\* policies and tickets too (docs/SIGNED_POLICY_REGISTRY.md and
\* docs/OPERATOR_CONTROL_SURFACE.md: state is reconstructed by replay).  A line is
\* refused only if an append failed or raced, or, in the registry, if its
\* signature is longer than replay allows: no operation checks that.
WritesReplay == Registry!RegistryReplays /\ Queue!QueueReplays

\* Docs law 8 of the registry, every evaluation rechecks active state: a
\* policy that answers was the active one at a moment of this very evaluation,
\* so none that was replaced or revoked before it began; and its answer is the
\* documented one: REFUSE before HUMAN_REVIEW before ALLOW whatever the order
\* and the priorities of the rules, nothing allowed by default.
EngineAnswers ==
    call # None /\ call.answer # None =>
        /\ call.policy \in call.since
        /\ call.answer.decision = Engine!Intended(RulesOf[call.policy], call.request)
        /\ call.answer.status = "DECIDED" =>
            Engine!Reported(RulesOf[call.policy], call.request, call.answer.rule)

ImplementsRegister == Registry!ImplementsRegister
=============================================================================
