---------------------------- MODULE PolicyEngine ----------------------------
(***************************************************************************)
(* DeclarativePolicyEngine::evaluate of src/src/policy_engine.cpp: what an *)
(* ordered list of rules decides about a request.  A rule says which       *)
(* operations it covers (subject, slot, capability, layer, flags and risk  *)
(* together), and what it wants of the authority facts and of the runtime  *)
(* identity.  Trace entries, reasons and malformed input are left out.     *)
(***************************************************************************)
EXTENDS Integers, SequencesExt

CONSTANTS
    Operations,     \* what a request may ask to do
    RuntimeLease,   \* the level from which authority must be bound to the runtime
    None            \* no rule

Effects == {"ALLOW", "HUMAN_REVIEW", "REFUSE"}

Rules ==
    [id : Nat, effect : Effects, priority : Int, covers : SUBSET Operations,
     minLevel : Nat, validated : BOOLEAN, bound : BOOLEAN, identity : BOOLEAN]

\* A request: the operation, what it requires, the authority facts (their
\* level, validated, bound to the current runtime, and of the right scope,
\* capability and id) and the identity evidence (active in the store; valid and
\* of the right slot).
Requests ==
    [operation : Operations, needsIdentity : BOOLEAN, needsAuthority : BOOLEAN,
     level : Nat, validated : BOOLEAN, bound : BOOLEAN, scoped : BOOLEAN,
     active : BOOLEAN, fitting : BOOLEAN]

rule_matches(rule, r) ==
    /\ r.operation \in rule.covers
    /\ r.level >= rule.minLevel
    /\ rule.validated => r.validated
    /\ rule.bound => r.bound
    /\ rule.identity => r.active

IdentityRejected(r) == r.needsIdentity /\ ~(r.fitting /\ r.active)

AuthorityRejected(r) ==
    /\ r.needsAuthority
    /\ \/ ~r.validated
       \/ r.level = 0
       \/ ~r.scoped
       \/ r.level >= RuntimeLease /\ ~r.bound

decision_precedence == [ALLOW |-> 1, HUMAN_REVIEW |-> 2, REFUSE |-> 3]

Beats(x, y) ==
    IF y = None THEN TRUE
    ELSE LET px == decision_precedence[x.effect]
             py == decision_precedence[y.effect] IN
         \/ px > py
         \/ px = py /\ x.priority > y.priority
         \/ px = py /\ x.priority = y.priority /\ x.id < y.id

\* One pass over the rules, in their order.
Winner(rules, r) ==
    FoldLeft(LAMBDA best, rule :
                IF rule_matches(rule, r) /\ Beats(rule, best) THEN rule ELSE best,
             None, rules)

Answers ==
    [status : {"REJECTED", "DECIDED"}, decision : Effects, rule : Rules \cup {None}]

\* Identity and authority are asked for before any rule is looked at; with no
\* matching rule the answer is REFUSE.
Evaluate(rules, r) ==
    LET rejected == [status |-> "REJECTED", decision |-> "REFUSE", rule |-> None]
        winner == Winner(rules, r) IN
    IF IdentityRejected(r) \/ AuthorityRejected(r) THEN rejected
    ELSE [status |-> "DECIDED",
          decision |-> IF winner = None THEN "REFUSE" ELSE winner.effect,
          rule |-> winner]

-----------------------------------------------------------------------------
(* What the documentation asks of the decision, with no order in it.        *)

Matching(rules, r) == {rule \in ToSet(rules) : rule_matches(rule, r)}

\* Any matching REFUSE decides, else any HUMAN_REVIEW, else any ALLOW, else
\* nothing is allowed.
Intended(rules, r) ==
    LET effects == {rule.effect : rule \in Matching(rules, r)} IN
    IF IdentityRejected(r) \/ AuthorityRejected(r) THEN "REFUSE"
    ELSE IF "REFUSE" \in effects THEN "REFUSE"
    ELSE IF "HUMAN_REVIEW" \in effects THEN "HUMAN_REVIEW"
    ELSE IF "ALLOW" \in effects THEN "ALLOW"
    ELSE "REFUSE"

\* The rule that is reported: one that matches with that effect, and no other
\* such rule has a higher priority or the same and a smaller id.
Reported(rules, r, rule) ==
    \/ Matching(rules, r) = {} /\ rule = None
    \/ /\ rule \in Matching(rules, r)
       /\ \A other \in Matching(rules, r) :
            other.effect = rule.effect =>
                \/ other.priority < rule.priority
                \/ other.priority = rule.priority /\ other.id >= rule.id
=============================================================================
