-------------------------- MODULE AuthorityBudget ---------------------------
(***************************************************************************)
(* What the authority ledger promises to those it says ALLOWED to, with no *)
(* file, no key and no clock in it: the uses and the delegations it has    *)
(* acknowledged never exceed what was signed.  It may refuse at any time.  *)
(* AuthorityLedger implements it (AuthorityLedger!Budget); the chain of    *)
(* gates of GateChain spends from it.                                      *)
(***************************************************************************)
EXTENDS Naturals, Functions

CONSTANTS
    Receipts,       \* receipt ids
    MaxUses,        \* MaxUses[r]: the signed number of uses
    ParentOf,       \* ParentOf[r]: the receipt r is delegated from, or None
    None

VARIABLES
    granted,        \* granted[r]: the uses of r that were ALLOWED
    issued          \* the receipts whose delegation was ALLOWED

budget == <<granted, issued>>

Init ==
    /\ granted = [r \in Receipts |-> 0]
    /\ issued = {}

\* A delegation costs one use and sets the child's uses aside.
Cost == [c \in Receipts |-> 1 + MaxUses[c]]

Committed(r) == granted[r] + SumFunctionOnSet(Cost, {c \in issued : ParentOf[c] = r})

Known(r) == ParentOf[r] # None => r \in issued

Use(r) ==
    /\ Known(r)
    /\ Committed(r) + 1 <= MaxUses[r]
    /\ granted' = [granted EXCEPT ![r] = @ + 1]
    /\ UNCHANGED issued

Delegate(c) ==
    LET p == ParentOf[c] IN
    /\ p # None /\ c \notin issued
    /\ Known(p)
    /\ Committed(p) + 1 + MaxUses[c] <= MaxUses[p]
    /\ issued' = issued \cup {c}
    /\ UNCHANGED granted

Next == \E r \in Receipts : Use(r) \/ Delegate(r)

Spec == Init /\ [][Next]_budget
=============================================================================
