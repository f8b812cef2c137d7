---------------------------- MODULE MCPolicyDesk ----------------------------
(* TLC's instance of PolicyDesk: two policies, of which one sends to a human *)
(* (after a tie of priorities) what its rule of the highest priority allows, *)
(* and the other refuses what its rule of higher priority allows.            *)
EXTENDS PolicyDesk, TLC

CONSTANTS p1, p2, read, write, n1, n2, n3, deferred, refused

Rule(id, effect, priority, covers, minLevel, bound, identity) ==
    [id |-> id, effect |-> effect, priority |-> priority, covers |-> covers,
     minLevel |-> minLevel, validated |-> minLevel > 0, bound |-> bound,
     identity |-> identity]

SomeRules ==
    (p1 :> <<Rule(1, "ALLOW", 9, {read, write}, 0, FALSE, FALSE),
             Rule(4, "HUMAN_REVIEW", 1, {write}, 1, FALSE, FALSE),
             Rule(3, "HUMAN_REVIEW", 1, {write}, 0, FALSE, FALSE),
             Rule(2, "HUMAN_REVIEW", 0, {write}, 0, FALSE, FALSE)>>) @@
    (p2 :> <<Rule(5, "REFUSE", 0, {write}, 0, FALSE, FALSE),
             Rule(6, "ALLOW", 5, {read, write}, 2, TRUE, TRUE),
             Rule(7, "HUMAN_REVIEW", 7, {read}, 2, TRUE, FALSE)>>)

\* A request for op that requires identity and authority, or nothing.
Request(op, needs, level, bound, active) ==
    [operation |-> op, needsIdentity |-> needs, needsAuthority |-> needs,
     level |-> level, validated |-> level > 0, bound |-> bound, scoped |-> level > 0,
     active |-> active, fitting |-> active]

\* One request, that either policy has several rules for.
SomeRequests == {Request(write, TRUE, 2, TRUE, TRUE)}

Symmetry == {f @@ g : f \in Permutations(Nonces), g \in Permutations(Resolutions)}
=============================================================================
