------------------------- MODULE MCAuthorityLedger --------------------------
(* TLC's instances of AuthorityLedger.  One process at a time: a chain of  *)
(* three receipts with the smallest budgets that let all three be used.    *)
(* Two processes: a parent, its child, and a receipt that copies the nonce *)
(* of the parent.                                                          *)
EXTENDS AuthorityLedger, TLC

CONSTANTS root, child, grand, copy, key1, n1, n2, n3

Signed(parent, nonce, max, depth) ==
    [key |-> key1, nonce |-> nonce, max |-> max, issued |-> 1, expires |-> 3,
     parent |-> parent, depth |-> depth, maxDepth |-> 2, reach |-> {}]

\* The grandchild expires first.
ChainEnvelope ==
    (root :> Signed(None, n1, 4, 0))
        @@ (child :> Signed(root, n2, 2, 1))
        @@ (grand :> [Signed(child, n3, 1, 2) EXCEPT !.expires = 2])

PairEnvelope ==
    (root :> Signed(None, n1, 3, 0))
        @@ (child :> Signed(root, n2, 1, 1))
        @@ (copy :> Signed(None, n1, 1, 0))

\* A child that repeats the nonce of its parent.
TwinEnvelope ==
    (root :> Signed(None, n1, 2, 0)) @@ (child :> Signed(root, n1, 1, 1))

Symmetry == Permutations(Ledgers)

\* The longest books explored.  In a chain: a trusted key, two delegations,
\* three uses and one more line; between processes: a trusted key, a
\* delegation, two uses and one more line.  One receipt or key is revoked.
ChainLines == 7
PairLines == 5

Struck(b) ==
    Cardinality({r \in Receipts : b.revoked[r] # 0})
        + Cardinality({x \in Keys : b.keys[x] # None /\ b.keys[x].revoked # 0})

Short(b) ==
    /\ b.next <= (IF Cardinality(Ledgers) = 1 THEN ChainLines ELSE PairLines) + 1
    /\ Struck(b) <= 1

Bounded == Short(view) /\ \A i \in Ledgers : mem[i] # None => Short(mem[i])
=============================================================================
