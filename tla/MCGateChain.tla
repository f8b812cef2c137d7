---------------------------- MODULE MCGateChain -----------------------------
(* TLC's instance of GateChain: a root receipt, two branches that want the *)
(* same ephemeral key, and two leases under the first, one of which expires *)
(* before its branch.                                                      *)
EXTENDS GateChain, TLC

CONSTANTS root, v1, v2, s1, s2, k1, l1, l2, here, there

ChainMax == (root :> 5) @@ (v1 :> 2) @@ (v2 :> 1)
ChainParent == (root :> None) @@ (v1 :> root) @@ (v2 :> root)

ChainExpires == (root :> 4) @@ (v1 :> 3) @@ (v2 :> 3)
ChainVouchers == (s1 :> v1) @@ (s2 :> v2)
ChainKeys == (s1 :> k1) @@ (s2 :> k1)

ChainLease ==
    (l1 :> [branch |-> s1, runtime |-> here, max |-> 2, expires |-> 3])
        @@ (l2 :> [branch |-> s1, runtime |-> here, max |-> 1, expires |-> 2])

\* The longest journals explored: a branch, two uses, a revocation and two lines
\* more; two leases, two uses, a revocation and one line more.
Lines == 6

Short(b) == b.next <= Lines + 1

Bounded ==
    /\ \A f \in {keyFile, leaseFile} : Short(f.view)
    /\ \A m \in {keyMem, leaseMem} : m # None => Short(m)
    /\ Cardinality(struck) <= 1
=============================================================================
