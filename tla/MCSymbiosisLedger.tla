------------------------- MODULE MCSymbiosisLedger --------------------------
(* TLC's instance of SymbiosisLedger: a grant that survives restarts and    *)
(* keeps one stamp, and a grant of one session that keeps two.             *)
EXTENDS SymbiosisLedger, TLC

CONSTANTS kept, session, o1, o2, o3, m1, m3

MCPolicy ==
    (kept :> [issued |-> 1, expires |-> 3, persist |-> TRUE, stamps |-> TRUE,
              promote |-> TRUE, cap |-> 1])
        @@ (session :> [issued |-> 1, expires |-> 2, persist |-> FALSE,
                        stamps |-> FALSE, promote |-> TRUE, cap |-> 2])

MCGrantOf == (o1 :> kept) @@ (o2 :> kept) @@ (o3 :> session)
MCSourceOf == (m1 :> o1) @@ (m3 :> o3)

\* How often a memory is promoted in one book.
MaxPromotions == 3

Bounded ==
    \A b \in {view, mem} \ {None}, m \in Memories : Len(b.promotions[m]) <= MaxPromotions
=============================================================================
