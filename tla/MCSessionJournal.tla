-------------------------- MODULE MCSessionJournal --------------------------
(* TLC's instance of SessionJournal: two processes that do not coordinate. *)
EXTENDS SessionJournal, TLC

CONSTANTS s1, s2, s3, k1, k2, c1, c2

\* The names of sessions, correlations and processes are interchangeable.
Symmetry ==
    Permutations(Sessions) \cup Permutations(Correlations) \cup Permutations(Clients)
=============================================================================
