--------------------------- MODULE MCVerifiedLoop ---------------------------
(* TLC's instance of VerifiedLoop: up to three attempts, cut short by the   *)
(* attempts, the tool events or the evidence that are budgeted, and a pipe  *)
(* that is read block by block into a sink as large as the pipe.            *)
EXTENDS VerifiedLoop

MCBudgets ==
    {[attempts |-> 2, tools |-> 3, evidence |-> 3],
     [attempts |-> 3, tools |-> 1, evidence |-> 3],
     [attempts |-> 3, tools |-> 3, evidence |-> 2]}
=============================================================================
