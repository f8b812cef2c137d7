---------------------------- MODULE JournalFile -----------------------------
(***************************************************************************)
(* An append-only journal of hash-chained lines, as every ledger of        *)
(* src/src keeps one.  Replay folds over the lines and stops at the first  *)
(* that does not fit, so the file is kept as what a replay would make of   *)
(* it (a book with a field `healthy'): once without and once with a tail   *)
(* that no newline ends.  SHA-256 is taken as collision free and nobody    *)
(* edits the file: a line whose number fits carries the right hashes.      *)
(***************************************************************************)
CONSTANT Faults     \* what a failed append may leave in the file

\* "lost": no byte arrived; "torn": some did; "whole": all but the newline.
ASSUME FaultAssumption == Faults \subseteq {"lost", "torn", "whole"}

Files(Books) == [disk : Books, view : Books, clean : BOOLEAN]

EmptyFile(b) == [disk |-> b, view |-> b, clean |-> TRUE]

\* A line that does not fit ends the replay; what was read before it stands.
Spoil(b) == [b EXCEPT !.healthy = FALSE]

\* The file after a line and its newline were flushed; `book' is what the
\* line makes of f.disk.  After a tail without a newline it completes a
\* malformed line.
Appended(f, book) ==
    LET whole == IF f.clean THEN book ELSE Spoil(f.disk) IN
    [disk |-> whole, view |-> whole, clean |-> TRUE]

\* What a failed append may leave.
Damaged(f, book) ==
    (IF "lost" \in Faults THEN {f} ELSE {})
        \cup (IF "torn" \in Faults
              THEN {[f EXCEPT !.view = Spoil(f.disk), !.clean = FALSE]} ELSE {})
        \cup (IF "whole" \in Faults
              THEN {[f EXCEPT !.view = IF f.clean THEN book ELSE Spoil(f.disk),
                              !.clean = FALSE]} ELSE {})
=============================================================================
