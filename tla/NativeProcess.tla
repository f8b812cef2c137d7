--------------------------- MODULE NativeProcess ----------------------------
(***************************************************************************)
(* NativeLocalProcessExecutor on POSIX, src/src/native_process.cpp: a      *)
(* child process whose output goes through a pipe into the bounded sink of *)
(* src/src/forge.cpp, and the parent that drains the pipe, polls the       *)
(* child, kills it at its wall-time or output ceiling and reaps it.        *)
(*                                                                         *)
(* The child may write, exit or hang as it likes, and leave a descendant   *)
(* behind that keeps writing into the same pipe: only the child itself is  *)
(* killed.  The kernel, the scheduler and the clock come in between any    *)
(* two calls of the parent.  Assumed: waitpid is not interrupted and the   *)
(* host does not ignore SIGCHLD; fcntl makes the pipe non-blocking.        *)
(* Output is counted in blocks.                                            *)
(***************************************************************************)
EXTENDS Naturals

CONSTANTS
    PipeSize,       \* blocks the pipe holds
    Buffer,         \* blocks one read takes at most
    MaxOutput,      \* ForgeBudget: blocks the sink keeps
    MaxWall         \* ForgeBudget: milliseconds the child may take

VARIABLES
    child,          \* the child: none, running, exited or killed (not reaped), reaped
    exitOk,         \* it exited by itself, with status 0
    doomed,         \* SIGKILL is on its way to it
    descendant,     \* a process it left behind holds the pipe
    pipe,           \* blocks in the pipe
    own,            \* history: how far into the pipe the child's own output reaches
    elapsed,        \* milliseconds since FORGE called the executor, of which run_posix
                    \* misses only the fork; those after MaxWall + 1 are not told apart
    sink,           \* ForgeOutputSink: blocks captured, and whether it is truncated
    run             \* run_posix: where it is, its two flags and what waitpid told

childVars == <<child, exitOk, doomed, descendant>>
process == <<childVars, pipe, own, elapsed, sink, run>>

ASSUME ProcessAssumption == {PipeSize, Buffer, MaxOutput, MaxWall} \subseteq Nat \ {0}

Lesser(a, b) == IF a <= b THEN a ELSE b

Minus(a, b) == IF a >= b THEN a - b ELSE 0

Runs ==
    [at : {"off", "launch", "drain", "poll", "wait", "final", "report"},
     overflow : BOOLEAN, timeout : BOOLEAN,
     told : {"nothing", "zero", "nonzero", "signal"}]

Off == [at |-> "off", overflow |-> FALSE, timeout |-> FALSE, told |-> "nothing"]

EmptySink == [captured |-> 0, truncated |-> FALSE]

InitProcess ==
    /\ child = "none"
    /\ exitOk = FALSE /\ doomed = FALSE /\ descendant = FALSE
    /\ pipe = 0 /\ own = 0 /\ elapsed = 0
    /\ sink = EmptySink
    /\ run = Off

At(step) == run.at = step

Dead == child \in {"exited", "killed"}

PipeOpen == run.at \in {"drain", "poll", "wait", "final"}

-----------------------------------------------------------------------------
(* The world around the parent.                                             *)

Tick ==
    /\ ~At("off")
    /\ elapsed <= MaxWall
    /\ elapsed' = elapsed + 1
    /\ UNCHANGED <<childVars, pipe, own, sink, run>>

ChildWrites ==
    /\ child = "running" /\ pipe < PipeSize
    /\ pipe' = pipe + 1
    /\ own' = pipe'
    /\ UNCHANGED <<childVars, elapsed, sink, run>>

DescendantWrites ==
    /\ descendant /\ PipeOpen /\ pipe < PipeSize
    /\ pipe' = pipe + 1
    /\ UNCHANGED <<childVars, own, elapsed, sink, run>>

\* It returns, or could not be executed (126, 127), or crashed.
ChildExits ==
    /\ child = "running"
    /\ child' = "exited"
    /\ exitOk' \in BOOLEAN
    /\ descendant' \in BOOLEAN
    /\ UNCHANGED <<doomed, pipe, own, elapsed, sink, run>>

ChildDies ==
    /\ child = "running" /\ doomed
    /\ child' = "killed"
    /\ descendant' \in BOOLEAN
    /\ UNCHANGED <<exitOk, doomed, pipe, own, elapsed, sink, run>>

-----------------------------------------------------------------------------
(* run_posix.                                                               *)

Goto(step) == run' = [run EXCEPT !.at = step]

Launch ==
    /\ At("launch")
    /\ child' = "running"
    /\ Goto("drain")
    /\ UNCHANGED <<exitOk, doomed, descendant, pipe, own, elapsed, sink>>

\* pipe or fork failed, or no binding fits: the report stays incomplete.
LaunchFails ==
    /\ At("launch")
    /\ Goto("report")
    /\ UNCHANGED <<childVars, pipe, own, elapsed, sink>>

\* One read of drain_posix_pipe and the write of what it returned.
Read ==
    LET count == Lesser(pipe, Buffer)
        take == Lesser(count, MaxOutput - sink.captured) IN
    /\ pipe > 0
    /\ pipe' = pipe - count
    /\ own' = Minus(own, count)
    /\ sink' = [captured |-> sink.captured + take,
                truncated |-> sink.truncated \/ take # count]

SinkFull == sink'.captured < sink.captured + Lesser(pipe, Buffer)

DrainReads ==
    /\ At("drain")
    /\ Read
    /\ IF SinkFull
       THEN /\ run' = [run EXCEPT !.at = "poll", !.overflow = TRUE]
            /\ doomed' = TRUE
       ELSE UNCHANGED <<run, doomed>>
    /\ UNCHANGED <<child, exitOk, descendant, elapsed>>

\* read would block, or every writer has closed the pipe.
DrainEnds ==
    /\ At("drain")
    /\ pipe = 0
    /\ Goto("poll")
    /\ UNCHANGED <<childVars, pipe, own, elapsed, sink>>

Told == IF child = "killed" THEN "signal" ELSE IF exitOk THEN "zero" ELSE "nonzero"

Reap(next) ==
    /\ child' = "reaped"
    /\ run' = [run EXCEPT !.at = next, !.told = Told]
    /\ UNCHANGED <<exitOk, doomed, descendant, pipe, own, elapsed, sink>>

PollReaps == At("poll") /\ Dead /\ Reap("final")

\* waitpid(WNOHANG) has nothing: look at the ceilings, or sleep and go round.
PollNoTimeout ==    \* mutated: the clock is never looked at
    /\ At("poll")
    /\ ~Dead
    /\ run' = [run EXCEPT !.at = IF run.overflow THEN "wait" ELSE "drain"]
    /\ UNCHANGED <<childVars, pipe, own, elapsed, sink>>
PollAgain ==
    LET late == ~run.overflow /\ elapsed >= MaxWall IN
    /\ At("poll")
    /\ ~Dead
    /\ run' = [run EXCEPT !.at = IF run.overflow \/ late THEN "wait" ELSE "drain",
                          !.timeout = late]
    /\ doomed' = (doomed \/ late)
    /\ UNCHANGED <<child, exitOk, descendant, pipe, own, elapsed, sink>>

\* The blocking waitpid after a kill.
WaitReaps == At("wait") /\ Dead /\ Reap("final")

\* The last drain: what was written between the last read and the death.
FinalReads ==
    /\ At("final")
    /\ Read
    /\ IF SinkFull THEN Goto("report") ELSE UNCHANGED run
    /\ UNCHANGED <<childVars, elapsed>>

FinalSkips ==    \* mutated: the pipe is closed as it is
    /\ At("final")
    /\ Goto("report")
    /\ UNCHANGED <<childVars, pipe, own, elapsed, sink>>
FinalEnds ==
    /\ At("final")
    /\ pipe = 0
    /\ Goto("report")
    /\ UNCHANGED <<childVars, pipe, own, elapsed, sink>>

Environment == ChildWrites \/ DescendantWrites \/ ChildExits

Parent ==
    \/ Launch
    \/ LaunchFails
    \/ DrainReads
    \/ DrainEnds
    \/ PollReaps
    \/ PollAgain
    \/ WaitReaps
    \/ FinalReads
    \/ FinalEnds

\* What the executor reports: whether it completed, the exit code, and a wall
\* time past the ceiling if it killed the child for its time.
Completed == run.told # "nothing"

ReportedWall == IF run.timeout THEN MaxWall + 1 ELSE elapsed
=============================================================================
