-------------------------------- MODULE Sandbox --------------------------------
(***************************************************************************)
(* One run of an embedded script (core/adapters/sandbox.py): the child      *)
(* process, the watchdog thread that polls what it uses, and the caller     *)
(* that waits for it until a wall clock time.  Each of the three may find   *)
(* that the child has gone by the time it acts.  What the script can reach  *)
(* is not part of this.  A process id is not used again during the run.     *)
(***************************************************************************)
EXTENDS Naturals, FiniteSets

VARIABLES
    child,      \* the process: its status, whether it runs under rlimits, the caps it
                \* is over now and has been over, its output
    watchdog,   \* the thread: what it does next, and the flag it has raised
    runner,     \* the caller: what it does next, and wall_timed_out
    report      \* the SandboxResult, once there is one

sandboxVars == <<child, watchdog, runner, report>>

Caps == {"cpu", "memory"}
\* A negative return code: killed by the sandbox, by the kernel at its CPU limit, or
\* ended by a signal the sandbox has no part in (one the script raises, a crash of the
\* interpreter, the host out of memory).
Violation == {"killed", "limit", "signalled"}
Exited == {"ended", "failed"} \cup Violation

SandboxInit ==
    /\ child \in [status : {"running"}, limited : BOOLEAN, over : {{}}, exceeded : {{}},
                  printed : {FALSE}]
    /\ watchdog = [pc |-> "poll", saw |-> "none", flag |-> "none", stop |-> FALSE]
    /\ runner = [pc |-> "communicate", expired |-> FALSE]
    /\ report = {}

ChildMoves == child.status = "running" /\ UNCHANGED <<watchdog, runner, report>>

\* CPU time only grows; memory in use comes and goes.  Under RLIMIT_AS an allocation
\* fails before the memory in use is over the cap.
Exceeds(cap) ==
    /\ ChildMoves
    /\ cap = "memory" => ~child.limited
    /\ child' = [child EXCEPT !.over = @ \cup {cap}, !.exceeded = @ \cup {cap}]
FreesMemory == ChildMoves /\ child' = [child EXCEPT !.over = @ \ {"memory"}]
Prints == ChildMoves /\ child' = [child EXCEPT !.printed = TRUE]

\* A script may fail (of an allocation RLIMIT_AS refused, among other things) or be
\* ended by a signal at any time; over RLIMIT_CPU the kernel kills it, unless the
\* watchdog comes first.
Exits(status) ==
    /\ ChildMoves
    /\ status # "killed"
    /\ status = "limit" => child.limited /\ "cpu" \in child.over
    /\ child' = [child EXCEPT !.status = status]

Killed == IF child.status = "running" THEN [child EXCEPT !.status = "killed"] ELSE child

\* A process that has ended and was not waited for still tells its CPU time, and
\* has no memory; one that was waited for is unknown.
Polls ==
    /\ watchdog.pc = "poll" /\ ~watchdog.stop
    /\ LET reaped == runner.pc \in {"stop", "join", "read"}
           seen == IF child.status = "running" THEN child.over ELSE child.over \ {"memory"}
       IN  \/ reaped /\ watchdog' = [watchdog EXCEPT !.pc = "over"]
           \/ /\ ~reaped /\ "cpu" \in seen
              /\ watchdog' = [watchdog EXCEPT !.pc = "raise", !.saw = "cpu"]
           \/ /\ ~reaped /\ "cpu" \notin seen /\ "memory" \in seen
              /\ watchdog' = [watchdog EXCEPT !.pc = "raise", !.saw = "memory"]
    /\ UNCHANGED <<child, runner, report>>

NoticesStop ==
    /\ watchdog.pc = "poll" /\ watchdog.stop
    /\ watchdog' = [watchdog EXCEPT !.pc = "over"]
    /\ UNCHANGED <<child, runner, report>>

RaisesFlag ==
    /\ watchdog.pc = "raise"
    /\ watchdog' = [watchdog EXCEPT !.pc = "kill", !.flag = watchdog.saw]
    /\ UNCHANGED <<child, runner, report>>

KillsOffender ==
    /\ watchdog.pc = "kill"
    /\ child' = Killed
    /\ watchdog' = [watchdog EXCEPT !.pc = "over"]
    /\ UNCHANGED <<runner, report>>

\* communicate returns once the child has gone, and has waited for it.
ChildIsDone ==
    /\ runner.pc \in {"communicate", "wait"} /\ child.status \in Exited
    /\ runner' = [runner EXCEPT !.pc = "stop"]
    /\ UNCHANGED <<child, watchdog, report>>

\* TimeoutExpired, then kill, then communicate again.
WallClockExpires ==
    /\ runner.pc = "communicate"
    /\ runner' = [pc |-> "wait", expired |-> TRUE]
    /\ child' = Killed
    /\ UNCHANGED <<watchdog, report>>

StopsWatchdog ==
    /\ runner.pc = "stop"
    /\ watchdog' = [watchdog EXCEPT !.stop = TRUE]
    /\ runner' = [runner EXCEPT !.pc = "join"]
    /\ UNCHANGED <<child, report>>

\* join gives up after a second: the thread may still be under way.
JoinReturns ==
    /\ runner.pc = "join"
    /\ runner' = [runner EXCEPT !.pc = "read"]
    /\ UNCHANGED <<child, watchdog, report>>

\* Mutant: the output of a script over its memory is read.
ForcedOnTimeout == runner.expired \/ watchdog.flag = "cpu"

ForcedKill == runner.expired \/ watchdog.flag \in Caps

\* _parse_output: what the last line of the output holds.
ParsedOutput == ~ForcedKill /\ child.printed

Reports ==
    /\ runner.pc = "read" /\ report = {}
    /\ report' = {[timed_out |-> runner.expired \/ watchdog.flag = "cpu",
                   exit |-> IF ForcedKill THEN "killed" ELSE child.status,
                   output |-> ParsedOutput]}
    /\ UNCHANGED <<child, watchdog, runner>>

SandboxNext ==
    \/ \E cap \in Caps : Exceeds(cap)
    \/ FreesMemory \/ Prints
    \/ \E status \in Exited : Exits(status)
    \/ Polls \/ NoticesStop \/ RaisesFlag \/ KillsOffender
    \/ ChildIsDone \/ WallClockExpires \/ StopsWatchdog \/ JoinReturns \/ Reports

SandboxSpec == SandboxInit /\ [][SandboxNext]_sandboxVars

SandboxTypeOK ==
    /\ child \in [status : {"running"} \cup Exited, limited : BOOLEAN, over : SUBSET Caps,
                  exceeded : SUBSET Caps, printed : BOOLEAN]
    /\ watchdog \in [pc : {"poll", "raise", "kill", "over"}, saw : Caps \cup {"none"},
                     flag : Caps \cup {"none"}, stop : BOOLEAN]
    /\ runner \in [pc : {"communicate", "wait", "stop", "join", "read"}, expired : BOOLEAN]
    /\ report \subseteq [timed_out : BOOLEAN, exit : Exited, output : BOOLEAN]
    /\ Cardinality(report) <= 1

\* What the caller is told of its script is true: an exit code of its own is the one
\* it ended with, an output is not that of a script the sandbox cut off, a script the
\* sandbox killed is told as out of time or was over its memory, out of time was so,
\* and a violation is of a script that was over a cap or the wall clock or that a
\* signal ended (the three exit paths of _run_script and the watchdog's flags).
SandboxTellsTruth ==
    \A r \in report :
        /\ r.exit \notin Violation => child.status = r.exit
        /\ r.output => child.status # "killed"
        /\ child.status = "killed" => /\ r.exit = "killed"
                                      /\ r.timed_out \/ "memory" \in child.exceeded
        /\ r.timed_out => runner.expired \/ "cpu" \in child.exceeded
        /\ r.exit \in Violation =>
              runner.expired \/ child.exceeded # {} \/ child.status = "signalled"
================================================================================
