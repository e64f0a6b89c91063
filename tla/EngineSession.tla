--------------------------- MODULE EngineSession ---------------------------
(***************************************************************************)
(* The external commands of one index run: Maven or Gradle for each root   *)
(* that generates sources, then the analyzer's commands (CodeQL: database  *)
(* creation, and two commands per query; Joern: parse and export).         *)
(*                                                                         *)
(* Each command is a process group of its own, run by run_with_progress:   *)
(* a reader that waits for the end of the output, and a limit, kept by a   *)
(* timer thread when the output is streamed and by communicate() when it   *)
(* is not.  The commands of a phase share one deadline.                    *)
(*                                                                         *)
(* Data abstraction.  Time is a counter that may advance between any two   *)
(* steps.  Of a command's output only its end matters; a command starts at *)
(* the instant its limit is computed.  Other descendants of a command are  *)
(* one member of its group and one process that left the group.            *)
(***************************************************************************)
EXTENDS Integers, Sequences

CONSTANTS
    Timeout,       \* analysis.engine_timeout_seconds
    Slack,         \* bound: how long after a deadline time goes on
    Engines,       \* the engines considered, of "codeql" and "joern"
    MaxRoots,      \* bound: roots that generate sources
    Escapes        \* does a descendant leave the process group with stdout:
                   \* "never", "briefly" or for as long as it likes, "forever"

ASSUME TimeoutAssumption == Timeout \in Nat \ {0} /\ Slack \in Nat
ASSUME OptionsAssumption == /\ Engines \subseteq {"codeql", "joern"}
                            /\ MaxRoots \in Nat
                            /\ Escapes \in {"never", "briefly", "forever"}

VARIABLES
    options,   \* what the run was asked for
    now,       \* the monotonic clock
    at,        \* the command that runs or comes next
    deadline,  \* of the current phase
    pc,        \* control of the thread that runs the commands
    due,       \* when the running command has used its limit
    timer,     \* the deadline timer of a streamed command
    expired,   \* the flag it sets
    child,     \* the command's process
    status,    \* how it ended
    member,    \* another process of its group
    stray,     \* does a process outside the group hold its stdout?
    cut,       \* was a process killed before the output was whole?
    raised,    \* the exception on its way out of run_with_progress
    calls,     \* has the stage received the calls?
    result     \* what became of the pass

command == <<due, timer, expired, child, status, member, stray, cut, raised>>
vars == <<options, now, at, deadline, pc, command, calls, result>>

-----------------------------------------------------------------------------
(* The commands                                                            *)

Options == [engine : Engines, roots : 0..MaxRoots, cached : BOOLEAN,
            strategy1 : BOOLEAN, progress : BOOLEAN, verbose : BOOLEAN]

Kinds == {"generate", "create", "payloads", "query", "decode", "calls", "parse",
          "export"}

Generation(o) == [i \in 1..o.roots |-> "generate"]

\* The last command of a query delivers its rows.
Query(o, last) == <<"query", last>>

\* Payload types first, for strategy1; then the calls; then the methods.
CodeQLCommands(o) ==
    (IF o.cached THEN <<>> ELSE <<"create">>)
    \o (IF o.strategy1 THEN <<"payloads", "decode">> ELSE <<>>)
    \o Query(o, "calls") \o Query(o, "decode")

\* One export answers every question of a Joern session.
JoernCommands(o) == (IF o.cached THEN <<>> ELSE <<"parse">>) \o <<"export">>

Commands(o) == Generation(o) \o IF o.engine = "codeql" THEN CodeQLCommands(o)
                                                       ELSE JoernCommands(o)

Generates(o, i) == i <= o.roots
DeliversCalls(o, i) == Commands(o)[i] \in {"calls", "export"}

\* Is the output read line by line, under a timer?  The query for payload types
\* and the decoding of rows are given no callback.
Silent == {"payloads", "decode", "calls"}

Streams(o, i) ==
    /\ o.progress
    /\ Generates(o, i) \/ (o.verbose /\ Commands(o)[i] \notin Silent)

-----------------------------------------------------------------------------
Init == /\ options \in Options
        /\ now = 0 /\ at = 1 /\ deadline = 0
        /\ pc = IF options.roots = 0 THEN "engine" ELSE "generation"
        /\ due = 0 /\ timer = "off" /\ expired = FALSE
        /\ child = "none" /\ status = "none" /\ member = "none" /\ stray = FALSE
        /\ cut = FALSE /\ raised = "none"
        /\ calls = FALSE /\ result = "none"

\* A phase begins: its commands share Timeout.
BeginPhase ==
    /\ pc \in {"generation", "engine"}
    /\ deadline' = now + Timeout
    /\ pc' = "next"
    /\ UNCHANGED <<options, now, at, command, calls, result>>

\* A deadline is fatal while sources are generated (nothing catches
\* TimeoutExpired there) and makes an engine pass a partial one.
AfterTimeout == IF Generates(options, at) THEN "aborted" ELSE "partial"

\* remaining_timeout raises.
OutOfTime ==
    /\ pc = "next" /\ now >= deadline
    /\ pc' = "end" /\ result' = AfterTimeout
    /\ UNCHANGED <<options, now, at, deadline, command, calls>>

\* Mutant: every command has the whole limit.
WholeLimit(t) == Timeout

\* remaining_timeout
Limit(t) == IF deadline - t < Timeout THEN deadline - t ELSE Timeout

\* Popen in a new session, and the timer.
Start ==
    /\ pc = "next" /\ now < deadline
    /\ due' = now + Limit(now)
    /\ timer' = IF Streams(options, at) THEN "armed" ELSE "off"
    /\ expired' = FALSE /\ cut' = FALSE /\ raised' = "none"
    /\ child' = "running" /\ status' = "none"
    /\ member' \in {"none", "quiet", "writing"}
    /\ stray' \in {FALSE, Escapes # "never"}
    /\ pc' = "reading"
    /\ UNCHANGED <<options, now, at, deadline, calls, result>>

-----------------------------------------------------------------------------
(* The processes                                                           *)

Alive == child \in {"running", "mute"}
OutputOpen == child = "running" \/ member = "writing" \/ stray

\* The command may close its output and go on.
CloseOutput ==
    /\ child = "running" /\ child' = "mute"
    /\ UNCHANGED <<options, now, at, deadline, pc, due, timer, expired, status,
                   member, stray, cut, raised, calls, result>>

Exit(s) ==
    /\ Alive /\ child' = "zombie" /\ status' = s
    /\ UNCHANGED <<options, now, at, deadline, pc, due, timer, expired, member,
                   stray, cut, raised, calls, result>>

MemberEnds ==
    /\ member # "none" /\ member' = "none"
    /\ UNCHANGED <<options, now, at, deadline, pc, due, timer, expired, child,
                   status, stray, cut, raised, calls, result>>

StrayEnds ==
    /\ stray /\ stray' = FALSE
    /\ UNCHANGED <<options, now, at, deadline, pc, due, timer, expired, child,
                   status, member, cut, raised, calls, result>>

\* The clock starts with the first phase.
Tick ==
    /\ deadline # 0 /\ now < deadline + Slack /\ now' = now + 1
    /\ UNCHANGED <<options, at, deadline, pc, command, calls, result>>

\* Mutant: only the command itself is killed.
ChildOnly(m) == m

\* What SIGKILL leaves of the rest of the group.
KilledMember(m) == "none"

\* stop(): SIGKILL to the group; a group that is gone is no error.
Kill ==
    /\ child'  = IF Alive THEN "zombie" ELSE child
    /\ status' = IF Alive THEN "killed" ELSE status
    /\ member' = KilledMember(member)
    /\ cut'    = (cut \/ Alive \/ member = "writing")

-----------------------------------------------------------------------------
(* The deadline timer                                                      *)

\* Mutant: the assignment makes a local variable of expire().
LocalFlag(e) == e

\* expire() sets the flag of the reader before it stops the group.
Flag(e) == TRUE

Fire ==
    /\ timer = "armed" /\ now >= due
    /\ timer' = "firing" /\ expired' = Flag(expired)
    /\ UNCHANGED <<options, now, at, deadline, pc, due, child, status, member,
                   stray, cut, raised, calls, result>>

TimerKill ==
    /\ timer = "firing"
    /\ timer' = "over" /\ Kill
    /\ UNCHANGED <<options, now, at, deadline, pc, due, expired, stray, raised,
                   calls, result>>

-----------------------------------------------------------------------------
(* The reader                                                              *)

Reader == <<options, now, at, deadline, due, stray, calls, result>>

\* The progress callback raises, or the user interrupts the reader.
Interrupt ==
    /\ pc \in {"reading", "waiting"} /\ raised = "none"
    /\ raised' = "interrupt"
    /\ pc' = IF Streams(options, at) THEN "cancel" ELSE "stop"
    /\ UNCHANGED <<Reader, timer, expired, child, status, member, cut>>

\* communicate() reaches the limit: the group is stopped and the rest of the
\* output read without a limit.
LimitReached ==
    /\ pc \in {"reading", "waiting"} /\ raised = "none"
    /\ ~Streams(options, at) /\ now >= due
    /\ raised' = "timeout" /\ pc' = "reading" /\ Kill
    /\ UNCHANGED <<Reader, timer, expired>>

EndOfOutput ==
    /\ pc = "reading" /\ ~OutputOpen
    /\ pc' = "waiting"
    /\ UNCHANGED <<Reader, timer, expired, child, status, member, cut, raised>>

Wait ==
    /\ pc = "waiting" /\ child = "zombie"
    /\ child' = "reaped"
    /\ pc' = IF Streams(options, at) THEN "check" ELSE "stop"
    /\ UNCHANGED <<Reader, timer, expired, status, member, cut, raised>>

CheckExpired ==
    /\ pc = "check"
    /\ raised' = IF expired THEN "timeout" ELSE raised
    /\ pc' = "cancel"
    /\ UNCHANGED <<Reader, timer, expired, child, status, member, cut>>

\* A timer that is firing is no longer cancelled.
CancelTimer ==
    /\ pc = "cancel"
    /\ timer' = IF timer = "armed" THEN "over" ELSE timer
    /\ pc' = "join"
    /\ UNCHANGED <<Reader, expired, child, status, member, cut, raised>>

\* Mutant: the timer's thread is not joined.
NotJoined(t) == TRUE

Joined(t) == t = "over"

JoinTimer ==
    /\ pc = "join" /\ Joined(timer)
    /\ pc' = "stop"
    /\ UNCHANGED <<Reader, timer, expired, child, status, member, cut, raised>>

StopGroup ==
    /\ pc = "stop"
    /\ Kill /\ pc' = "reap"
    /\ UNCHANGED <<Reader, timer, expired, raised>>

\* The command is reaped; it counts when it ended well and nothing was raised.
Reap ==
    LET ok == raised = "none" /\ status = "ok" IN
    /\ pc = "reap" /\ child \in {"zombie", "reaped"}
    /\ child' = "reaped"
    /\ at' = IF ok THEN at + 1 ELSE at
    /\ calls' = (calls \/ (ok /\ DeliversCalls(options, at)))
    /\ pc' = IF ~ok \/ at = Len(Commands(options)) THEN "end"
             ELSE IF at = options.roots THEN "engine" ELSE "next"
    /\ result' = CASE raised = "timeout"   -> AfterTimeout
                   [] raised = "interrupt" -> "aborted"
                   [] raised = "none" /\ ~ok -> "failed"
                   [] ok /\ at = Len(Commands(options)) -> "complete"
                   [] OTHER -> "none"
    /\ UNCHANGED <<options, now, deadline, due, timer, expired, status, member,
                   stray, cut, raised>>

Ended == pc = "end" /\ UNCHANGED vars

RunnerStep == \/ BeginPhase \/ OutOfTime \/ Start \/ LimitReached \/ EndOfOutput
              \/ Wait \/ CheckExpired \/ CancelTimer \/ JoinTimer \/ StopGroup
              \/ Reap
TimerStep == Fire \/ TimerKill
ProcessStep == \/ CloseOutput \/ (\E s \in {"ok", "failed"} : Exit(s))
               \/ MemberEnds \/ StrayEnds

Next == RunnerStep \/ TimerStep \/ ProcessStep \/ Interrupt \/ Tick \/ Ended

Spec == Init /\ [][Next]_vars

\* The program's threads run and time passes; no command has to end, say
\* anything or close its output.  Only a brief descendant that has left the
\* group ends by itself.
FairSpec == /\ Spec
            /\ WF_vars(RunnerStep) /\ WF_vars(TimerStep) /\ WF_vars(Tick)
            /\ WF_vars(Escapes = "briefly" /\ StrayEnds)

-----------------------------------------------------------------------------
(* Properties                                                              *)

Running == pc \notin {"generation", "engine", "next", "end"}

\* Every variable keeps its type.
TypeOK ==
    /\ options \in Options
    /\ now \in Nat /\ at \in 1..(Len(Commands(options)) + 1) /\ deadline \in Nat
    /\ pc \in {"generation", "engine", "next", "reading", "waiting", "check",
              "cancel", "join", "stop", "reap", "end"}
    /\ due \in Nat /\ timer \in {"off", "armed", "firing", "over"}
    /\ expired \in BOOLEAN
    /\ child \in {"none", "running", "mute", "zombie", "reaped"}
    /\ status \in {"none", "ok", "failed", "killed"}
    /\ member \in {"none", "quiet", "writing"}
    /\ stray \in BOOLEAN /\ cut \in BOOLEAN
    /\ raised \in {"none", "timeout", "interrupt"}
    /\ calls \in BOOLEAN
    /\ result \in {"none", "complete", "partial", "aborted", "failed"}

\* An answer of which a writer was killed is never used: the pass goes on, or
\* is complete, only after a command whose output is whole (run_with_progress).
OnlyWholeAnswers ==
    [][at' # at \/ (calls' # calls) \/ (pc' = "end" /\ result' = "complete")
       => ~cut]_vars

\* A command that the deadline stopped is a deadline, never a failure of the
\* engine, which would be fatal; and a failure is the command's own.
FailureIsItsOwn == result = "failed" => ~cut /\ status = "failed"

\* Between two commands nothing of the last one is left: its group is gone, its
\* process reaped, and no timer can still fire at a group of the same number.
NothingOutlivesItsCommand ==
    ~Running => /\ child \in {"none", "reaped"} /\ member = "none"
                /\ timer \in {"off", "over"}

\* However the time was spent before, a command's limit ends with its phase.
LimitsEndWithPhase == Running => due <= deadline

\* Whatever the commands do, the pass ends: after the deadline only a process
\* that left the command's group can still hold the reader, while it lives.
PassEnds == <>(pc = "end")

\* docs/spec-fonc/cli.md: "A timeout is a soft boundary for the index"; only
\* an interrupt aborts the pass.
TimeoutIsSoft == result = "aborted" => raised = "interrupt"

\* docs/spec-fonc/cli.md: one budget "for the complete engine pass, including
\* source generation".
OneBudget == Running => due <= Timeout
=============================================================================
