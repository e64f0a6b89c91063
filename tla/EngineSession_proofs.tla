------------------------ MODULE EngineSession_proofs ------------------------
(***************************************************************************)
(* For every limit, engine and number of generation roots: a deadline is   *)
(* never taken for a failure nor a cut answer for a whole one, and nothing *)
(* of a command is left when the next one starts.                          *)
(***************************************************************************)
EXTENDS EngineSession, SequenceTheorems, TLAPS

\* Where the thread is tells what is left of the command's processes.
Processes ==
    /\ ~Running => /\ child \in {"none", "reaped"} /\ member = "none"
                   /\ timer \in {"off", "over"}
    /\ Running => child # "none"
    /\ pc = "waiting" => child # "running" /\ member # "writing"
    /\ pc \in {"check", "cancel", "join", "stop", "reap"} /\ raised = "none"
          => child = "reaped" /\ member # "writing"
    /\ pc = "reap" => ~Alive /\ member = "none"
    /\ child \in {"zombie", "reaped"} => status # "none"

\* A kill that cut the output is known to the reader in time.
Knowledge ==
    /\ status = "killed" => cut
    /\ cut /\ Running =>
          raised # "none" \/ (expired /\ pc \in {"reading", "waiting", "check"})
    /\ timer = "firing" => expired
    /\ expired => timer # "off"
    /\ Running => (Streams(options, at) <=> timer # "off")
    /\ pc \in {"stop", "reap"} => timer \in {"off", "over"}
    /\ pc \in {"reading", "waiting"} /\ timer # "off" => raised = "none"
    /\ pc = "check" => raised = "none"

\* How far the pass is.
Progress ==
    /\ pc # "end" => result = "none" /\ at <= Len(Commands(options))
    /\ result = "complete" => ~cut
    /\ LimitsEndWithPhase

IInv == TypeOK /\ Processes /\ Knowledge /\ Progress /\ FailureIsItsOwn

-----------------------------------------------------------------------------
\* A pass has a command.
LEMMA SomeCommand ==
  ASSUME NEW o \in Options
  PROVE  Len(Commands(o)) \in Nat \ {0}
<1> DEFINE S == Kinds
<1>1. Generation(o) \in Seq(S) /\ Len(Generation(o)) \in Nat
  <2>1. o.roots \in Nat
    BY OptionsAssumption DEF Options
  <2> QED BY <2>1 DEF Generation, Kinds
<1>2. JoernCommands(o) \in Seq(S) /\ Len(JoernCommands(o)) \in Nat \ {0}
  <2>1. CASE o.cached
    BY <2>1 DEF JoernCommands, Kinds
  <2>2. CASE ~o.cached
    BY <2>2 DEF JoernCommands, Kinds
  <2> QED BY <2>1, <2>2
<1>3. CodeQLCommands(o) \in Seq(S) /\ Len(CodeQLCommands(o)) \in Nat \ {0}
  <2> DEFINE a == IF o.cached THEN <<>> ELSE <<"create">>
             b == IF o.strategy1 THEN <<"payloads", "decode">> ELSE <<>>
             c == Query(o, "calls")
             d == Query(o, "decode")
  <2>1. a \in Seq(S) /\ Len(a) \in Nat
    <3>1. CASE o.cached
      BY <3>1
    <3>2. CASE ~o.cached
      BY <3>2 DEF Kinds
    <3> QED BY <3>1, <3>2
  <2>2. b \in Seq(S) /\ Len(b) \in Nat
    <3>1. CASE ~o.strategy1
      BY <3>1
    <3>2. CASE o.strategy1
      BY <3>2 DEF Kinds
    <3> QED BY <3>1, <3>2
  <2>3. c \in Seq(S) /\ d \in Seq(S) /\ Len(c) = 2 /\ Len(d) = 2
    BY DEF Kinds, Query
  <2> HIDE DEF a, b, c, d
  <2>4. a \o b \in Seq(S) /\ Len(a \o b) = Len(a) + Len(b)
    BY <2>1, <2>2, ConcatProperties
  <2>5. (a \o b) \o c \in Seq(S) /\ Len((a \o b) \o c) = Len(a \o b) + Len(c)
    BY <2>3, <2>4, ConcatProperties
  <2>6. ((a \o b) \o c) \o d \in Seq(S)
        /\ Len(((a \o b) \o c) \o d) = Len((a \o b) \o c) + Len(d)
    BY <2>3, <2>5, ConcatProperties
  <2>7. CodeQLCommands(o) = ((a \o b) \o c) \o d
    BY DEF CodeQLCommands, a, b, c, d
  <2> QED BY <2>1, <2>2, <2>3, <2>4, <2>5, <2>6, <2>7
<1> DEFINE rest == IF o.engine = "codeql" THEN CodeQLCommands(o)
                                         ELSE JoernCommands(o)
<1>4. rest \in Seq(S) /\ Len(rest) \in Nat \ {0}
  BY <1>2, <1>3
<1> HIDE DEF rest
<1>5. Len(Generation(o) \o rest) = Len(Generation(o)) + Len(rest)
  BY <1>1, <1>4, ConcatProperties
<1>6. Commands(o) = Generation(o) \o rest
  BY DEF Commands, rest
<1> QED BY <1>1, <1>4, <1>5, <1>6

\* No command has run at first.
LEMMA InitHolds == Init => IInv
<1> SUFFICES ASSUME Init PROVE IInv
  OBVIOUS
<1>1. Len(Commands(options)) \in Nat \ {0}
  BY SomeCommand DEF Init
<1>2. pc \in {"engine", "generation"}
  BY DEF Init
<1>b. expired \in BOOLEAN /\ stray \in BOOLEAN /\ cut \in BOOLEAN
      /\ calls \in BOOLEAN
  BY DEF Init
<1>c. at \in 1..(Len(Commands(options)) + 1)
  BY <1>1 DEF Init
<1>3. TypeOK
  BY <1>2, <1>b, <1>c DEF Init, TypeOK
<1>4. Processes /\ Knowledge
  BY <1>2 DEF Init, Processes, Knowledge, Running, Alive
<1>5. Progress /\ FailureIsItsOwn
  BY <1>1, <1>2 DEF Init, Progress, FailureIsItsOwn, LimitsEndWithPhase, Running
<1> QED BY <1>3, <1>4, <1>5 DEF IInv

\* What a kill leaves.
LEMMA KillFacts ==
  ASSUME Kill
  PROVE  /\ child'  = IF Alive THEN "zombie" ELSE child
         /\ status' = IF Alive THEN "killed" ELSE status
         /\ member' = "none"
         /\ cut' \in BOOLEAN /\ (cut' <=> cut \/ Alive \/ member = "writing")
  BY DEF Kill, KilledMember

-----------------------------------------------------------------------------
\* The thread that runs the commands: phases, limits and starts.
LEMMA PhaseSteps ==
  ASSUME IInv, BeginPhase \/ OutOfTime \/ Start \/ Tick \/ Ended
  PROVE  IInv'
<1>0. Len(Commands(options)) \in Nat \ {0} /\ Timeout \in Nat \ {0}
  BY SomeCommand, TimeoutAssumption DEF IInv, TypeOK
<1>1. CASE BeginPhase
  BY <1>0, <1>1, SMT
  DEF BeginPhase, command, IInv, TypeOK, Processes, Knowledge, Progress,
      FailureIsItsOwn, LimitsEndWithPhase, Running, Alive, Streams
<1>2. CASE OutOfTime
  BY <1>0, <1>2, SMT
  DEF OutOfTime, AfterTimeout, command, IInv, TypeOK, Processes, Knowledge,
      Progress, FailureIsItsOwn, LimitsEndWithPhase, Running, Alive, Streams
<1>3. CASE Start
  <2>1. Limit(now) \in Nat \ {0} /\ now + Limit(now) <= deadline
    BY <1>0, <1>3 DEF Start, Limit, IInv, TypeOK
  <2>2. options' = options /\ at' = at
    BY <1>3 DEF Start
  <2>3. Streams(options, at)' = Streams(options, at)
    BY <2>2 DEF Streams
  <2>a. stray' \in BOOLEAN
    BY <1>3, OptionsAssumption DEF Start
  <2>b. expired' \in BOOLEAN /\ cut' \in BOOLEAN
    BY <1>3 DEF Start
  <2>c. due' \in Nat
    BY <1>3, <2>1 DEF Start, IInv, TypeOK
  <2>d. timer' \in {"off", "armed"}
    BY <1>3 DEF Start
  <2>4. TypeOK'
    BY <1>3, <2>2, <2>a, <2>b, <2>c, <2>d DEF Start, IInv, TypeOK
  <2>5. Processes' /\ Knowledge'
    BY <1>3, <2>3, SMT DEF Start, Processes, Knowledge, Running, Alive
  <2>6. Progress' /\ FailureIsItsOwn'
    BY <1>3, <2>1, SMT DEF Start, IInv, Progress, FailureIsItsOwn,
       LimitsEndWithPhase, Running
  <2> QED BY <2>4, <2>5, <2>6 DEF IInv
<1>4. CASE Tick
  BY <1>0, <1>4, SMT
  DEF Tick, command, IInv, TypeOK, Processes, Knowledge, Progress,
      FailureIsItsOwn, LimitsEndWithPhase, Running, Alive, Streams
<1>5. CASE Ended
  BY <1>5
  DEF Ended, vars, command, IInv, TypeOK, Processes, Knowledge, Progress,
      FailureIsItsOwn, LimitsEndWithPhase, Running, Alive, Streams
<1> QED BY <1>1, <1>2, <1>3, <1>4, <1>5

\* The processes of a command, which only end or fall silent.
LEMMA ProcessSteps ==
  ASSUME IInv, ProcessStep
  PROVE  IInv'
<1>1. Streams(options, at)' = Streams(options, at)
  BY DEF ProcessStep, CloseOutput, Exit, MemberEnds, StrayEnds, Streams
<1>2. CASE CloseOutput
  BY <1>1, <1>2, SMT
  DEF CloseOutput, IInv, TypeOK, Processes, Knowledge, Progress,
      FailureIsItsOwn, LimitsEndWithPhase, Running, Alive
<1>3. ASSUME NEW s \in {"ok", "failed"}, Exit(s)
      PROVE  IInv'
  BY <1>1, <1>3, SMT
  DEF Exit, IInv, TypeOK, Processes, Knowledge, Progress,
      FailureIsItsOwn, LimitsEndWithPhase, Running, Alive
<1>4. CASE MemberEnds
  BY <1>1, <1>4, SMT
  DEF MemberEnds, IInv, TypeOK, Processes, Knowledge, Progress,
      FailureIsItsOwn, LimitsEndWithPhase, Running, Alive
<1>5. CASE StrayEnds
  <2>1. stray' \in BOOLEAN
    BY <1>5 DEF StrayEnds
  <2>2. UNCHANGED <<options, now, at, deadline, pc, due, timer, expired, child,
                    status, member, cut, raised, calls, result>>
    BY <1>5 DEF StrayEnds
  <2> QED
    BY <1>1, <2>1, <2>2, SMT
    DEF IInv, TypeOK, Processes, Knowledge, Progress,
        FailureIsItsOwn, LimitsEndWithPhase, Running, Alive
<1> QED BY <1>2, <1>3, <1>4, <1>5 DEF ProcessStep

\* The timer's thread: the flag is set before the kill.
LEMMA TimerSteps ==
  ASSUME IInv, TimerStep
  PROVE  IInv'
<1>1. Streams(options, at)' = Streams(options, at)
  BY DEF TimerStep, Fire, TimerKill, Streams
<1>2. CASE Fire
  BY <1>1, <1>2, SMT
  DEF Fire, Flag, IInv, TypeOK, Processes, Knowledge, Progress,
      FailureIsItsOwn, LimitsEndWithPhase, Running, Alive
<1>3. CASE TimerKill
  <2>1. Kill
    BY <1>3 DEF TimerKill
  <2> QED
    BY <1>1, <1>3, <2>1, KillFacts, SMT
    DEF TimerKill, IInv, TypeOK, Processes, Knowledge,
      Progress, FailureIsItsOwn, LimitsEndWithPhase, Running, Alive
<1> QED BY <1>2, <1>3 DEF TimerStep

\* The reader, up to the end of the group.
LEMMA ReaderSteps ==
  ASSUME IInv,
         \/ Interrupt \/ LimitReached \/ EndOfOutput \/ Wait
         \/ CheckExpired \/ CancelTimer \/ JoinTimer \/ StopGroup
  PROVE  IInv'
<1>1. Streams(options, at)' = Streams(options, at)
  BY DEF Interrupt, LimitReached, EndOfOutput, Wait, CheckExpired, CancelTimer,
         JoinTimer, StopGroup, Reader, Streams
<1>2. CASE Interrupt
  BY <1>1, <1>2, SMT
  DEF Interrupt, Reader, IInv, TypeOK, Processes, Knowledge, Progress,
      FailureIsItsOwn, LimitsEndWithPhase, Running, Alive
<1>3. CASE LimitReached
  <2>1. Kill
    BY <1>3 DEF LimitReached
  <2> QED
    BY <1>1, <1>3, <2>1, KillFacts, SMT
    DEF LimitReached, Reader, IInv, TypeOK, Processes,
      Knowledge, Progress, FailureIsItsOwn, LimitsEndWithPhase, Running, Alive
<1>4. CASE EndOfOutput
  BY <1>1, <1>4, SMT
  DEF EndOfOutput, OutputOpen, Reader, IInv, TypeOK, Processes, Knowledge,
      Progress, FailureIsItsOwn, LimitsEndWithPhase, Running, Alive
<1>5. CASE Wait
  BY <1>1, <1>5, SMT
  DEF Wait, Reader, IInv, TypeOK, Processes, Knowledge, Progress,
      FailureIsItsOwn, LimitsEndWithPhase, Running, Alive
<1>6. CASE CheckExpired
  BY <1>1, <1>6, SMT
  DEF CheckExpired, Reader, IInv, TypeOK, Processes, Knowledge, Progress,
      FailureIsItsOwn, LimitsEndWithPhase, Running, Alive
<1>7. CASE CancelTimer
  BY <1>1, <1>7, SMT
  DEF CancelTimer, Reader, IInv, TypeOK, Processes, Knowledge, Progress,
      FailureIsItsOwn, LimitsEndWithPhase, Running, Alive
<1>8. CASE JoinTimer
  BY <1>1, <1>8, SMT
  DEF JoinTimer, Joined, Reader, IInv, TypeOK, Processes, Knowledge, Progress,
      FailureIsItsOwn, LimitsEndWithPhase, Running, Alive
<1>9. CASE StopGroup
  <2>1. Kill
    BY <1>9 DEF StopGroup
  <2> QED
    BY <1>1, <1>9, <2>1, KillFacts, SMT
    DEF StopGroup, Reader, IInv, TypeOK, Processes, Knowledge,
      Progress, FailureIsItsOwn, LimitsEndWithPhase, Running, Alive
<1> QED BY <1>2, <1>3, <1>4, <1>5, <1>6, <1>7, <1>8, <1>9

\* A command counts only when it was not cut.
LEMMA ReapStep ==
  ASSUME IInv, Reap
  PROVE  IInv'
<1> DEFINE ok == raised = "none" /\ status = "ok"
           n  == Len(Commands(options))
<1>0. n \in Nat \ {0}
  BY SomeCommand DEF IInv, TypeOK
<1>1. ok => ~cut
  BY DEF IInv, Knowledge, Reap, Running
<1>2. raised = "none" /\ ~ok => ~cut /\ status = "failed"
  BY DEF IInv, TypeOK, Processes, Knowledge, Reap, Running
<1>3. /\ options' = options /\ at' = (IF ok THEN at + 1 ELSE at)
      /\ at \in 1..n
  BY <1>0 DEF Reap, IInv, TypeOK, Progress
<1>4. result' \in {"none", "complete", "partial", "aborted", "failed"}
      /\ (result' = "none" => ok /\ at # n)
      /\ (result' = "complete" => ok)
      /\ (result' = "failed" => raised = "none" /\ ~ok)
      /\ (pc' = "end" \/ result' = "none")
  BY DEF Reap, IInv, TypeOK, AfterTimeout
<1>5. n' = n
  BY <1>3
<1> HIDE DEF n, ok
<1>6. TypeOK'
  <2>1. calls' \in BOOLEAN /\ child' = "reaped"
    BY DEF Reap, IInv, TypeOK
  <2>2. pc' \in {"end", "engine", "next"}
    BY DEF Reap
  <2>3. at' \in 1..(n' + 1)
    BY <1>0, <1>3, <1>5
  <2> QED BY <1>3, <1>4, <2>1, <2>2, <2>3 DEF Reap, IInv, TypeOK, n
<1>7. pc' \in {"end", "engine", "next"}
  BY DEF Reap
<1>8. Processes' /\ Knowledge'
  BY <1>7, SMT DEF Reap, IInv, Processes, Knowledge, Running, Alive
<1>9. Progress' /\ FailureIsItsOwn'
  <2>1. pc' # "end" => at' <= n'
    BY <1>0, <1>3, <1>5, SMT DEF Reap, n, ok
  <2> QED BY <1>1, <1>2, <1>4, <1>7, <2>1
      DEF Reap, IInv, Progress, FailureIsItsOwn, LimitsEndWithPhase, Running, n
<1> QED BY <1>6, <1>8, <1>9 DEF IInv

LEMMA NextHolds == IInv /\ [Next]_vars => IInv'
<1>1. IInv /\ Next => IInv'
  BY PhaseSteps, ProcessSteps, TimerSteps, ReaderSteps, ReapStep
  DEF Next, RunnerStep
<1>2. IInv /\ UNCHANGED vars => IInv'
  BY DEF vars, command, IInv, TypeOK, Processes, Knowledge, Progress,
      FailureIsItsOwn, LimitsEndWithPhase, Running, Alive, Streams
<1> QED BY <1>1, <1>2

LEMMA Invariance == Spec => []IInv
  BY InitHolds, NextHolds, PTL DEF Spec

-----------------------------------------------------------------------------
\* Types, for every limit and every number of roots.
THEOREM TypeCorrect == Spec => []TypeOK
<1>1. IInv => TypeOK
  BY DEF IInv
<1> QED BY <1>1, Invariance, PTL

\* A command that the deadline stopped is never taken for a failed engine,
\* whatever the timer's thread and the reader do in between.
THEOREM DeadlineIsNoFailure == Spec => []FailureIsItsOwn
<1>1. IInv => FailureIsItsOwn
  BY DEF IInv
<1> QED BY <1>1, Invariance, PTL

\* When run_with_progress returns, the whole group and the timer are gone.
THEOREM NothingIsLeft == Spec => []NothingOutlivesItsCommand
<1>1. IInv => NothingOutlivesItsCommand
  BY DEF IInv, Processes, NothingOutlivesItsCommand
<1> QED BY <1>1, Invariance, PTL

\* The commands of a phase share its deadline.
THEOREM LimitsAreShared == Spec => []LimitsEndWithPhase
<1>1. IInv => LimitsEndWithPhase
  BY DEF IInv, Progress
<1> QED BY <1>1, Invariance, PTL

\* The answer of a command of which a writer was killed is never used.
THEOREM WholeAnswers == Spec => OnlyWholeAnswers
<1>1. IInv /\ [Next]_vars =>
        [at' # at \/ (calls' # calls) \/ (pc' = "end" /\ result' = "complete")
           => ~cut]_vars
  <2> SUFFICES ASSUME IInv, [Next]_vars, ~UNCHANGED vars,
                      \/ at' # at \/ calls' # calls
                      \/ pc' = "end" /\ result' = "complete"
               PROVE  ~cut
    OBVIOUS
  <2>1. CASE result' = result /\ at' = at /\ calls' = calls
    BY <2>1 DEF IInv, Progress
  <2>2. CASE Reap
    <3>1. raised = "none" /\ status = "ok"
      BY <2>2 DEF Reap, AfterTimeout, IInv, TypeOK
    <3> QED BY <2>2, <3>1 DEF Reap, IInv, Knowledge, Running
  <2>3. CASE OutOfTime
    BY <2>3 DEF OutOfTime, AfterTimeout
  <2>4. Next /\ ~Reap /\ ~OutOfTime =>
          result' = result /\ at' = at /\ calls' = calls
    BY DEF Next, RunnerStep, TimerStep, ProcessStep, BeginPhase, Start,
       LimitReached, EndOfOutput, Wait, CheckExpired, CancelTimer, JoinTimer,
       StopGroup, Fire, TimerKill, CloseOutput, Exit, MemberEnds, StrayEnds,
       Interrupt, Tick, Ended, vars, Reader
  <2> QED BY <2>1, <2>2, <2>3, <2>4
<1>2. IInv /\ [Next]_vars /\ IInv' =>
        [at' # at \/ (calls' # calls) \/ (pc' = "end" /\ result' = "complete")
           => ~cut]_vars
  BY <1>1
<1> QED BY <1>2, Invariance, PTL DEF Spec, OnlyWholeAnswers
=============================================================================
