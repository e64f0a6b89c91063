------------------------- MODULE EngineCache_proofs -------------------------
(***************************************************************************)
(* The analyzer cache is sound when only index runs use it, for every      *)
(* number of them, of source contents, of edits and of troubles: the       *)
(* store's write lock, which an index run holds until its session closes,  *)
(* makes the file operations of two runs exclude each other.               *)
(***************************************************************************)
EXTENDS EngineCache, TLAPS

\* A process that runs holds the lock.
Alone(r) == ~At(r, "idle") => lock = r

\* While the cache is replaced there is no stamp, and what is in the cache
\* and in the temporary directory follows the order of the operations.
Replacing(r) ==
    LET s == run[r] IN
    /\ s.pc \in {"unstamped", "removing", "clear", "copying", "copied", "moved"}
          => stamp = None
    /\ s.pc \in {"built", "unstamped", "removing", "clear", "copying", "copied"}
          => s.temporary = Whole(s.fingerprint)
    /\ s.pc \in {"removing", "clear", "copied"} => engine = "codeql"
    /\ s.pc = "clear" => cached = NoDatabase
    /\ s.pc = "copying" => cached = Part(s.fingerprint)
    /\ s.pc \in {"copied", "moved"} => cached = Whole(s.fingerprint)
    /\ s.pc = "moved" =>
          s.temporary = IF engine = "codeql" THEN NoDatabase
                                             ELSE Whole(s.fingerprint)

\* A session has a whole database of its projection.
Serving(r) ==
    LET s == run[r] IN
    /\ s.pc # "idle" => s.fingerprint \in Sources
    /\ s.pc = "open" => Opened(s) = Whole(s.fingerprint)
    /\ s.answer \in {None, s.fingerprint}

IInv == /\ TypeOK /\ StampVouches
        /\ \A r \in Runs : Alone(r) /\ Replacing(r) /\ Serving(r)

-----------------------------------------------------------------------------
\* Nothing is cached and nobody runs at first.
LEMMA InitHolds == Init => IInv
  BY NamesAssumption, OptionsAssumption, BoundsAssumption, SMT
  DEF Init, IInv, TypeOK, StampVouches, Alone, Replacing, Serving, At, IdleRun,
      Runs, Database, NoDatabase, RunState, Phases

\* A step of r that keeps the types only has to keep r's own part: whoever
\* steps holds the lock, so all others are idle before and after.
LEMMA OthersIdle ==
  ASSUME Comparers = {}, IInv, NEW r \in Runs, Step(r), TypeOK',
         StampVouches', \A q \in Runs \ {r} : run'[q] = run[q],
         Alone(r)', Replacing(r)', Serving(r)'
  PROVE  IInv'
<1>2. \A q \in Runs \ {r} : run[q].pc = "idle"
  <2>1. lock \in {r, NoRun}
    <3>1. ~At(r, "idle") => lock = r
      BY DEF IInv, Alone
    <3>2. At(r, "idle") => lock = NoRun
      <4>1. r \in Indexers
        BY DEF Runs
      <4> QED BY <4>1 DEF Step, Project, Reuse, Miss, Create, RemoveStamp,
                          StartRemoval, EndRemoval, Move, StartCopy, EndCopy,
                          Cleanup, WriteStamp, KeepWhereItIs, Query, Close, Stop, At
    <3> QED BY <3>1, <3>2
  <2> QED BY <2>1, NamesAssumption DEF IInv, Alone, At, Runs
<1>3. ASSUME NEW q \in Runs, q # r PROVE Alone(q)' /\ Replacing(q)' /\ Serving(q)'
  <2>1. run'[q] = run[q] /\ run[q].pc = "idle"
    BY <1>2, <1>3
  <2>2. Serving(q)
    BY DEF IInv
  <2> QED BY <2>1, <2>2 DEF Alone, Replacing, Serving, At
<1> QED BY <1>3 DEF IInv

\* What the actions put into the cache and into a process's state has its type.
LEMMA DatabaseTypes ==
  /\ NoDatabase \in Database
  /\ \A f \in Sources : Whole(f) \in Database /\ Part(f) \in Database
  /\ \A db \in Database : Remains(db) \in Database
  BY DEF Database, NoDatabase, Whole, Part, Remains

\* Changing the place, the database or the path of a process keeps its type.
LEMMA RunStateTypes ==
  ASSUME NEW s \in RunState, NEW pc \in Phases
  PROVE  /\ [s EXCEPT !.pc = pc] \in RunState
         /\ \A db \in Database : [s EXCEPT !.pc = pc, !.temporary = db] \in RunState
         /\ \A a \in {"cache", "temporary"} :
               /\ [s EXCEPT !.pc = pc, !.at = a] \in RunState
               /\ \A db \in Database :
                     [s EXCEPT !.pc = pc, !.at = a, !.temporary = db] \in RunState
  BY DEF RunState

\* So does starting a command from nothing.
LEMMA IdleRunType ==
  /\ IdleRun \in RunState
  /\ \A f \in Sources :
        [IdleRun EXCEPT !.pc = "lookup", !.fingerprint = f] \in RunState
  BY DatabaseTypes DEF RunState, IdleRun, Phases

\* Every step of r changes r's state only, to another state of its type.
LEMMA RunTypeKept ==
  ASSUME IInv, NEW r \in Runs, Step(r)
  PROVE  /\ run' \in [Runs -> RunState]
         /\ \A q \in Runs \ {r} : run'[q] = run[q]
<1>1. TypeOK /\ Serving(r)
  BY DEF IInv
<1>2. run \in [Runs -> RunState] /\ run[r] \in RunState /\ sources \in Sources
  BY <1>1 DEF TypeOK
<1>3. ~At(r, "idle") => run[r].fingerprint \in Sources
  BY <1>1 DEF Serving, At
<1>4. run[r].temporary \in Database /\ NoDatabase \in Database
  BY <1>2, DatabaseTypes DEF RunState
<1>5. {"idle", "lookup", "create", "built", "unstamped", "removing", "clear",
       "copying", "copied", "moved", "open"} \subseteq Phases
  BY DEF Phases
<1> SUFFICES \E s \in RunState : Goto(r, s)
  BY <1>2 DEF Goto
<1>6. CASE Project(r)
  BY <1>2, <1>4, <1>5, <1>6, IdleRunType DEF Project
<1>7. CASE Reuse(r)
  BY <1>2, <1>4, <1>5, <1>7, RunStateTypes DEF Reuse
<1>8. CASE Miss(r)
  BY <1>2, <1>4, <1>5, <1>8, RunStateTypes DEF Miss
<1>9. CASE Create(r)
  <2>1. Whole(run[r].fingerprint) \in Database
    BY <1>9, <1>3, DatabaseTypes DEF Create, At
  <2> QED BY <1>2, <1>5, <1>9, <2>1, RunStateTypes DEF Create
<1>10. CASE RemoveStamp(r)
  BY <1>2, <1>4, <1>5, <1>10, RunStateTypes DEF RemoveStamp
<1>11. CASE StartRemoval(r)
  <2>1. [run[r] EXCEPT !.pc = IF cached.of = None THEN "clear" ELSE "removing"] \in RunState
    BY <1>2, <1>5, RunStateTypes
  <2> QED BY <1>11, <2>1 DEF StartRemoval
<1>12. CASE EndRemoval(r)
  BY <1>2, <1>4, <1>5, <1>12, RunStateTypes DEF EndRemoval
<1>13. CASE Move(r)
  <2>1. CASE crossDevice
    <3>1. (IF cached.of # None THEN "copied" ELSE "copying") \in Phases
      BY <1>5
    <3> QED BY <1>2, <1>13, <2>1, <3>1, RunStateTypes DEF Move
  <2>2. CASE ~crossDevice
    BY <1>2, <1>4, <1>5, <1>13, <2>2, RunStateTypes DEF Move
  <2> QED BY <2>1, <2>2
<1>14. CASE StartCopy(r)
  BY <1>2, <1>4, <1>5, <1>14, RunStateTypes DEF StartCopy
<1>15. CASE EndCopy(r)
  <2>1. [run[r] EXCEPT !.pc = IF engine = "codeql" THEN "copied" ELSE "moved"] \in RunState
    BY <1>2, <1>5, RunStateTypes
  <2> QED BY <1>15, <2>1 DEF EndCopy
<1>16. CASE Cleanup(r)
  BY <1>2, <1>4, <1>5, <1>16, RunStateTypes DEF Cleanup
<1>17. CASE WriteStamp(r)
  BY <1>2, <1>4, <1>5, <1>17, RunStateTypes DEF WriteStamp
<1>18. CASE KeepWhereItIs(r)
  <2> DEFINE left == IF At(r, "copied") THEN Remains(run[r].temporary)
                                        ELSE run[r].temporary
  <2>1. left \in Database
    BY <1>4, DatabaseTypes
  <2>2. Location(run[r]) \in {"cache", "temporary"}
    BY DEF Location
  <2>3. [run[r] EXCEPT !.pc = "open", !.at = Location(run[r]),
                       !.temporary = left] \in RunState
    BY <1>2, <1>5, <2>1, <2>2, RunStateTypes
  <2> QED BY <1>18, <2>3 DEF KeepWhereItIs
<1>19. CASE Query(r)
  <2>1. Opened(run[r]).of \in Sources \cup {None}
    BY <1>1, <1>4 DEF Opened, TypeOK, Database
  <2>2. \A x \in Sources \cup {None, Broken} :
           [run[r] EXCEPT !.answer = x] \in RunState
    BY <1>2 DEF RunState
  <2> QED BY <1>19, <2>1, <2>2 DEF Query
<1>20. CASE Close(r)
  BY <1>2, <1>4, <1>5, <1>20, IdleRunType DEF Close, End
<1>21. CASE Stop(r)
  BY <1>2, <1>4, <1>5, <1>21, IdleRunType DEF Stop, End
<1> QED BY <1>6, <1>7, <1>8, <1>9, <1>10, <1>11, <1>12, <1>13, <1>14, <1>15, <1>16, <1>17, <1>18, <1>19, <1>20, <1>21 DEF Step

\* A step keeps the types, and a database without content stays not whole.
LEMMA TypeOKKept ==
  ASSUME IInv, NEW r \in Runs, Step(r)
  PROVE  TypeOK'
<1> USE NamesAssumption, OptionsAssumption, BoundsAssumption
<1>1. TypeOK /\ Serving(r)
  BY DEF IInv
<1>2. run' \in [Runs -> RunState]
  BY RunTypeKept
<1>3. ~At(r, "idle") => run[r].fingerprint \in Sources
  BY <1>1 DEF Serving, At
<1>4. engine' \in Engines /\ crossDevice' \in CrossDevices
      /\ sources' \in Sources /\ edits' \in 0..MaxEdits /\ troubles' \in 0..MaxTroubles
  BY <1>1 DEF TypeOK, Env, Step, Project, Reuse, Miss, Create, RemoveStamp, StartRemoval,
                  EndRemoval, Move, StartCopy, EndCopy, Cleanup, WriteStamp,
                  KeepWhereItIs, Query, Close, Stop, End
<1>5. lock' \in Runs \cup {NoRun}
  BY <1>1 DEF TypeOK, Step, Project, Reuse, Miss, Create, RemoveStamp, StartRemoval,
                  EndRemoval, Move, StartCopy, EndCopy, Cleanup, WriteStamp,
                  KeepWhereItIs, Query, Close, Stop, End
<1>6. stamp' \in Sources \cup {None}
  BY <1>1, <1>3 DEF TypeOK, Step, Project, Reuse, Miss, Create, RemoveStamp, StartRemoval,
                  EndRemoval, Move, StartCopy, EndCopy, Cleanup, WriteStamp,
                  KeepWhereItIs, Query, Close, Stop, StampWhileReplacing, At
<1>7. cached' \in Database /\ (cached'.of = None => ~cached'.whole)
  <2>1. cached \in Database /\ (cached.of = None => ~cached.whole)
    BY <1>1 DEF TypeOK
  <2>2. CASE UNCHANGED cached
    BY <2>1, <2>2
  <2>3. CASE StartRemoval(r)
    BY <2>1, <2>3, DatabaseTypes DEF StartRemoval, Remains, Database
  <2>4. CASE EndRemoval(r)
    BY <2>4, DatabaseTypes DEF EndRemoval, NoDatabase
  <2>5. CASE Move(r)
    <3>1. run[r].fingerprint \in Sources
      BY <1>3, <2>5 DEF Move, At
    <3>2. cached' \in {cached, Part(run[r].fingerprint), Whole(run[r].fingerprint)}
      BY <2>5 DEF Move
    <3>3. Part(run[r].fingerprint).of # None /\ Whole(run[r].fingerprint).of # None
      BY <3>1 DEF Part, Whole
    <3>4. CASE cached' = cached
      BY <2>1, <3>4
    <3>5. CASE cached' # cached
      BY <3>1, <3>2, <3>3, <3>5, DatabaseTypes
    <3> QED BY <3>4, <3>5
  <2>6. CASE StartCopy(r)
    BY <1>3, <2>6, DatabaseTypes DEF StartCopy, Part, At
  <2>7. CASE EndCopy(r)
    <3>1. run[r].fingerprint \in Sources
      BY <1>3, <2>7 DEF EndCopy, At
    <3>2. cached' \in {cached, Whole(run[r].fingerprint)}
      BY <2>7 DEF EndCopy
    <3> QED BY <2>1, <3>1, <3>2, DatabaseTypes DEF Whole
  <2> QED BY <2>2, <2>3, <2>4, <2>5, <2>6, <2>7
          DEF Step, Project, Reuse, Miss, Create, RemoveStamp, Cleanup,
              WriteStamp, KeepWhereItIs, Query, Close, Stop
<1> QED BY <1>2, <1>4, <1>5, <1>6, <1>7 DEF TypeOK

\* The part of the invariant that is about the stepping process.
LEMMA OwnPartKept ==
  ASSUME Comparers = {}, CleanupFails = FALSE, IInv, NEW r \in Runs, Step(r)
  PROVE  StampVouches' /\ Alone(r)' /\ Replacing(r)' /\ Serving(r)'
<1> USE NamesAssumption, OptionsAssumption
<1>1. TypeOK /\ StampVouches /\ Alone(r) /\ Replacing(r) /\ Serving(r)
  BY DEF IInv
<1>2. run \in [Runs -> RunState] /\ run[r] \in RunState /\ sources \in Sources
      /\ cached \in Database
  BY <1>1 DEF TypeOK
<1> USE DEF StampVouches, Alone, Replacing, Serving, Opened, Goto, At, Env,
            RunState, Phases, Database, NoDatabase, Whole, Part, IdleRun
<1>3. CASE Project(r)
  BY <1>1, <1>2, <1>3, SMTT(60) DEF Project, Runs
<1>4. CASE Reuse(r)
  BY <1>1, <1>2, <1>4, SMTT(60) DEF Reuse, Matches
<1>5. CASE Miss(r)
  BY <1>1, <1>2, <1>5, SMTT(60) DEF Miss, Matches
<1>6. CASE Create(r)
  BY <1>1, <1>2, <1>6, SMTT(60) DEF Create
<1>7. CASE RemoveStamp(r)
  BY <1>1, <1>2, <1>7, SMTT(60) DEF RemoveStamp, StampWhileReplacing
<1>8. CASE StartRemoval(r)
  <2>1. cached.of = None => cached = NoDatabase
    BY <1>1, <1>2 DEF TypeOK
  <2>2. stamp = None /\ stamp' = None
    BY <1>1, <1>8 DEF StartRemoval
  <2>3. run'[r] = [run[r] EXCEPT !.pc = IF cached.of = None THEN "clear" ELSE "removing"]
    BY <1>2, <1>8 DEF StartRemoval
  <2>4. cached.of = None => cached' = NoDatabase
    BY <2>1, <1>8 DEF StartRemoval
  <2> QED BY <1>1, <1>2, <1>8, <2>2, <2>3, <2>4 DEF StartRemoval
<1>9. CASE EndRemoval(r)
  BY <1>1, <1>2, <1>9, SMTT(60) DEF EndRemoval
<1>10. CASE Move(r)
  BY <1>1, <1>2, <1>10, SMTT(60) DEF Move
<1>11. CASE StartCopy(r)
  BY <1>1, <1>2, <1>11, SMTT(60) DEF StartCopy
<1>12. CASE EndCopy(r)
  BY <1>1, <1>2, <1>12, SMTT(60) DEF EndCopy
<1>13. CASE Cleanup(r)
  BY <1>1, <1>2, <1>13, SMTT(60) DEF Cleanup
<1>14. CASE WriteStamp(r)
  BY <1>1, <1>2, <1>14, SMTT(60) DEF WriteStamp
<1>15. CASE KeepWhereItIs(r)
  <2>1. run'[r] = [run[r] EXCEPT !.pc = "open", !.at = Location(run[r])]
    BY <1>2, <1>15 DEF KeepWhereItIs
  <2>2. run[r].fingerprint \in Sources /\ run[r].fingerprint # None
    BY <1>1, <1>15 DEF KeepWhereItIs
  <2>3. Opened(run[r])' = Whole(run[r].fingerprint)
    <3>1. CASE At(r, "moved") /\ engine = "codeql"
      <4>1. Location(run[r]) = "cache" /\ cached' = Whole(run[r].fingerprint)
        BY <1>1, <1>15, <3>1 DEF KeepWhereItIs, Location
      <4> QED BY <1>2, <2>1, <4>1
    <3>2. CASE ~(At(r, "moved") /\ engine = "codeql")
      <4>1. run[r].temporary = Whole(run[r].fingerprint)
        BY <1>1, <1>15, <3>2 DEF KeepWhereItIs
      <4>2. Location(run[r]) = "temporary"
        BY <2>2, <4>1 DEF Location
      <4> QED BY <1>2, <2>1, <4>1, <4>2
    <3> QED BY <3>1, <3>2
  <2>4. StampVouches' /\ Alone(r)' /\ Replacing(r)'
    BY <1>1, <1>2, <1>15, <2>1 DEF KeepWhereItIs
  <2>5. Serving(r)'
    BY <1>1, <1>2, <2>1, <2>2, <2>3
  <2> QED BY <2>4, <2>5
<1>16. CASE Query(r)
  BY <1>1, <1>2, <1>16, SMTT(60) DEF Query
<1>17. CASE Close(r)
  BY <1>1, <1>2, <1>17, SMTT(60) DEF Close, End
<1>18. CASE Stop(r)
  BY <1>1, <1>2, <1>18, SMTT(60) DEF Stop, End
<1> QED BY <1>3, <1>4, <1>5, <1>6, <1>7, <1>8, <1>9, <1>10, <1>11, <1>12, <1>13, <1>14, <1>15, <1>16, <1>17, <1>18 DEF Step

\* A step of any process keeps the invariant.
LEMMA StepKeeps ==
  ASSUME Comparers = {}, CleanupFails = FALSE, IInv, NEW r \in Runs, Step(r)
  PROVE  IInv'
  BY RunTypeKept, TypeOKKept, OwnPartKept, OthersIdle

\* So does a change of the sources: it touches no database.
LEMMA EditKeeps ==
  ASSUME IInv, NEW v \in Sources, Edit(v)
  PROVE  IInv'
<1>1. TypeOK'
  BY BoundsAssumption DEF IInv, TypeOK, Edit
<1>2. StampVouches'
  BY DEF IInv, StampVouches, Edit
<1>3. ASSUME NEW r \in Runs PROVE Alone(r)' /\ Replacing(r)' /\ Serving(r)'
  BY DEF IInv, Alone, Replacing, Serving, Opened, At, Edit
<1> QED BY <1>1, <1>2, <1>3 DEF IInv

\* The invariant holds in every reachable state.
LEMMA IInvHolds ==
  ASSUME Comparers = {}, CleanupFails = FALSE
  PROVE  Spec => []IInv
<1>1. IInv /\ [Next]_vars => IInv'
  <2>1. CASE UNCHANGED vars
    BY <2>1 DEF IInv, TypeOK, StampVouches, Alone, Replacing, Serving, Opened,
                At, vars
  <2>2. ASSUME IInv, NEW r \in Runs, Step(r) PROVE IInv'
    BY <2>2, StepKeeps
  <2>3. ASSUME IInv, NEW v \in Sources, Edit(v) PROVE IInv'
    BY <2>3, EditKeeps
  <2> QED BY <2>1, <2>2, <2>3 DEF Next
<1> QED BY <1>1, InitHolds, PTL DEF Spec

\* With index runs alone, and removals of temporary files that succeed, the
\* stamp always vouches for the database beside it: no crash, failure or edit
\* between the file operations leaves a stamp over another database
\* (_store_cached_database and JoernEngine._cpg under the store's lock).
THEOREM StampIsSound ==
  ASSUME Comparers = {}, CleanupFails = FALSE
  PROVE  Spec => []StampVouches
  BY IInvHolds, PTL DEF IInv

\* Under the same conditions every session answers from a whole database of
\* the projection it was opened for.
THEOREM SessionsAreSound ==
  ASSUME Comparers = {}, CleanupFails = FALSE
  PROVE  Spec => []AnswersAreOfProjection
<1>1. IInv => AnswersAreOfProjection
  BY DEF IInv, Serving, AnswersAreOfProjection
<1> QED BY <1>1, IInvHolds, PTL

\* And every open session has its database where it looks for it.
THEOREM SessionsHaveTheirDatabase ==
  ASSUME Comparers = {}, CleanupFails = FALSE
  PROVE  Spec => []OpenedIsThere
<1>1. ASSUME IInv, NEW r \in Runs, At(r, "open") PROVE Opened(run[r]).of # None
  <2>1. Opened(run[r]) = Whole(run[r].fingerprint) /\ run[r].fingerprint \in Sources
    BY <1>1 DEF IInv, Serving, At
  <2> QED BY <2>1, NamesAssumption DEF Whole
<1>2. IInv => OpenedIsThere
  BY <1>1 DEF OpenedIsThere
<1> QED BY <1>2, IInvHolds, PTL

=============================================================================
