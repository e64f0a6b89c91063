------------------------ MODULE FlowCalculation_proofs -----------------------
(***************************************************************************)
(* Theorems about index runs (IndexRun) and about calculations between and *)
(* beside them (FlowCalculation), for every number of processes,           *)
(* calculators, files, edits and troubles and for every setting of the     *)
(* options.                                                                *)
(*                                                                         *)
(* The first part is about runs alone: types, signed snapshots, facts and  *)
(* their hashes, rows of deleted files; a settled snapshot is exact, every *)
(* step of a run is one of PublishedSnapshot, a resumed join loses no flow *)
(* and, with one process, takes back no progress.  The second part adds    *)
(* the persisted call edges: their invariant says of which tree and of     *)
(* which engine the edges are, so that a calculation over a settled index  *)
(* gives back what the index run published, and one at a checkpoint only   *)
(* adds rows to those that a resume relies on.                             *)
(***************************************************************************)
EXTENDS FlowCalculation, TLAPS, FiniteSetTheorems

-----------------------------------------------------------------------------
(* The data of the model are well formed.                                  *)

\* An edit never takes a version out of the range of versions.
LEMMA VersionsAreNaturals == Versions \subseteq Nat /\ 0 \in Versions
  BY SizesAssumption DEF Versions

LEMMA AstFlowsType ==
  ASSUME NEW t \in Trees
  PROVE  AstFlows(t) \subseteq Flow
  <1> SUFFICES ASSUME NEW f \in Present(t)
               PROVE  [kind |-> "ast", entry |-> f, sig |-> NoSig,
                       src |-> [g \in Files |-> IF g = f THEN t[f] ELSE 0]] \in Flow
    BY DEF AstFlows
  <1>1. f \in Files /\ t[f] \in Versions
    BY DEF Present, Trees
  <1>2. [g \in Files |-> IF g = f THEN t[f] ELSE 0] \in Trees
    BY <1>1, VersionsAreNaturals DEF Trees
  <1> QED BY <1>1, <1>2 DEF Flow

LEMMA JoinFlowsType ==
  ASSUME NEW t \in Trees, NEW done, NEW upto,
         NEW sig \in Signatures \cup {NoSig}, NEW calls \in {"full", "cut"}
  PROVE  JoinFlows(t, done, upto, sig, calls) \subseteq Flow
  BY DEF JoinFlows, Flow, Present

LEMMA MethodsSignatureType ==
  ASSUME NEW t \in Trees
  PROVE  MethodsSignature(t) \in [Files -> Versions]
  <1>1. ASSUME NEW v \in Versions PROVE (v + 1) \div 2 \in Versions
    BY SizesAssumption DEF Versions
  <1> QED BY <1>1 DEF MethodsSignature, Trees

LEMMA IdleRunType == IdleRun \in RunState
  <1>1. Absent \in Trees
    BY VersionsAreNaturals DEF Absent, Trees
  <1>2. Projects \in Nat /\ NFiles \in Nat
    BY SizesAssumption
  <1> QED BY <1>1, <1>2 DEF IdleRun, RunState, Phases

LEMMA EmptyIndexType == EmptyIndex \in Index
  <1>1. Absent \in Trees /\ Absent \in [Files -> Versions]
    BY VersionsAreNaturals DEF Absent, Trees
  <1> QED BY <1>1, SizesAssumption DEF EmptyIndex, Index, Statuses
-----------------------------------------------------------------------------
(* Type correctness                                                        *)

\* Once the flow stage has read the sources, the run's view is a tree.
ViewIsRead ==
    \A r \in Runs : run[r].pc \in {"engine", "join", "final"} =>
        run[r].view \in Trees

TypeInv == TypeOK /\ ViewIsRead

LEMMA AbandonType ==
  ASSUME TypeInv, NEW r \in Runs, Abandon(r)
  PROVE  /\ run' \in [Runs -> RunState] /\ lock' \in Runs \cup {NoRun}
         /\ db' \in Index /\ work' \in Index /\ ViewIsRead'
  <1>1. run' = [run EXCEPT ![r] = IdleRun] /\ run \in [Runs -> RunState]
    BY DEF Abandon, TypeInv, TypeOK
  <1>2. run' \in [Runs -> RunState]
    BY <1>1, IdleRunType
  <1>3. ViewIsRead'
    BY <1>1 DEF TypeInv, ViewIsRead, IdleRun
  <1> QED BY <1>2, <1>3 DEF Abandon, TypeInv, TypeOK

\* A step that gives one process a well-typed state keeps the others'.
LEMMA GotoType ==
  ASSUME TypeInv, NEW r \in Runs, NEW s \in RunState, Goto(r, s),
         s.pc \in {"engine", "join", "final"} => s.view \in Trees
  PROVE  run' \in [Runs -> RunState] /\ ViewIsRead'
  <1>1. run' = [run EXCEPT ![r] = s] /\ run \in [Runs -> RunState]
    BY DEF Goto, TypeInv, TypeOK
  <1>2. run' \in [Runs -> RunState]
    BY <1>1
  <1>3. ASSUME NEW q \in Runs, run'[q].pc \in {"engine", "join", "final"}
        PROVE  run'[q].view \in Trees
    BY <1>1, <1>3 DEF TypeInv, ViewIsRead
  <1> QED BY <1>2, <1>3 DEF ViewIsRead

LEMMA ReadType ==
  ASSUME TypeInv, NEW r \in Runs, NEW f \in Files
  PROVE  Read(run[r], f) \in Versions
  <1>1. run[r].view[f] \in Versions \cup {Unread} /\ tree[f] \in Versions
    BY DEF TypeInv, TypeOK, RunState, Trees
  <1> QED BY <1>1 DEF Read

LEMMA ExtractedRowsType ==
  ASSUME TypeInv, NEW r \in Runs
  PROVE  /\ [work EXCEPT !.hashes = NewHashes(run[r]), !.facts = NewFacts(run[r])]
               \in Index
         /\ [f \in Files |-> IF f \in Changed(run[r]) THEN Read(run[r], f)
                                                      ELSE run[r].view[f]]
               \in [Files -> Versions \cup {Unread}]
  <1>1. work \in Index /\ run[r] \in RunState
    BY DEF TypeInv, TypeOK
  <1>2. NewHashes(run[r]) \in Trees
    BY <1>1 DEF NewHashes, Index, RunState, Trees
  <1>3. NewFacts(run[r]) \in Trees
    BY <1>1, ReadType, VersionsAreNaturals DEF NewFacts, Index, Trees
  <1>4. run[r].view \in [Files -> Versions \cup {Unread}]
    BY <1>1 DEF RunState
  <1> QED BY <1>1, <1>2, <1>3, <1>4, ReadType DEF Index

LEMMA InProgressType ==
  ASSUME TypeInv, NEW r \in Runs
  PROVE  InProgress(run[r]) \in Index
  BY DEF TypeInv, TypeOK, InProgress, Index, Statuses

LEMMA StageStartType ==
  ASSUME TypeInv, NEW r \in Runs, StageStart(r)
  PROVE  TypeInv'
  <1> DEFINE s == run[r]
             seen == [f \in Files |-> IF s.hash[f] = 0 THEN 0 ELSE Read(s, f)]
             joins == s.sig # NoEngine /\ Present(seen) # {}
             matches == /\ work.joinMethods = MethodsSignature(seen)
                        /\ s.cursor <= Entries(seen)
             resumes == s.resume /\ matches
             restart == s.resume /\ ~matches
             starts == joins /\ ~s.resume
             w == [InProgress(s) EXCEPT
                     !.callGraph   = "none",
                     !.inputOutput = "none",
                     !.joinMethods = IF resumes THEN @ ELSE MethodsSignature(seen),
                     !.joinDone    = IF restart \/ starts THEN 0 ELSE @,
                     !.joinSig     = IF starts THEN s.sig ELSE @]
             t == [s EXCEPT
                     !.pc     = IF joins THEN "engine" ELSE "final",
                     !.view   = seen,
                     !.joined = IF joins /\ resumes THEN @ ELSE {},
                     !.cursor = IF joins /\ resumes THEN @ ELSE 0]
  <1>1. s \in RunState
    BY DEF TypeInv, TypeOK
  <1>2. seen \in Trees
    BY ReadType, VersionsAreNaturals DEF Trees
  <1>3. MethodsSignature(seen) \in [Files -> Versions]
    BY <1>2, MethodsSignatureType
  <1>4. 0 \in 0..NFiles
    BY SizesAssumption
  <1> HIDE DEF seen
  <1>5. s.sig \in Signatures \cup {NoSig}
    BY <1>1 DEF RunState
  <1> HIDE DEF joins, matches, resumes, restart, starts, s
  <1>6. InProgress(s) \in Index
    BY InProgressType DEF s
  <1>7. w \in Index
    BY <1>3, <1>4, <1>5, <1>6 DEF Index, Statuses
  <1>8. t \in RunState
    BY <1>1, <1>2, <1>4 DEF RunState, Phases, Trees
  <1> HIDE DEF w
  <1>9. Goto(r, t) /\ Write(w) /\ UNCHANGED <<tree, edits, troubles>>
    BY DEF StageStart, s, seen, joins, matches, resumes, restart, starts, w
  <1>10. t.view \in Trees
    BY <1>1, <1>2 DEF RunState
  <1> HIDE DEF t
  <1>11. run' \in [Runs -> RunState] /\ ViewIsRead'
    BY <1>8, <1>9, <1>10, GotoType
  <1> QED BY <1>7, <1>9, <1>11 DEF Write, TypeInv, TypeOK

LEMMA TypeInvInit == Init => TypeInv
  <1> SUFFICES ASSUME Init PROVE TypeInv
    OBVIOUS
  <1>1. tree \in Trees
    <2>1. {0, 1} \subseteq Versions
      BY SizesAssumption DEF Versions
    <2> QED BY <2>1 DEF Init, Trees
  <1>2. edits \in 0..MaxEdits /\ troubles \in 0..MaxTroubles
    BY SizesAssumption DEF Init
  <1>3. run \in [Runs -> RunState] /\ ViewIsRead
    BY IdleRunType DEF Init, ViewIsRead, IdleRun
  <1> QED BY <1>1, <1>2, <1>3, EmptyIndexType DEF Init, TypeInv, TypeOK

\* Every step of a live process.
LEMMA TypeInvAdvance ==
  ASSUME TypeInv, NEW r \in Runs, Advance(r)
  PROVE  TypeInv'
  <1> USE DEF TypeInv
  <1>0. run[r] \in RunState /\ run \in [Runs -> RunState] /\ work \in Index
    BY DEF TypeOK
  <1>1. CASE Inventory(r)
    <2> DEFINE s == run[r]
               t == [s EXCEPT !.pc = "hashed", !.hash = tree,
                              !.joined = IF s.resume THEN work.flows ELSE {},
                              !.cursor = IF s.resume THEN work.joinDone ELSE 0]
    <2>1. work.flows \in SUBSET Flow /\ work.joinDone \in 0..NFiles /\ 0 \in 0..NFiles
      BY <1>0, SizesAssumption DEF Index
    <2>2. t \in RunState /\ t.pc = "hashed"
      BY <1>0, <2>1 DEF TypeOK, RunState, Phases
    <2>3. Goto(r, t)
      BY <1>1 DEF Inventory
    <2> HIDE DEF t
    <2>4. run' \in [Runs -> RunState] /\ ViewIsRead'
      BY <2>2, <2>3, GotoType
    <2> QED BY <1>1, <2>4 DEF Inventory, TypeOK
  <1>2. CASE Refuse(r)
    BY <1>2, AbandonType DEF Refuse, TypeOK
  <1>3. CASE Extract(r)
    <2> DEFINE s == run[r]
               v == [f \in Files |-> IF f \in Changed(s) THEN Read(s, f)
                                                         ELSE s.view[f]]
               t == [s EXCEPT !.pc = IF StageNeeded(s) THEN "flows" ELSE "unchanged",
                              !.view = v]
    <2>1. v \in [Files -> Versions \cup {Unread}]
      BY ExtractedRowsType
    <2> HIDE DEF v
    <2>2. t \in RunState /\ t.pc \in {"flows", "unchanged"}
      BY <1>0, <2>1 DEF RunState, Phases
    <2>3. Goto(r, t)
      BY <1>3 DEF Extract, v
    <2> HIDE DEF t
    <2>4. run' \in [Runs -> RunState] /\ ViewIsRead'
      BY <2>2, <2>3, GotoType
    <2>5. work' \in Index /\ UNCHANGED <<db, lock, tree, edits, troubles>>
      BY <1>3, ExtractedRowsType DEF Extract, Write
    <2> QED BY <2>4, <2>5 DEF TypeOK
  <1>4. CASE Skip(r)
    <2>1. run' \in [Runs -> RunState] /\ ViewIsRead'
      BY <1>4, IdleRunType, GotoType DEF Skip, IdleRun
    <2> QED BY <1>4, <2>1 DEF Skip, Commit, TypeOK
  <1>5. CASE StageStart(r)
    BY <1>5, StageStartType
  <1>6. ASSUME NEW calls \in {"full", "cut"}, NEW timedOut \in BOOLEAN,
               CallGraphCheckpoint(r, calls, timedOut)
        PROVE  TypeInv'
    <2> DEFINE w == [work EXCEPT !.callGraph = IF timedOut THEN "partial" ELSE "complete"]
               t == [run[r] EXCEPT !.pc = "join", !.calls = calls, !.timedOut = timedOut]
    <2>1. w \in Index
      BY <1>0 DEF Index, Statuses
    <2>2. t \in RunState /\ t.view \in Trees
      BY <1>0, <1>6 DEF RunState, Phases, ViewIsRead, CallGraphCheckpoint
    <2>3. Goto(r, t) /\ Commit(w)
      BY <1>6 DEF CallGraphCheckpoint
    <2> HIDE DEF t, w
    <2>4. run' \in [Runs -> RunState] /\ ViewIsRead'
      BY <2>2, <2>3, GotoType
    <2>5. troubles' \in 0..MaxTroubles
      BY <1>6, SizesAssumption DEF CallGraphCheckpoint, TypeOK
    <2> QED BY <1>6, <2>1, <2>3, <2>4, <2>5 DEF CallGraphCheckpoint, Commit, TypeOK
  <1>7. ASSUME NEW k \in Files, JoinCheckpoint(r, k)
        PROVE  TypeInv'
    <2> DEFINE s == run[r]
               joined == s.joined \cup JoinFlows(s.view, s.cursor, k, s.sig, s.calls)
               w == [Provisional(AstFlows(s.view) \cup joined) EXCEPT !.joinDone = k]
               t == [s EXCEPT !.joined = joined, !.cursor = k]
    <2>1. s.pc = "join" /\ s.view \in Trees
      BY <1>7 DEF JoinCheckpoint, ViewIsRead
    <2>2. k \in 0..NFiles
      BY SizesAssumption DEF Files
    <2>3. JoinFlows(s.view, s.cursor, k, s.sig, s.calls) \subseteq Flow
      BY <1>0, <2>1, JoinFlowsType DEF RunState
    <2>4. joined \subseteq Flow /\ AstFlows(s.view) \cup joined \in SUBSET Flow
      BY <1>0, <2>1, <2>3, AstFlowsType DEF RunState
    <2>5. Goto(r, t) /\ Commit(w)
      BY <1>7 DEF JoinCheckpoint
    <2> HIDE DEF joined, s
    <2>6. w \in Index
      BY <1>0, <2>2, <2>4 DEF Index, Statuses, Provisional
    <2>7. t \in RunState /\ t.view \in Trees
      BY <1>0, <2>1, <2>2, <2>4 DEF RunState, s
    <2> HIDE DEF t, w
    <2>8. run' \in [Runs -> RunState] /\ ViewIsRead'
      BY <2>5, <2>7, GotoType
    <2> QED BY <1>7, <2>5, <2>6, <2>8 DEF JoinCheckpoint, Commit, TypeOK
  <1>8. ASSUME NEW kept \in SUBSET run[r].joined, ProgressCheckpoint(r, kept)
        PROVE  TypeInv'
    <2> DEFINE s == run[r]
               w == Provisional(AstFlows(s.view) \cup kept)
               t == [s EXCEPT !.page = @ + 1]
    <2>1. s.pc = "join" /\ s.view \in Trees /\ s.page < Projects
      BY <1>8 DEF ProgressCheckpoint, ViewIsRead, Reporting
    <2>2. s.page + 1 \in 0..Projects
      BY <1>0, <2>1, SizesAssumption DEF RunState
    <2>3. AstFlows(s.view) \cup kept \in SUBSET Flow
      BY <1>0, <2>1, AstFlowsType DEF RunState
    <2>4. Goto(r, t) /\ Commit(w)
      BY <1>8 DEF ProgressCheckpoint
    <2>5. w \in Index
      BY <1>0, <2>3 DEF Index, Statuses, Provisional
    <2>6. t \in RunState /\ t.view \in Trees
      BY <1>0, <2>1, <2>2 DEF RunState
    <2> HIDE DEF t, w
    <2>7. run' \in [Runs -> RunState] /\ ViewIsRead'
      BY <2>4, <2>6, GotoType
    <2> QED BY <1>8, <2>4, <2>5, <2>7 DEF ProgressCheckpoint, Commit, TypeOK
  <1>9. CASE InputOutputCheckpoint(r)
    <2> DEFINE s == run[r]
               w == [work EXCEPT
                       !.flows = AstFlows(s.view) \cup s.joined,
                       !.flowSig = NoSig,
                       !.joinDone = Entries(s.view),
                       !.inputOutput = IF s.timedOut THEN "partial" ELSE "complete"]
               t == [s EXCEPT !.pc = "final"]
    <2>1. s.pc = "join" /\ s.view \in Trees /\ Entries(s.view) = s.cursor
      BY <1>9 DEF InputOutputCheckpoint, ViewIsRead
    <2>2. AstFlows(s.view) \cup s.joined \in SUBSET Flow /\ Entries(s.view) \in 0..NFiles
      BY <1>0, <2>1, AstFlowsType DEF RunState
    <2>3. Goto(r, t) /\ Commit(w)
      BY <1>9 DEF InputOutputCheckpoint
    <2>4. w \in Index
      BY <1>0, <2>2 DEF Index, Statuses
    <2>5. t \in RunState /\ t.view \in Trees
      BY <1>0, <2>1 DEF RunState, Phases
    <2> HIDE DEF t, w
    <2>6. run' \in [Runs -> RunState] /\ ViewIsRead'
      BY <2>3, <2>5, GotoType
    <2> QED BY <1>9, <2>3, <2>4, <2>6 DEF InputOutputCheckpoint, Commit, TypeOK
  <1>10. CASE Finish(r)
    <2> DEFINE s == run[r]
               w == [work EXCEPT
                       !.flows    = AstFlows(s.view) \cup s.joined,
                       !.flowSig  = IF s.timedOut THEN NoSig ELSE s.sig,
                       !.status   = IF s.timedOut THEN "partial" ELSE "complete",
                       !.joinSig  = NoSig,
                       !.joinDone = 0]
    <2>1. s.pc = "final" /\ s.view \in Trees
      BY <1>10 DEF Finish, ViewIsRead
    <2>2. AstFlows(s.view) \cup s.joined \in SUBSET Flow
      BY <1>0, <2>1, AstFlowsType DEF RunState
    <2>3. s.sig \in Signatures \cup {NoSig} /\ 0 \in 0..NFiles
      BY <1>0, SizesAssumption DEF RunState
    <2>4. Goto(r, IdleRun) /\ Commit(w)
      BY <1>10 DEF Finish
    <2>5. w \in Index
      BY <1>0, <2>2, <2>3 DEF Index, Statuses
    <2> HIDE DEF w
    <2>6. run' \in [Runs -> RunState] /\ ViewIsRead'
      BY <2>4, IdleRunType, GotoType DEF IdleRun
    <2> QED BY <1>10, <2>4, <2>5, <2>6 DEF Finish, Commit, TypeOK
  <1>11. CASE Reopen(r)
    BY <1>11 DEF Reopen, TypeOK, ViewIsRead
  <1>12. CASE LockLost(r)
    BY <1>12, AbandonType DEF LockLost, TypeOK
  <1> QED BY <1>1, <1>2, <1>3, <1>4, <1>5, <1>6, <1>7, <1>8, <1>9, <1>10, <1>11,
             <1>12 DEF Advance

LEMMA TypeInvStep == TypeInv /\ [Next]_vars => TypeInv'
  <1> SUFFICES ASSUME TypeInv, [Next]_vars PROVE TypeInv'
    OBVIOUS
  <1>1. ASSUME NEW r \in Runs, NEW sig \in Signatures, NEW full \in BOOLEAN,
               NEW resume \in BOOLEAN, NEW html \in BOOLEAN,
               Begin(r, sig, full, resume, html)
        PROVE  TypeInv'
    <2>1. PICK cached \in IF ParseBeforeInventory THEN SUBSET Present(tree) ELSE {{}} :
             Goto(r, [IdleRun EXCEPT
                        !.pc = "begun", !.sig = sig, !.full = full,
                        !.resume = resume, !.html = html,
                        !.view = [f \in Files |-> IF f \in cached THEN tree[f]
                                                                  ELSE Unread]])
      BY <1>1 DEF Begin
    <2> DEFINE v == [f \in Files |-> IF f \in cached THEN tree[f] ELSE Unread]
               t == [IdleRun EXCEPT
                       !.pc = "begun", !.sig = sig, !.full = full,
                       !.resume = resume, !.html = html, !.view = v]
    <2>2. v \in [Files -> Versions \cup {Unread}]
      BY DEF TypeInv, TypeOK, Trees
    <2> HIDE DEF v
    <2>3. t \in RunState /\ t.pc = "begun"
      BY <2>2, IdleRunType DEF RunState, Phases
    <2>4. Goto(r, t)
      BY <2>1 DEF v
    <2> HIDE DEF t
    <2>5. run' \in [Runs -> RunState] /\ ViewIsRead'
      BY <2>3, <2>4, GotoType
    <2> QED BY <1>1, <2>5 DEF Begin, TypeInv, TypeOK
  <1>2. ASSUME NEW r \in Runs, Advance(r) PROVE TypeInv'
    BY <1>2, TypeInvAdvance
  <1>3. ASSUME NEW r \in Runs, Stop(r) PROVE TypeInv'
    <2>1. troubles' \in 0..MaxTroubles
      BY <1>3, SizesAssumption DEF Stop, TypeInv, TypeOK
    <2> QED BY <1>3, <2>1, AbandonType DEF Stop, TypeInv, TypeOK
  <1>4. ASSUME NEW f \in Files, NEW v \in Versions, Edit(f, v) PROVE TypeInv'
    <2>1. edits' \in 0..MaxEdits
      BY <1>4, SizesAssumption DEF Edit, TypeInv, TypeOK
    <2>2. tree' \in Trees
      BY <1>4 DEF Edit, TypeInv, TypeOK, Trees
    <2> QED BY <1>4, <2>1, <2>2 DEF Edit, TypeInv, TypeOK, ViewIsRead
  <1>5. CASE UNCHANGED vars
    BY <1>5 DEF vars, TypeInv, TypeOK, ViewIsRead
  <1> QED BY <1>1, <1>2, <1>3, <1>4, <1>5 DEF Next

\* TypeOK holds for any number of processes and files, whatever the options.
THEOREM TypeCorrect == Spec => []TypeOK
  <1>1. TypeInv => TypeOK
    BY DEF TypeInv
  <1> QED BY <1>1, TypeInvInit, TypeInvStep, PTL DEF Spec

-----------------------------------------------------------------------------
(* A signed snapshot is a finished one                                     *)

Finished(w) == w.flowSig # NoSig => /\ w.status = "complete"
                                    /\ w.joinSig = NoSig /\ w.joinDone = 0

\* The open transaction obeys the rule too: any commit may publish it.
FinishedInv == TypeInv /\ Finished(db) /\ Finished(work)

LEMMA FinishedStart ==
  ASSUME TypeInv, NEW r \in Runs, StageStart(r)
  PROVE  Finished(work')
  <1>1. InProgress(run[r]) \in Index /\ InProgress(run[r]).flowSig = NoSig
    BY InProgressType DEF InProgress, TypeInv, TypeOK, Index
  <1>2. work'.flowSig = InProgress(run[r]).flowSig
    BY <1>1 DEF StageStart, Write, Index
  <1> QED BY <1>1, <1>2 DEF Finished

LEMMA FinishedStep == FinishedInv /\ [Next]_vars => FinishedInv'
  <1> SUFFICES ASSUME FinishedInv, [Next]_vars PROVE FinishedInv'
    OBVIOUS
  <1>1. TypeInv /\ TypeInv' /\ work \in Index
    BY TypeInvStep DEF FinishedInv, TypeInv, TypeOK
  <1> SUFFICES Finished(db)' /\ Finished(work)'
    BY <1>1 DEF FinishedInv
  <1> USE DEF FinishedInv
  <1>2. ASSUME NEW r \in Runs, Abandon(r) PROVE Finished(db)' /\ Finished(work)'
    BY <1>2 DEF Abandon, Finished
  <1>3. ASSUME NEW r \in Runs, Advance(r) PROVE Finished(db)' /\ Finished(work)'
    <2>1. CASE Inventory(r)
      BY <2>1 DEF Inventory, Finished
    <2>2. CASE Refuse(r) \/ LockLost(r)
      BY <2>2, <1>2 DEF Refuse, LockLost
    <2>3. CASE Extract(r)
      BY <1>1, <2>3 DEF Extract, Write, Finished, Index
    <2>4. CASE Skip(r)
      BY <2>4 DEF Skip, Commit, Finished
    <2>5. CASE StageStart(r)
      BY <1>1, <2>5, FinishedStart DEF StageStart, Write, Finished
    <2>6. ASSUME NEW calls \in {"full", "cut"}, NEW timedOut \in BOOLEAN,
                 CallGraphCheckpoint(r, calls, timedOut)
          PROVE  Finished(db)' /\ Finished(work)'
      BY <1>1, <2>6 DEF CallGraphCheckpoint, Commit, Finished, Index
    <2>7. ASSUME NEW k \in Files, JoinCheckpoint(r, k)
          PROVE  Finished(db)' /\ Finished(work)'
      BY <1>1, <2>7 DEF JoinCheckpoint, Provisional, Commit, Finished, Index
    <2>8. ASSUME NEW kept \in SUBSET run[r].joined, ProgressCheckpoint(r, kept)
          PROVE  Finished(db)' /\ Finished(work)'
      BY <1>1, <2>8 DEF ProgressCheckpoint, Provisional, Commit, Finished, Index
    <2>9. CASE InputOutputCheckpoint(r)
      BY <1>1, <2>9 DEF InputOutputCheckpoint, Commit, Finished, Index
    <2>10. CASE Finish(r)
      BY <1>1, <2>10 DEF Finish, Commit, Finished, Index
    <2>11. CASE Reopen(r)
      BY <2>11 DEF Reopen, Finished
    <2> QED BY <1>3, <2>1, <2>2, <2>3, <2>4, <2>5, <2>6, <2>7, <2>8, <2>9, <2>10,
               <2>11 DEF Advance
  <1>4. ASSUME NEW r \in Runs, Stop(r) PROVE Finished(db)' /\ Finished(work)'
    BY <1>2, <1>4 DEF Stop
  <1>5. ASSUME NEW r \in Runs, NEW sig \in Signatures, NEW full \in BOOLEAN,
               NEW resume \in BOOLEAN, NEW html \in BOOLEAN,
               Begin(r, sig, full, resume, html)
        PROVE  Finished(db)' /\ Finished(work)'
    BY <1>5 DEF Begin, Finished
  <1>6. ASSUME NEW f \in Files, NEW v \in Versions, Edit(f, v)
        PROVE  Finished(db)' /\ Finished(work)'
    BY <1>6 DEF Edit, Finished
  <1>7. CASE UNCHANGED vars
    BY <1>7 DEF vars, Finished
  <1> QED BY <1>3, <1>4, <1>5, <1>6, <1>7 DEF Next

\* No commit of any interleaving of runs pairs a signature with a partial
\* status or with a join checkpoint.
THEOREM SignedIsFinished == Spec => []SignedSnapshotIsFinished
  <1>1. Init => FinishedInv
    BY TypeInvInit DEF Init, FinishedInv, Finished, EmptyIndex
  <1>2. FinishedInv => SignedSnapshotIsFinished
    BY DEF FinishedInv, Finished, SignedSnapshotIsFinished
  <1> QED BY <1>1, <1>2, FinishedStep, PTL DEF Spec

-----------------------------------------------------------------------------
(* Facts of a matching hash, with edits at any moment                      *)

\* An index is current file by file; a deleted file has no facts, and no hash
\* is newer than the last edit.
CurrentFacts(w) ==
    \A f \in Files : /\ w.hashes[f] <= edits + 1
                     /\ w.hashes[f] = tree[f] => w.facts[f] = tree[f]
                     /\ w.hashes[f] = 0 => w.facts[f] = 0

\* No content is newer than the last edit, and nothing is parsed before the
\* inventory.
NothingNewer ==
    /\ \A f \in Files : tree[f] <= edits + 1
    /\ \A r \in Runs, f \in Files :
          /\ run[r].hash[f] <= edits + 1
          /\ run[r].pc \in {"begun", "hashed"} => run[r].view[f] = Unread

FactsInv == TypeInv /\ NothingNewer /\ CurrentFacts(db) /\ CurrentFacts(work)

\* What the facts depend on: an index keeps its rows, a run its inventory.
LEMMA CurrentFactsKept ==
  ASSUME NEW v, NEW w, CurrentFacts(v), w.hashes = v.hashes, w.facts = v.facts
  PROVE  CurrentFacts(w)
  BY DEF CurrentFacts

LEMMA CurrentFactsStable ==
  ASSUME NEW w, CurrentFacts(w), UNCHANGED <<tree, edits>>
  PROVE  \A f \in Files : /\ w.hashes[f] <= edits' + 1
                          /\ w.hashes[f] = tree'[f] => w.facts[f] = tree'[f]
                          /\ w.hashes[f] = 0 => w.facts[f] = 0
  BY DEF CurrentFacts

\* A run that moves to a state with an inventory no newer than the last edit.
LEMMA NothingNewerGoto ==
  ASSUME FactsInv, NEW r \in Runs, NEW s, Goto(r, s), UNCHANGED <<tree, edits>>,
         \A f \in Files : s.hash[f] <= edits + 1,
         s.pc \in {"begun", "hashed"} => \A f \in Files : s.view[f] = Unread
  PROVE  NothingNewer'
  <1>1. run' = [run EXCEPT ![r] = s] /\ run \in [Runs -> RunState]
    BY DEF Goto, FactsInv, TypeInv, TypeOK
  <1>2. ASSUME NEW q \in Runs, NEW f \in Files
        PROVE  /\ run'[q].hash[f] <= edits + 1
               /\ run'[q].pc \in {"begun", "hashed"} => run'[q].view[f] = Unread
    <2>1. CASE q = r
      BY <1>1, <2>1
    <2>2. CASE q # r
      BY <1>1, <2>2 DEF FactsInv, NothingNewer
    <2> QED BY <2>1, <2>2
  <1> QED BY <1>2 DEF FactsInv, NothingNewer

LEMMA IdleRunIsOld ==
  ASSUME FactsInv
  PROVE  /\ \A f \in Files : IdleRun.hash[f] <= edits + 1
         /\ IdleRun.pc = "idle"
  BY SizesAssumption DEF FactsInv, TypeInv, TypeOK, IdleRun, Absent

LEMMA AbandonFacts ==
  ASSUME FactsInv, NEW r \in Runs, Abandon(r), UNCHANGED <<tree, edits>>
  PROVE  NothingNewer' /\ CurrentFacts(db)' /\ CurrentFacts(work)'
  <1>1. NothingNewer'
    BY IdleRunIsOld, NothingNewerGoto DEF Abandon, Goto
  <1>2. db' = db /\ (work' = work \/ work' = db)
    BY DEF Abandon
  <1> QED BY <1>1, <1>2, CurrentFactsStable DEF FactsInv, CurrentFacts

\* The scan: a changed file gets the facts of the content it has now, which
\* is not older than the hash of the inventory.
LEMMA ExtractFacts ==
  ASSUME FactsInv, NEW r \in Runs, Extract(r)
  PROVE  CurrentFacts(work)'
  <1> DEFINE s == run[r]
  <1>1. work \in Index /\ s \in RunState /\ tree \in Trees
    BY DEF FactsInv, TypeInv, TypeOK
  <1>2. work'.hashes = NewHashes(s) /\ work'.facts = NewFacts(s)
        /\ UNCHANGED <<tree, edits>>
    BY <1>1 DEF Extract, Write, Index
  <1>3. ASSUME NEW f \in Files
        PROVE  /\ NewHashes(s)[f] <= edits + 1
               /\ NewHashes(s)[f] = tree[f] => NewFacts(s)[f] = tree[f]
               /\ NewHashes(s)[f] = 0 => NewFacts(s)[f] = 0
    <2>1. s.view[f] = Unread /\ s.hash[f] <= edits + 1
      BY DEF Extract, FactsInv, NothingNewer
    <2>2. Read(s, f) = tree[f]
      BY <2>1 DEF Read
    <2>3. CASE f \in Changed(s)
      <3>1. NewHashes(s)[f] = s.hash[f] /\ s.hash[f] # 0 /\ NewFacts(s)[f] = tree[f]
        BY <2>2, <2>3 DEF NewHashes, NewFacts, Changed, Present
      <3> QED BY <2>1, <3>1
    <2>4. CASE f \in Deleted(s)
      <3>1. f \notin Changed(s) /\ s.hash[f] = 0
        BY <2>4 DEF Deleted, Changed, Present
      <3>2. NewHashes(s)[f] = 0 /\ NewFacts(s)[f] = 0
        BY <2>4, <3>1 DEF NewHashes, NewFacts
      <3> QED BY <2>1, <3>1, <3>2
    <2>5. CASE f \notin Changed(s) /\ f \notin Deleted(s)
      <3>1. NewHashes(s)[f] = work.hashes[f] /\ NewFacts(s)[f] = work.facts[f]
        BY <2>5 DEF NewHashes, NewFacts
      <3> QED BY <3>1 DEF FactsInv, CurrentFacts
    <2> QED BY <2>3, <2>4, <2>5
  <1> QED BY <1>2, <1>3 DEF CurrentFacts

\* A step of a process that keeps the index rows and its own inventory.
LEMMA RowsKept ==
  ASSUME FactsInv, NEW r \in Runs, NEW s, Goto(r, s),
         s.hash = run[r].hash, s.pc \notin {"begun", "hashed"},
         UNCHANGED <<tree, edits>>,
         work'.hashes = work.hashes, work'.facts = work.facts,
         db' = db \/ db' = work'
  PROVE  NothingNewer' /\ CurrentFacts(db)' /\ CurrentFacts(work)'
  <1>1. NothingNewer'
    BY NothingNewerGoto DEF FactsInv, NothingNewer
  <1>2. CurrentFacts(work')
    BY CurrentFactsKept DEF FactsInv
  <1>3. CurrentFacts(db')
    BY <1>2 DEF FactsInv
  <1> QED BY <1>1, <1>2, <1>3 DEF CurrentFacts

LEMMA StageStartRows ==
  ASSUME TypeInv, NEW r \in Runs, StageStart(r)
  PROVE  /\ work'.hashes = work.hashes /\ work'.facts = work.facts
         /\ UNCHANGED <<db, lock, tree, edits, troubles>>
         /\ \E s \in RunState : /\ Goto(r, s) /\ s.hash = run[r].hash
                                /\ s.pc \in {"engine", "final"}
  <1>1. InProgress(run[r]) \in Index
        /\ InProgress(run[r]).hashes = work.hashes
        /\ InProgress(run[r]).facts = work.facts
    BY InProgressType DEF InProgress, TypeInv, TypeOK, Index
  <1>2. work'.hashes = work.hashes /\ work'.facts = work.facts
        /\ UNCHANGED <<db, lock, tree, edits, troubles>>
    BY <1>1 DEF StageStart, Write, Index
  <1>3. run'[r].hash = run[r].hash /\ run'[r].pc \in {"engine", "final"}
    BY DEF StageStart, Goto, TypeInv, TypeOK, RunState
  <1>4. Goto(r, run'[r]) /\ run'[r] \in RunState
    <2>1. run' \in [Runs -> RunState]
      BY StageStartType DEF TypeInv, TypeOK
    <2> QED BY <2>1 DEF StageStart, Goto, TypeInv, TypeOK
  <1> QED BY <1>2, <1>3, <1>4

LEMMA FactsAdvance ==
  ASSUME FactsInv, NEW r \in Runs, Advance(r)
  PROVE  NothingNewer' /\ CurrentFacts(db)' /\ CurrentFacts(work)'
  <1>0. TypeInv /\ work \in Index /\ run \in [Runs -> RunState] /\ run[r] \in RunState
    BY DEF FactsInv, TypeInv, TypeOK
  <1>1. CASE Inventory(r)
    <2> DEFINE s == run[r]
               t == [s EXCEPT !.pc = "hashed", !.hash = tree,
                              !.joined = IF s.resume THEN work.flows ELSE {},
                              !.cursor = IF s.resume THEN work.joinDone ELSE 0]
    <2>1. Goto(r, t) /\ s.pc = "begun" /\ UNCHANGED <<tree, edits, db, work>>
      BY <1>1 DEF Inventory
    <2>2. t.hash = tree /\ t.view = s.view
      BY <1>0 DEF RunState
    <2> HIDE DEF t
    <2>3. NothingNewer'
      BY <2>1, <2>2, NothingNewerGoto DEF FactsInv, NothingNewer
    <2> QED BY <2>1, <2>3 DEF FactsInv, CurrentFacts
  <1>2. CASE Refuse(r) \/ LockLost(r)
    BY <1>2, AbandonFacts DEF Refuse, LockLost
  <1>3. CASE Extract(r)
    <2> DEFINE s == run[r]
               t == [s EXCEPT
                       !.pc = IF StageNeeded(s) THEN "flows" ELSE "unchanged",
                       !.view = [f \in Files |-> IF f \in Changed(s) THEN Read(s, f)
                                                                     ELSE @[f]]]
    <2>1. Goto(r, t) /\ UNCHANGED <<tree, edits, db>>
      BY <1>3 DEF Extract, Write
    <2>2. t.hash = s.hash /\ t.pc \in {"flows", "unchanged"}
      BY <1>0 DEF RunState
    <2> HIDE DEF t
    <2>3. NothingNewer'
      BY <2>1, <2>2, NothingNewerGoto DEF FactsInv, NothingNewer
    <2> QED BY <1>3, <2>1, <2>3, ExtractFacts DEF FactsInv, CurrentFacts
  <1>4. CASE Skip(r)
    <2>1. NothingNewer'
      BY <1>4, IdleRunIsOld, NothingNewerGoto DEF Skip
    <2>2. db' = work /\ work' = work /\ UNCHANGED <<tree, edits>>
      BY <1>4 DEF Skip, Commit
    <2> QED BY <2>1, <2>2 DEF FactsInv, CurrentFacts
  <1>5. CASE StageStart(r)
    BY <1>0, <1>5, StageStartRows, RowsKept
  <1>6. ASSUME NEW calls \in {"full", "cut"}, NEW timedOut \in BOOLEAN,
               CallGraphCheckpoint(r, calls, timedOut)
        PROVE  NothingNewer' /\ CurrentFacts(db)' /\ CurrentFacts(work)'
    <2> DEFINE t == [run[r] EXCEPT !.pc = "join", !.calls = calls, !.timedOut = timedOut]
    <2>1. Goto(r, t) /\ UNCHANGED <<tree, edits>> /\ db' = work'
          /\ work'.hashes = work.hashes /\ work'.facts = work.facts
      BY <1>0, <1>6 DEF CallGraphCheckpoint, Commit, Index
    <2>2. t.hash = run[r].hash /\ t.pc = "join"
      BY <1>0 DEF RunState
    <2> HIDE DEF t
    <2> QED BY <2>1, <2>2, RowsKept
  <1>7. ASSUME NEW k \in Files, JoinCheckpoint(r, k)
        PROVE  NothingNewer' /\ CurrentFacts(db)' /\ CurrentFacts(work)'
    <2> DEFINE s == run[r]
               joined == s.joined \cup JoinFlows(s.view, s.cursor, k, s.sig, s.calls)
               t == [s EXCEPT !.joined = joined, !.cursor = k]
    <2>1. Goto(r, t) /\ UNCHANGED <<tree, edits>> /\ db' = work' /\ s.pc = "join"
          /\ work'.hashes = work.hashes /\ work'.facts = work.facts
      BY <1>0, <1>7 DEF JoinCheckpoint, Provisional, Commit, Index
    <2> HIDE DEF joined
    <2>2. t.hash = s.hash /\ t.pc = s.pc
      BY <1>0 DEF RunState
    <2> HIDE DEF t
    <2> QED BY <2>1, <2>2, RowsKept
  <1>8. ASSUME NEW kept \in SUBSET run[r].joined, ProgressCheckpoint(r, kept)
        PROVE  NothingNewer' /\ CurrentFacts(db)' /\ CurrentFacts(work)'
    <2> DEFINE s == run[r]
               t == [s EXCEPT !.page = @ + 1]
    <2>1. Goto(r, t) /\ UNCHANGED <<tree, edits>> /\ db' = work' /\ s.pc = "join"
          /\ work'.hashes = work.hashes /\ work'.facts = work.facts
      BY <1>0, <1>8 DEF ProgressCheckpoint, Provisional, Commit, Index
    <2>2. t.hash = s.hash /\ t.pc = s.pc
      BY <1>0 DEF RunState
    <2> HIDE DEF t
    <2> QED BY <2>1, <2>2, RowsKept
  <1>9. CASE InputOutputCheckpoint(r)
    <2> DEFINE t == [run[r] EXCEPT !.pc = "final"]
    <2>1. Goto(r, t) /\ UNCHANGED <<tree, edits>> /\ db' = work'
          /\ work'.hashes = work.hashes /\ work'.facts = work.facts
      BY <1>0, <1>9 DEF InputOutputCheckpoint, Commit, Index
    <2>2. t.hash = run[r].hash /\ t.pc = "final"
      BY <1>0 DEF RunState
    <2> HIDE DEF t
    <2> QED BY <2>1, <2>2, RowsKept
  <1>10. CASE Finish(r)
    <2>1. Goto(r, IdleRun) /\ UNCHANGED <<tree, edits>> /\ db' = work'
          /\ work'.hashes = work.hashes /\ work'.facts = work.facts
      BY <1>0, <1>10 DEF Finish, Commit, Index
    <2>2. NothingNewer'
      BY <2>1, IdleRunIsOld, NothingNewerGoto
    <2>3. CurrentFacts(work')
      BY <2>1, CurrentFactsKept DEF FactsInv
    <2> QED BY <2>1, <2>2, <2>3 DEF CurrentFacts
  <1>11. CASE Reopen(r)
    BY <1>11 DEF Reopen, FactsInv, NothingNewer, CurrentFacts
  <1> QED BY <1>1, <1>2, <1>3, <1>4, <1>5, <1>6, <1>7, <1>8, <1>9, <1>10, <1>11
          DEF Advance

LEMMA FactsStep ==
  ASSUME ParseBeforeInventory = FALSE, Reverts = FALSE
  PROVE  FactsInv /\ [Next]_vars => FactsInv'
  <1> SUFFICES ASSUME FactsInv, [Next]_vars PROVE FactsInv'
    OBVIOUS
  <1>1. TypeInv'
    BY TypeInvStep DEF FactsInv
  <1> SUFFICES NothingNewer' /\ CurrentFacts(db)' /\ CurrentFacts(work)'
    BY <1>1 DEF FactsInv
  <1>2. ASSUME NEW r \in Runs, NEW sig \in Signatures, NEW full \in BOOLEAN,
               NEW resume \in BOOLEAN, NEW html \in BOOLEAN,
               Begin(r, sig, full, resume, html)
        PROVE  NothingNewer' /\ CurrentFacts(db)' /\ CurrentFacts(work)'
    <2>1. PICK cached \in {{}} :
             Goto(r, [IdleRun EXCEPT
                        !.pc = "begun", !.sig = sig, !.full = full,
                        !.resume = resume, !.html = html,
                        !.view = [f \in Files |-> IF f \in cached THEN tree[f]
                                                                  ELSE Unread]])
      BY <1>2 DEF Begin
    <2> DEFINE t == [IdleRun EXCEPT
                       !.pc = "begun", !.sig = sig, !.full = full,
                       !.resume = resume, !.html = html,
                       !.view = [f \in Files |-> IF f \in cached THEN tree[f]
                                                                 ELSE Unread]]
    <2>2. t.hash = IdleRun.hash /\ \A f \in Files : t.view[f] = Unread
      BY DEF IdleRun
    <2>3. Goto(r, t)
      BY <2>1
    <2> HIDE DEF t
    <2>4. UNCHANGED <<tree, edits, db>> /\ work' = db
      BY <1>2 DEF Begin
    <2>5. NothingNewer'
      BY <2>2, <2>3, <2>4, IdleRunIsOld, NothingNewerGoto
    <2> QED BY <2>4, <2>5 DEF FactsInv, CurrentFacts
  <1>3. ASSUME NEW r \in Runs, Advance(r)
        PROVE  NothingNewer' /\ CurrentFacts(db)' /\ CurrentFacts(work)'
    BY <1>3, FactsAdvance
  <1>4. ASSUME NEW r \in Runs, Stop(r)
        PROVE  NothingNewer' /\ CurrentFacts(db)' /\ CurrentFacts(work)'
    BY <1>4, AbandonFacts DEF Stop
  <1>5. ASSUME NEW f \in Files, NEW v \in Versions, Edit(f, v)
        PROVE  NothingNewer' /\ CurrentFacts(db)' /\ CurrentFacts(work)'
    <2>1. v = 0 \/ v = edits + 2
      BY <1>5 DEF Edit
    <2>2. edits \in Nat /\ edits' = edits + 1 /\ UNCHANGED <<db, work, run>>
      BY <1>5, SizesAssumption DEF Edit, FactsInv, TypeInv, TypeOK
    <2>3. \A g \in Files : tree'[g] = IF g = f THEN v ELSE tree[g]
      BY <1>5 DEF Edit, FactsInv, TypeInv, TypeOK, Trees
    <2>4. \A g \in Files : /\ tree[g] \in Int /\ db.hashes[g] \in Int
                           /\ work.hashes[g] \in Int
      BY SizesAssumption DEF FactsInv, TypeInv, TypeOK, Index, Trees, Versions
    <2>5. \A r \in Runs, g \in Files : run[r].hash[g] \in Int
      BY SizesAssumption DEF FactsInv, TypeInv, TypeOK, RunState, Trees, Versions
    <2>6. NothingNewer'
      BY <2>1, <2>2, <2>3, <2>4, <2>5 DEF FactsInv, NothingNewer
    <2>7. CurrentFacts(db)' /\ CurrentFacts(work)'
      BY <2>1, <2>2, <2>3, <2>4 DEF FactsInv, CurrentFacts
    <2> QED BY <2>6, <2>7
  <1>6. CASE UNCHANGED vars
    BY <1>6 DEF vars, FactsInv, NothingNewer, CurrentFacts
  <1> QED BY <1>2, <1>3, <1>4, <1>5, <1>6 DEF Next

LEMMA FactsInit == Init => FactsInv
  <1> SUFFICES ASSUME Init PROVE FactsInv
    OBVIOUS
  <1>1. TypeInv
    BY TypeInvInit
  <1>2. \A f \in Files : tree[f] \in {0, 1} /\ EmptyIndex.hashes[f] = 0
                         /\ EmptyIndex.facts[f] = 0 /\ IdleRun.hash[f] = 0
    BY DEF Init, EmptyIndex, IdleRun, Absent
  <1>3. \A r \in Runs : run[r] = IdleRun
    BY DEF Init
  <1>4. NothingNewer
    BY <1>2, <1>3 DEF Init, NothingNewer, IdleRun
  <1>5. CurrentFacts(EmptyIndex)
    BY <1>2 DEF Init, CurrentFacts
  <1> QED BY <1>1, <1>4, <1>5 DEF Init, FactsInv

\* Files may be edited at any moment of any interleaving of runs: without
\* parses before the inventory and without contents that come back, a hash
\* that matches its file never hides facts of another content.
THEOREM FactsCurrentUnderEdits ==
  ASSUME ParseBeforeInventory = FALSE, Reverts = FALSE
  PROVE  Spec => []FactsAreCurrent
  <1>1. FactsInv => FactsAreCurrent
    BY DEF FactsInv, CurrentFacts, FactsAreCurrent
  <1>2. FactsInv /\ [Next]_vars => FactsInv'
    BY FactsStep
  <1> QED BY <1>1, <1>2, FactsInit, PTL DEF Spec
-----------------------------------------------------------------------------
(* Deleted files: no committed flow goes through a file the inventory does *)
(* not have.                                                               *)

OneProcess == \A p, q \in Runs : p = q

Holding == {"begun", "hashed", "unchanged", "flows", "engine"}

\* Who holds the lock, and whose inventory an index holds.
InventoryFits(r, s) ==
    /\ s.pc \in Holding => lock = r
    /\ s.pc \in {"unchanged", "flows", "engine", "join", "final"} /\ lock = r =>
          work.hashes = s.hash
    /\ s.pc \in {"join", "final"} /\ lock # r => db.hashes = s.hash

\* Runs that overlap took the same inventory.
SameFiles ==
    OneProcess \/ \A r \in Runs : run[r].pc \notin {"idle", "begun"} => run[r].hash = tree

\* What a run has read and joined stays within its inventory.
RunIsWithin(s) ==
    /\ s.pc \notin {"idle", "begun"} => \A w \in s.joined : WithinTree(w, s.hash)
    /\ s.pc \in {"engine", "join", "final"} => Present(s.view) \subseteq Present(s.hash)

RowsWithin(w) == \A x \in w.flows : WithinTree(x, w.hashes)

\* The transaction whose hashes are new keeps the flows of deleted files
\* until the stage starts; it is never committed there.
BeforeStage == \E r \in Runs : run[r].pc = "flows"

DeletedInv ==
    /\ TypeInv /\ SameFiles
    /\ \A r \in Runs : InventoryFits(r, run[r]) /\ RunIsWithin(run[r])
    /\ RowsWithin(db)
    /\ BeforeStage \/ RowsWithin(work)

\* What a step leaves to show.
DeletedGoal ==
    /\ \A r \in Runs : InventoryFits(r, run[r]) /\ RunIsWithin(run[r])
    /\ RowsWithin(db)
    /\ BeforeStage \/ RowsWithin(work)

LEMMA AstFlowsWithin ==
  ASSUME NEW t, NEW u, Present(t) \subseteq Present(u)
  PROVE  \A w \in AstFlows(t) : WithinTree(w, u)
  BY DEF AstFlows, WithinTree, Present

LEMMA JoinFlowsWithin ==
  ASSUME NEW t, NEW u, NEW done, NEW upto, NEW sig, NEW calls,
         Present(t) \subseteq Present(u)
  PROVE  \A w \in JoinFlows(t, done, upto, sig, calls) : WithinTree(w, u)
  BY DEF JoinFlows, WithinTree

\* Hashing, purging and recording leave exactly the run's inventory.
LEMMA NewHashesAreTheInventory ==
  ASSUME TypeInv, NEW r \in Runs
  PROVE  NewHashes(run[r]) = run[r].hash
  <1> DEFINE s == run[r]
  <1>1. s.hash \in Trees /\ work.hashes \in Trees
    BY DEF TypeInv, TypeOK, RunState, Index
  <1>2. ASSUME NEW f \in Files PROVE NewHashes(s)[f] = s.hash[f]
    <2>1. CASE f \in Changed(s) \cup Deleted(s)
      BY <2>1 DEF NewHashes
    <2>2. CASE f \notin Changed(s) \cup Deleted(s)
      BY <1>1, <2>2 DEF NewHashes, Changed, Deleted, Present
    <2> QED BY <2>1, <2>2
  <1> QED BY <1>1, <1>2 DEF NewHashes, Trees

LEMMA IdleWithin == \A r \in Runs : InventoryFits(r, IdleRun) /\ RunIsWithin(IdleRun)
  BY DEF InventoryFits, RunIsWithin, IdleRun, Holding

LEMMA CommitWithin ==
  ASSUME DeletedInv, NEW r \in Runs, NEW s, NEW w, Goto(r, s), Commit(w),
         UNCHANGED tree, lock = r, s.pc \in {"idle", "join", "final"},
         run[r].pc \in {"unchanged", "engine", "join", "final"},
         s.pc # "idle" => s.hash = run[r].hash,
         w.hashes = work.hashes, RunIsWithin(s), RowsWithin(w)
  PROVE  DeletedGoal'
  <1>1. \A q \in Runs : run'[q] = IF q = r THEN s ELSE run[q]
    BY DEF Goto, DeletedInv, TypeInv, TypeOK
  <1>2. w.hashes = run[r].hash
    BY DEF DeletedInv, InventoryFits
  <1>3. ASSUME NEW q \in Runs PROVE InventoryFits(q, run[q])'
    <2>1. CASE q = r
      BY <1>1, <1>2, <2>1 DEF InventoryFits, Commit, Holding
    <2>2. CASE q # r
      <3>1. run'[q] = run[q] /\ run[q].pc \notin Holding
        BY <1>1, <2>2 DEF DeletedInv, InventoryFits
      <3>2. run[q].pc \in {"join", "final"} => run[q].hash = run[r].hash
        BY <2>2 DEF DeletedInv, SameFiles, OneProcess
      <3> QED BY <1>2, <3>1, <3>2 DEF InventoryFits, Commit, Holding
    <2> QED BY <2>1, <2>2
  <1>4. \A q \in Runs : RunIsWithin(run'[q])
    BY <1>1 DEF DeletedInv
  <1>5. RowsWithin(db)' /\ RowsWithin(work)'
    BY DEF RowsWithin, Commit
  <1> QED BY <1>3, <1>4, <1>5 DEF DeletedGoal, RunIsWithin

LEMMA AbandonWithin ==
  ASSUME DeletedInv, NEW r \in Runs, Abandon(r), UNCHANGED tree
  PROVE  DeletedGoal'
  <1>1. \A q \in Runs : run'[q] = IF q = r THEN IdleRun ELSE run[q]
    BY DEF Abandon, DeletedInv, TypeInv, TypeOK
  <1>2. \A q \in Runs : RunIsWithin(run'[q])
    BY <1>1, IdleWithin DEF DeletedInv
  <1>3. ASSUME NEW q \in Runs PROVE InventoryFits(q, run[q])'
    <2>1. CASE q = r
      BY <1>1, <2>1 DEF InventoryFits, IdleRun, Holding
    <2>2. CASE q # r
      <3>1. run'[q] = run[q] /\ UNCHANGED db
        BY <1>1, <2>2 DEF Abandon
      <3> QED BY <2>2, <3>1, NamesAssumption
              DEF DeletedInv, InventoryFits, Abandon, Holding
    <2> QED BY <2>1, <2>2
  <1>4. RowsWithin(db)' /\ (BeforeStage \/ RowsWithin(work))'
    <2>1. CASE lock = r
      BY <2>1 DEF Abandon, DeletedInv, RowsWithin
    <2>2. CASE lock # r
      <3>1. BeforeStage => BeforeStage'
        BY <1>1, <2>2 DEF BeforeStage, DeletedInv, InventoryFits, Holding
      <3> QED BY <2>2, <3>1 DEF Abandon, DeletedInv, RowsWithin
    <2> QED BY <2>1, <2>2
  <1> QED BY <1>2, <1>3, <1>4 DEF DeletedGoal, RunIsWithin

\* A step of the lock holder inside its transaction.
LEMMA InsideWithin ==
  ASSUME DeletedInv, NEW r \in Runs, NEW s, Goto(r, s), UNCHANGED <<tree, db, lock>>,
         run[r].pc \in Holding, RunIsWithin(s),
         s.pc \in {"unchanged", "flows", "engine", "join", "final"} =>
            work'.hashes = s.hash,
         s.pc # "flows" => RowsWithin(work')
  PROVE  DeletedGoal'
  <1>0. lock = r
    BY DEF DeletedInv, InventoryFits
  <1>1. \A q \in Runs : run'[q] = IF q = r THEN s ELSE run[q]
    BY DEF Goto, DeletedInv, TypeInv, TypeOK
  <1>2. ASSUME NEW q \in Runs PROVE InventoryFits(q, run[q])'
    <2>1. CASE q = r
      BY <1>0, <1>1, <2>1 DEF InventoryFits
    <2>2. CASE q # r
      BY <1>0, <1>1, <2>2 DEF DeletedInv, InventoryFits
    <2> QED BY <2>1, <2>2
  <1>3. \A q \in Runs : RunIsWithin(run'[q])
    BY <1>1 DEF DeletedInv
  <1>4. BeforeStage' \/ RowsWithin(work')
    BY <1>1 DEF BeforeStage
  <1>5. RowsWithin(db')
    BY DEF DeletedInv
  <1> QED BY <1>2, <1>3, <1>4, <1>5 DEF DeletedGoal, RunIsWithin, RowsWithin

LEMMA StageStartWithin ==
  ASSUME DeletedInv, NEW r \in Runs, StageStart(r)
  PROVE  DeletedGoal'
  <1> DEFINE s == run[r]
             seen == [f \in Files |-> IF s.hash[f] = 0 THEN 0 ELSE Read(s, f)]
             t == run'[r]
  <1>1. /\ s \in RunState /\ work \in Index /\ s.pc = "flows" /\ s.pc \in Holding
        /\ work.hashes = s.hash /\ \A w \in s.joined : WithinTree(w, s.hash)
    BY DEF DeletedInv, InventoryFits, RunIsWithin, TypeInv, TypeOK, StageStart, Holding
  <1>2. Goto(r, t) /\ UNCHANGED <<tree, db, lock>>
    BY StageStartRows DEF Goto, DeletedInv, TypeInv, TypeOK
  <1>3. /\ InProgress(s) \in Index /\ InProgress(s).hashes = work.hashes
        /\ InProgress(s).flows = {w \in work.flows : WithinTree(w, s.hash)}
    BY <1>1, InProgressType DEF InProgress, Index, DeletedInv, WithinTree
  <1>4. work'.hashes = s.hash /\ work'.flows = {w \in work.flows : WithinTree(w, s.hash)}
    BY <1>1, <1>3 DEF StageStart, Write, Index
  <1>5. Present(seen) \subseteq Present(s.hash)
    BY DEF Present
  <1>6. t.view = seen /\ t.hash = s.hash /\ t.joined \in {s.joined, {}}
        /\ t.pc \in {"engine", "final"}
    BY <1>1 DEF StageStart, Goto, DeletedInv, TypeInv, TypeOK, RunState
  <1> HIDE DEF t, seen
  <1>7. RunIsWithin(t) /\ RowsWithin(work')
    BY <1>1, <1>4, <1>5, <1>6 DEF RunIsWithin, RowsWithin
  <1> QED BY <1>1, <1>2, <1>4, <1>6, <1>7, InsideWithin

LEMMA AdvanceWithin ==
  ASSUME DeletedInv, NEW r \in Runs, Advance(r)
  PROVE  DeletedGoal'
  <1> DEFINE s == run[r]
  <1>0. /\ s \in RunState /\ work \in Index /\ InventoryFits(r, s) /\ RunIsWithin(s)
    BY DEF DeletedInv, TypeInv, TypeOK
  <1>1. CASE Inventory(r)
    <2> DEFINE t == [s EXCEPT !.pc = "hashed", !.hash = tree,
                              !.joined = IF s.resume THEN work.flows ELSE {},
                              !.cursor = IF s.resume THEN work.joinDone ELSE 0]
    <2>1. /\ Goto(r, t) /\ s.pc = "begun" /\ UNCHANGED <<tree, db, lock, work>>
          /\ s.resume => tree = work.hashes
      BY <1>1 DEF Inventory, ResumeAccepted
    <2>2. lock = r /\ RowsWithin(work)
      BY <1>0, <2>1 DEF DeletedInv, InventoryFits, BeforeStage, Holding
    <2>3. t.pc = "hashed" /\ t.hash = tree /\ t.joined = IF s.resume THEN work.flows ELSE {}
      BY <1>0 DEF RunState
    <2> HIDE DEF t
    <2>4. RunIsWithin(t) /\ RowsWithin(work')
      BY <2>1, <2>2, <2>3 DEF RunIsWithin, RowsWithin
    <2> QED BY <2>1, <2>3, <2>4, InsideWithin DEF Holding
  <1>2. CASE Refuse(r) \/ LockLost(r)
    BY <1>2, AbandonWithin DEF Refuse, LockLost
  <1>3. CASE Extract(r)
    <2> DEFINE v == [f \in Files |-> IF f \in Changed(s) THEN Read(s, f) ELSE s.view[f]]
               t == [s EXCEPT !.pc = IF StageNeeded(s) THEN "flows" ELSE "unchanged",
                              !.view = v]
    <2>1. /\ Goto(r, t) /\ s.pc = "hashed" /\ UNCHANGED <<tree, db, lock>>
          /\ work'.hashes = NewHashes(s) /\ work'.flows = work.flows
      BY <1>0, <1>3 DEF Extract, Write, Index
    <2>2. NewHashes(s) = s.hash
      BY NewHashesAreTheInventory DEF DeletedInv
    <2> HIDE DEF v
    <2>3. /\ t.pc = IF StageNeeded(s) THEN "flows" ELSE "unchanged"
          /\ t.hash = s.hash /\ t.joined = s.joined
      BY <1>0 DEF RunState
    <2> HIDE DEF t
    <2>4. RunIsWithin(t)
      BY <1>0, <2>1, <2>3 DEF RunIsWithin
    <2>5. ASSUME t.pc # "flows" PROVE RowsWithin(work')
      <3>1. lock = r /\ RowsWithin(work)
        BY <1>0, <2>1 DEF DeletedInv, InventoryFits, BeforeStage, Holding
      <3>2. Changed(s) = {} /\ Deleted(s) = {}
        BY <2>3, <2>5 DEF StageNeeded
      <3>3. NewHashes(s) = work.hashes
        BY <1>0, <3>2 DEF NewHashes, Index, Trees
      <3> QED BY <2>1, <3>1, <3>3 DEF RowsWithin
    <2> QED BY <2>1, <2>2, <2>3, <2>4, <2>5, InsideWithin DEF Holding
  <1>4. CASE Skip(r)
    <2>1. s.pc = "unchanged" /\ Goto(r, IdleRun) /\ Commit(work) /\ UNCHANGED tree
      BY <1>4 DEF Skip
    <2>2. lock = r /\ RowsWithin(work)
      BY <1>0, <2>1 DEF DeletedInv, InventoryFits, BeforeStage, Holding
    <2>3. IdleRun.pc = "idle" /\ RunIsWithin(IdleRun)
      BY IdleWithin DEF IdleRun
    <2> QED BY <2>1, <2>2, <2>3, CommitWithin
  <1>5. CASE StageStart(r)
    BY <1>5, StageStartWithin
  <1>6. ASSUME NEW calls \in {"full", "cut"}, NEW timedOut \in BOOLEAN,
               CallGraphCheckpoint(r, calls, timedOut)
        PROVE  DeletedGoal'
    <2> DEFINE w == [work EXCEPT !.callGraph = IF timedOut THEN "partial" ELSE "complete"]
               t == [s EXCEPT !.pc = "join", !.calls = calls, !.timedOut = timedOut]
    <2>1. s.pc = "engine" /\ Goto(r, t) /\ Commit(w) /\ UNCHANGED tree
      BY <1>6 DEF CallGraphCheckpoint
    <2>2. lock = r /\ RowsWithin(work)
      BY <1>0, <2>1 DEF DeletedInv, InventoryFits, BeforeStage, Holding
    <2>3. w.hashes = work.hashes /\ w.flows = work.flows
      BY <1>0 DEF Index
    <2>4. t.pc = "join" /\ t.view = s.view /\ t.hash = s.hash /\ t.joined = s.joined
      BY <1>0 DEF RunState
    <2> HIDE DEF t, w
    <2>5. RunIsWithin(t) /\ RowsWithin(w)
      BY <1>0, <2>1, <2>2, <2>3, <2>4 DEF RunIsWithin, RowsWithin
    <2> QED BY <2>1, <2>2, <2>3, <2>4, <2>5, CommitWithin
  <1>7. ASSUME NEW k \in Files, JoinCheckpoint(r, k)
        PROVE  DeletedGoal'
    <2> DEFINE joined == s.joined \cup JoinFlows(s.view, s.cursor, k, s.sig, s.calls)
               w == [Provisional(AstFlows(s.view) \cup joined) EXCEPT !.joinDone = k]
               t == [s EXCEPT !.joined = joined, !.cursor = k]
    <2>1. s.pc = "join" /\ lock = r /\ Goto(r, t) /\ Commit(w) /\ UNCHANGED tree
      BY <1>7 DEF JoinCheckpoint
    <2>2. work.hashes = s.hash /\ Present(s.view) \subseteq Present(s.hash)
          /\ \A x \in s.joined : WithinTree(x, s.hash)
      BY <1>0, <2>1 DEF InventoryFits, RunIsWithin
    <2>3. \A x \in AstFlows(s.view) \cup joined : WithinTree(x, s.hash)
      BY <2>2, AstFlowsWithin, JoinFlowsWithin
    <2> HIDE DEF joined
    <2>4. w.hashes = work.hashes /\ w.flows = AstFlows(s.view) \cup joined
      BY <1>0 DEF Index, Provisional
    <2>5. t.pc = "join" /\ t.view = s.view /\ t.hash = s.hash /\ t.joined = joined
      BY <1>0, <2>1 DEF RunState
    <2> HIDE DEF t, w
    <2>6. RunIsWithin(t) /\ RowsWithin(w)
      BY <2>2, <2>3, <2>4, <2>5 DEF RunIsWithin, RowsWithin
    <2> QED BY <2>1, <2>4, <2>5, <2>6, CommitWithin
  <1>8. ASSUME NEW kept \in SUBSET run[r].joined, ProgressCheckpoint(r, kept)
        PROVE  DeletedGoal'
    <2> DEFINE w == Provisional(AstFlows(s.view) \cup kept)
               t == [s EXCEPT !.page = @ + 1]
    <2>1. s.pc = "join" /\ lock = r /\ Goto(r, t) /\ Commit(w) /\ UNCHANGED tree
      BY <1>8 DEF ProgressCheckpoint
    <2>2. work.hashes = s.hash /\ Present(s.view) \subseteq Present(s.hash)
          /\ \A x \in s.joined : WithinTree(x, s.hash)
      BY <1>0, <2>1 DEF InventoryFits, RunIsWithin
    <2>3. w.hashes = work.hashes /\ w.flows = AstFlows(s.view) \cup kept
      BY <1>0 DEF Index, Provisional
    <2>4. t.pc = "join" /\ t.view = s.view /\ t.hash = s.hash /\ t.joined = s.joined
      BY <1>0, <2>1 DEF RunState
    <2> HIDE DEF t, w
    <2>5. RunIsWithin(t) /\ RowsWithin(w)
      BY <2>2, <2>3, <2>4, AstFlowsWithin DEF RunIsWithin, RowsWithin
    <2> QED BY <2>1, <2>3, <2>4, <2>5, CommitWithin
  <1>9. CASE InputOutputCheckpoint(r)
    <2> DEFINE w == [work EXCEPT
                       !.flows = AstFlows(s.view) \cup s.joined,
                       !.flowSig = NoSig,
                       !.joinDone = Entries(s.view),
                       !.inputOutput = IF s.timedOut THEN "partial" ELSE "complete"]
               t == [s EXCEPT !.pc = "final"]
    <2>1. s.pc = "join" /\ lock = r /\ Goto(r, t) /\ Commit(w) /\ UNCHANGED tree
      BY <1>9 DEF InputOutputCheckpoint
    <2>2. work.hashes = s.hash /\ Present(s.view) \subseteq Present(s.hash)
          /\ \A x \in s.joined : WithinTree(x, s.hash)
      BY <1>0, <2>1 DEF InventoryFits, RunIsWithin
    <2>3. w.hashes = work.hashes /\ w.flows = AstFlows(s.view) \cup s.joined
      BY <1>0 DEF Index
    <2>4. t.pc = "final" /\ t.view = s.view /\ t.hash = s.hash /\ t.joined = s.joined
      BY <1>0, <2>1 DEF RunState
    <2> HIDE DEF t, w
    <2>5. RunIsWithin(t) /\ RowsWithin(w)
      BY <2>2, <2>3, <2>4, AstFlowsWithin DEF RunIsWithin, RowsWithin
    <2> QED BY <2>1, <2>3, <2>4, <2>5, CommitWithin
  <1>10. CASE Finish(r)
    <2> DEFINE w == [work EXCEPT
                       !.flows    = AstFlows(s.view) \cup s.joined,
                       !.flowSig  = IF s.timedOut THEN NoSig ELSE s.sig,
                       !.status   = IF s.timedOut THEN "partial" ELSE "complete",
                       !.joinSig  = NoSig,
                       !.joinDone = 0]
    <2>1. s.pc = "final" /\ lock = r /\ Goto(r, IdleRun) /\ Commit(w) /\ UNCHANGED tree
      BY <1>10 DEF Finish
    <2>2. work.hashes = s.hash /\ Present(s.view) \subseteq Present(s.hash)
          /\ \A x \in s.joined : WithinTree(x, s.hash)
      BY <1>0, <2>1 DEF InventoryFits, RunIsWithin
    <2>3. w.hashes = work.hashes /\ w.flows = AstFlows(s.view) \cup s.joined
      BY <1>0 DEF Index
    <2> HIDE DEF w
    <2>4. RowsWithin(w) /\ RunIsWithin(IdleRun) /\ IdleRun.pc = "idle"
      BY <2>2, <2>3, AstFlowsWithin, IdleWithin DEF RowsWithin, IdleRun
    <2> QED BY <2>1, <2>3, <2>4, CommitWithin
  <1>11. CASE Reopen(r)
    <2>1. /\ lock = NoRun /\ s.pc \in {"join", "final"}
          /\ lock' = r /\ work' = db /\ UNCHANGED <<tree, db, run>>
      BY <1>11 DEF Reopen
    <2>2. \A q \in Runs : q # NoRun /\ InventoryFits(q, run[q])
      BY NamesAssumption DEF DeletedInv
    <2>3. \A q \in Runs : InventoryFits(q, run[q])'
      BY <2>1, <2>2 DEF InventoryFits, Holding
    <2> QED BY <2>1, <2>3 DEF DeletedInv, DeletedGoal, RunIsWithin, RowsWithin
  <1> QED BY <1>1, <1>2, <1>3, <1>4, <1>5, <1>6, <1>7, <1>8, <1>9, <1>10, <1>11
          DEF Advance

LEMMA DeletedStep ==
  ASSUME OneProcess \/ EditsDuringRuns = FALSE
  PROVE  DeletedInv /\ [Next]_vars => DeletedInv'
  <1> SUFFICES ASSUME DeletedInv, [Next]_vars PROVE DeletedInv'
    OBVIOUS
  <1>1. TypeInv'
    BY TypeInvStep DEF DeletedInv
  <1>0. run \in [Runs -> RunState]
    BY DEF DeletedInv, TypeInv, TypeOK
  <1>2. SameFiles'
    <2>1. CASE OneProcess
      BY <2>1 DEF SameFiles, OneProcess
    <2>2. CASE ~OneProcess /\ EditsDuringRuns = FALSE
      <3> DEFINE Fits(q) == run'[q].pc \notin {"idle", "begun"} => run'[q].hash = tree'
      <3>1. \A q \in Runs : run[q].pc \notin {"idle", "begun"} => run[q].hash = tree
        BY <2>2 DEF DeletedInv, SameFiles
      <3>2. ASSUME NEW r \in Runs, Advance(r)
            PROVE  \A q \in Runs : Fits(q)
        <4>0. run[r] \in RunState
          BY <1>0
        <4>1. CASE Inventory(r)
          BY <1>0, <3>1, <4>0, <4>1 DEF Inventory, Goto, RunState
        <4>9. CASE Refuse(r) \/ LockLost(r)
          BY <1>0, <3>1, <4>9 DEF Refuse, LockLost, Abandon, IdleRun
        <4>10. CASE Reopen(r)
          BY <3>1, <4>10 DEF Reopen
        <4>2. CASE Extract(r)
          BY <1>0, <3>1, <4>0, <4>2 DEF Extract, Goto, RunState
        <4>3. CASE Skip(r) \/ Finish(r)
          BY <1>0, <3>1, <4>3 DEF Skip, Finish, Goto, IdleRun
        <4>4. CASE StageStart(r)
          <5>1. run'[r].hash = run[r].hash /\ run[r].pc = "flows" /\ UNCHANGED tree
                /\ \A q \in Runs : q # r => run'[q] = run[q]
            BY <1>0, <4>0, <4>4 DEF StageStart, Goto, RunState
          <5> QED BY <3>1, <5>1
        <4>5. ASSUME NEW calls \in {"full", "cut"}, NEW timedOut \in BOOLEAN,
                     CallGraphCheckpoint(r, calls, timedOut)
              PROVE  \A q \in Runs : Fits(q)
          BY <1>0, <3>1, <4>0, <4>5 DEF CallGraphCheckpoint, Goto, RunState
        <4>6. ASSUME NEW k \in Files, JoinCheckpoint(r, k) PROVE \A q \in Runs : Fits(q)
          BY <1>0, <3>1, <4>0, <4>6 DEF JoinCheckpoint, Goto, RunState
        <4>7. ASSUME NEW kept \in SUBSET run[r].joined, ProgressCheckpoint(r, kept)
              PROVE  \A q \in Runs : Fits(q)
          BY <1>0, <3>1, <4>0, <4>7 DEF ProgressCheckpoint, Goto, RunState
        <4>8. CASE InputOutputCheckpoint(r)
          BY <1>0, <3>1, <4>0, <4>8 DEF InputOutputCheckpoint, Goto, RunState
        <4> QED BY <3>2, <4>1, <4>2, <4>3, <4>4, <4>5, <4>6, <4>7, <4>8, <4>9, <4>10
               DEF Advance
      <3>3. ASSUME NEW r \in Runs, NEW sig \in Signatures, NEW full \in BOOLEAN,
                   NEW resume \in BOOLEAN, NEW html \in BOOLEAN,
                   Begin(r, sig, full, resume, html)
            PROVE  \A q \in Runs : Fits(q)
        BY <1>0, <3>1, <3>3 DEF Begin, Goto, IdleRun
      <3>4. ASSUME NEW r \in Runs, Stop(r) PROVE \A q \in Runs : Fits(q)
        BY <1>0, <3>1, <3>4 DEF Stop, Abandon, IdleRun
      <3>5. ASSUME NEW f \in Files, NEW v \in Versions, Edit(f, v)
            PROVE  \A q \in Runs : Fits(q)
        BY <2>2, <3>5 DEF Edit, AtRest
      <3>6. ASSUME UNCHANGED vars PROVE \A q \in Runs : Fits(q)
        BY <3>1, <3>6 DEF vars
      <3> QED BY <3>2, <3>3, <3>4, <3>5, <3>6 DEF Next, SameFiles
    <2> QED BY <2>1, <2>2
  <1>3. ASSUME NEW r \in Runs, NEW sig \in Signatures, NEW full \in BOOLEAN,
               NEW resume \in BOOLEAN, NEW html \in BOOLEAN,
               Begin(r, sig, full, resume, html)
        PROVE  DeletedGoal'
    <2>1. run'[r].pc = "begun" /\ run'[r].joined = {}
          /\ \A q \in Runs : q # r => run'[q] = run[q]
      BY <1>0, <1>3 DEF Begin, Goto, IdleRun
    <2>2. lock = NoRun /\ lock' = r /\ work' = db /\ UNCHANGED <<tree, db>>
      BY <1>3 DEF Begin
    <2>3. \A q \in Runs : RunIsWithin(run'[q])
      BY <2>1 DEF DeletedInv, RunIsWithin
    <2>4. ASSUME NEW q \in Runs PROVE InventoryFits(q, run[q])'
      <3>1. CASE q = r
        BY <2>1, <2>2, <3>1 DEF InventoryFits
      <3>2. CASE q # r
        BY <2>1, <2>2, <3>2, NamesAssumption DEF DeletedInv, InventoryFits, Holding
      <3> QED BY <3>1, <3>2
    <2> QED BY <2>2, <2>3, <2>4 DEF DeletedInv, DeletedGoal, RunIsWithin, RowsWithin
  <1>4. ASSUME NEW r \in Runs, Advance(r) PROVE DeletedGoal'
    BY <1>4, AdvanceWithin
  <1>5. ASSUME NEW r \in Runs, Stop(r) PROVE DeletedGoal'
    BY <1>5, AbandonWithin DEF Stop
  <1>6. ASSUME UNCHANGED <<lock, db, work, run>> PROVE DeletedGoal'
    BY <1>6 DEF DeletedInv, DeletedGoal, InventoryFits, RunIsWithin, RowsWithin,
                BeforeStage
  <1>7. DeletedGoal'
    BY <1>3, <1>4, <1>5, <1>6 DEF Next, Edit, vars
  <1> QED BY <1>1, <1>2, <1>7 DEF DeletedInv, DeletedGoal

\* No crash, resume, timeout or progress export leaves a committed flow that
\* goes through a deleted file, provisional flows included: neither with one
\* process and edits at any moment, nor with several and edits between runs.
THEOREM NoFlowOfDeletedFiles ==
  ASSUME OneProcess \/ EditsDuringRuns = FALSE
  PROVE  Spec => []NoDeletedFileInFlows
  <1>1. Init => DeletedInv
    <2> SUFFICES ASSUME Init PROVE DeletedInv
      OBVIOUS
    <2>1. TypeInv /\ \A r \in Runs : run[r] = IdleRun
      BY TypeInvInit DEF Init
    <2>2. SameFiles
      BY <2>1 DEF SameFiles, IdleRun
    <2> QED BY <2>1, <2>2, IdleWithin DEF Init, DeletedInv, RowsWithin, EmptyIndex
  <1>2. DeletedInv => NoDeletedFileInFlows
    BY DEF DeletedInv, RowsWithin, WithinTree, NoDeletedFileInFlows
  <1> QED BY <1>1, <1>2, DeletedStep, PTL DEF Spec

-----------------------------------------------------------------------------
(* The places of the join's entries.                                       *)

LEMMA PresentFinite ==
  ASSUME NEW t
  PROVE  IsFiniteSet(Present(t)) /\ Entries(t) \in Nat
  <1>1. IsFiniteSet(Files)
    BY SizesAssumption, FS_Interval DEF Files
  <1>2. Present(t) \subseteq Files
    BY DEF Present
  <1> QED BY <1>1, <1>2, FS_Subset, FS_CardinalityType DEF Entries

\* An entry has a place between 1 and the number of entries.
LEMMA PlaceBounds ==
  ASSUME NEW t, NEW f \in Present(t)
  PROVE  Place(t, f) \in Nat /\ 0 < Place(t, f) /\ Place(t, f) <= Entries(t)
  <1> DEFINE before == {g \in Present(t) : g <= f}
  <1>1. f \in before
    BY DEF Present, Files
  <1>2. IsFiniteSet(before) /\ Cardinality(before) <= Entries(t)
    BY PresentFinite, FS_Subset DEF Entries
  <1>3. Cardinality(before) \in Nat /\ Cardinality(before) # 0
    BY <1>1, <1>2, FS_EmptySet, FS_CardinalityType
  <1> QED BY <1>2, <1>3 DEF Place

LEMMA NothingJoined ==
  ASSUME NEW t, NEW sig
  PROVE  JoinFlows(t, 0, 0, sig, "full") = {}
  BY PlaceBounds DEF JoinFlows

\* A batch continues where the join stopped.
LEMMA BatchContinues ==
  ASSUME NEW t, NEW sig, NEW m \in Nat, NEW k \in Nat, m < k
  PROVE  JoinFlows(t, 0, m, sig, "full") \cup JoinFlows(t, m, k, sig, "full")
           = JoinFlows(t, 0, k, sig, "full")
  <1>1. \A f \in Present(t) :
           (0 < Place(t, f) /\ Place(t, f) <= k)
             <=> \/ 0 < Place(t, f) /\ Place(t, f) <= m
                 \/ m < Place(t, f) /\ Place(t, f) <= k
    BY PlaceBounds
  <1> QED BY <1>1 DEF JoinFlows

\* A join that reached its last entry holds every flow.
LEMMA JoinIsComplete ==
  ASSUME NEW t, NEW sig, sig # NoEngine
  PROVE  AstFlows(t) \cup JoinFlows(t, 0, Entries(t), sig, "full") = Expected(t, sig)
  <1>1. {g \in Present(t) : 0 < Place(t, g) /\ Place(t, g) <= Entries(t)} = Present(t)
    BY PlaceBounds
  <1> QED BY <1>1 DEF JoinFlows, Expected

LEMMA NoEngineIsComplete ==
  ASSUME NEW t
  PROVE  AstFlows(t) \cup {} = Expected(t, NoEngine)
  BY DEF Expected

-----------------------------------------------------------------------------
(* The invariant                                                           *)

\* What a process knows fits the tree, which stays as it is while it runs.
RunFits(s) ==
    /\ s.pc # "idle" => /\ s.sig \in Signatures /\ s.resume = FALSE
                        /\ \A f \in Files : s.view[f] \in {Unread, tree[f]}
    /\ s.pc \in {"begun", "hashed", "unchanged", "flows", "engine"} =>
          s.joined = {} /\ s.cursor = 0 /\ s.timedOut = FALSE
    /\ s.pc \notin {"idle", "begun"} => s.hash = tree
    /\ s.pc \in {"engine", "join", "final"} => s.view = tree
    /\ s.pc = "join" /\ s.timedOut = FALSE =>
          /\ s.sig # NoEngine /\ s.calls = "full"
          /\ s.joined = JoinFlows(tree, 0, s.cursor, s.sig, "full")
    /\ s.pc = "engine" => s.sig # NoEngine
    /\ s.pc = "final" /\ s.timedOut = FALSE =>
          AstFlows(tree) \cup s.joined = Expected(tree, s.sig)

Scanned == {"unchanged", "flows", "engine", "join", "final"}

\* Who holds the lock, and whose inventory an index holds.
LockFits ==
    \A r \in Runs :
       /\ run[r].pc \in Holding => lock = r
       /\ run[r].pc \in Scanned => work.hashes = tree
       /\ run[r].pc \in {"join", "final"} /\ lock # r => db.hashes = tree

\* A signed index holds exactly the flows of its inventory.
Exact(w) == w.flowSig # NoSig => w.flows = Expected(w.hashes, w.flowSig)

ExactInv ==
    /\ TypeInv
    /\ \A r \in Runs : RunFits(run[r])
    /\ LockFits
    /\ Exact(db)
    /\ BeforeStage \/ Exact(work)

-----------------------------------------------------------------------------
(* Steps that share a shape                                                *)

LEMMA IdleFits == RunFits(IdleRun)
  BY DEF RunFits, IdleRun

LEMMA GotoFits ==
  ASSUME ExactInv, NEW r \in Runs, NEW s, Goto(r, s), UNCHANGED tree, RunFits(s)
  PROVE  /\ \A q \in Runs : RunFits(run[q])'
         /\ \A q \in Runs : run'[q] = IF q = r THEN s ELSE run[q]
  <1>1. run' = [run EXCEPT ![r] = s] /\ run \in [Runs -> RunState]
    BY DEF Goto, ExactInv, TypeInv, TypeOK
  <1>2. \A q \in Runs : run'[q] = IF q = r THEN s ELSE run[q]
    BY <1>1
  <1>3. \A q \in Runs : RunFits(run'[q])
    BY <1>2 DEF ExactInv
  <1> QED BY <1>2, <1>3 DEF RunFits

\* A commit by a run that scanned its inventory.
LEMMA CommitFits ==
  ASSUME ExactInv, NEW r \in Runs, NEW s, NEW w, Goto(r, s), Commit(w),
         UNCHANGED tree, RunFits(s), s.pc \in {"idle", "join", "final"},
         run[r].pc \in Scanned, w.hashes = tree, Exact(w),
         lock = r
  PROVE  /\ \A q \in Runs : RunFits(run[q])'
         /\ LockFits' /\ Exact(db)' /\ Exact(work)'
  <1>1. \A q \in Runs : run'[q] = IF q = r THEN s ELSE run[q]
    BY GotoFits
  <1>2. \A q \in Runs : RunFits(run[q])'
    BY GotoFits
  <1>3. ASSUME NEW q \in Runs
        PROVE  /\ run'[q].pc \in Holding => lock' = q
               /\ run'[q].pc \in Scanned => work'.hashes = tree'
               /\ run'[q].pc \in {"join", "final"} /\ lock' # q => db'.hashes = tree'
    <2>1. CASE q = r
      BY <1>1, <2>1 DEF Holding, Commit
    <2>2. CASE q # r
      <3>1. run'[q].pc \notin Holding
        BY <1>1, <2>2 DEF ExactInv, LockFits
      <3> QED BY <1>1, <3>1 DEF Commit
    <2> QED BY <2>1, <2>2
  <1>4. Exact(db') /\ Exact(work')
    BY DEF Commit
  <1> QED BY <1>2, <1>3, <1>4 DEF LockFits, Exact

LEMMA AbandonFits ==
  ASSUME ExactInv, NEW r \in Runs, Abandon(r), UNCHANGED tree
  PROVE  /\ \A q \in Runs : RunFits(run[q])'
         /\ LockFits' /\ Exact(db)' /\ (BeforeStage \/ Exact(work))'
  <1>1. \A q \in Runs : run'[q] = IF q = r THEN IdleRun ELSE run[q]
    BY IdleFits, GotoFits DEF Abandon, Goto
  <1>2. \A q \in Runs : RunFits(run[q])'
    BY IdleFits, GotoFits DEF Abandon, Goto
  <1>3. CASE lock = r
    <2>1. lock' = NoRun /\ work' = db /\ db' = db /\ NoRun # r
      BY <1>3, NamesAssumption DEF Abandon
    <2>2. \A q \in Runs : q # r => run[q].pc \notin Holding
      BY <1>3 DEF ExactInv, LockFits
    <2>3. \A q \in Runs : run'[q].pc \in Scanned =>
             q # r /\ run[q].pc \in {"join", "final"}
      BY <1>1, <2>2 DEF Scanned, Holding, IdleRun
    <2>4. \A q \in Runs : run'[q].pc \notin Holding
      BY <1>1, <2>2 DEF Holding, IdleRun
    <2>5. LockFits'
      BY <1>3, <2>1, <2>3, <2>4 DEF ExactInv, LockFits, Scanned
    <2> QED BY <1>2, <2>1, <2>5 DEF ExactInv, Exact
  <1>4. CASE lock # r
    <2>1. UNCHANGED <<lock, work, db>>
      BY <1>4 DEF Abandon
    <2>2. run[r].pc \notin Holding
      BY <1>4 DEF ExactInv, LockFits
    <2>3. LockFits'
      BY <1>1, <2>1 DEF ExactInv, LockFits, Holding, Scanned, IdleRun
    <2>4. BeforeStage => BeforeStage'
      BY <1>1, <2>2 DEF BeforeStage, Holding
    <2> QED BY <1>2, <2>1, <2>3, <2>4 DEF ExactInv, Exact
  <1> QED BY <1>3, <1>4

\* A step of the lock holder inside its transaction.
LEMMA InsideFits ==
  ASSUME ExactInv, NEW r \in Runs, NEW s, Goto(r, s), RunFits(s),
         UNCHANGED <<tree, db, lock>>, run[r].pc \in Holding,
         s.pc \in Scanned => work'.hashes = tree,
         work'.hashes \in {work.hashes, tree},
         s.pc # "flows" => Exact(work')
  PROVE  /\ \A q \in Runs : RunFits(run[q])'
         /\ LockFits' /\ Exact(db)' /\ (BeforeStage \/ Exact(work))'
  <1>0. lock = r
    BY DEF ExactInv, LockFits
  <1>1. \A q \in Runs : run'[q] = IF q = r THEN s ELSE run[q]
    BY GotoFits
  <1>2. \A q \in Runs : RunFits(run[q])'
    BY GotoFits
  <1>3. \A q \in Runs : q # r => run[q].pc \notin Holding
    BY <1>0 DEF ExactInv, LockFits
  <1>4. ASSUME NEW q \in Runs
        PROVE  /\ run'[q].pc \in Holding => lock' = q
               /\ run'[q].pc \in Scanned => work'.hashes = tree'
               /\ run'[q].pc \in {"join", "final"} /\ lock' # q => db'.hashes = tree'
    <2>1. CASE q = r
      BY <1>0, <1>1, <2>1
    <2>2. CASE q # r
      <3>1. run'[q] = run[q] /\ run[q].pc \notin Holding
        BY <1>1, <1>3, <2>2
      <3> QED BY <3>1 DEF ExactInv, LockFits
    <2> QED BY <2>1, <2>2
  <1>5. BeforeStage' \/ Exact(work')
    BY <1>1 DEF BeforeStage
  <1> QED BY <1>2, <1>4, <1>5 DEF LockFits, ExactInv, Exact

-----------------------------------------------------------------------------
(* The steps of a run                                                      *)

LEMMA ExtractFits ==
  ASSUME ExactInv, NEW r \in Runs, Extract(r)
  PROVE  /\ \A q \in Runs : RunFits(run[q])'
         /\ LockFits' /\ Exact(db)' /\ (BeforeStage \/ Exact(work))'
  <1> DEFINE s == run[r]
             v == [f \in Files |-> IF f \in Changed(s) THEN Read(s, f) ELSE s.view[f]]
             t == [s EXCEPT !.pc = IF StageNeeded(s) THEN "flows" ELSE "unchanged",
                            !.view = v]
             w == [work EXCEPT !.hashes = NewHashes(s), !.facts = NewFacts(s)]
  <1>1. /\ s \in RunState /\ work \in Index /\ tree \in Trees
        /\ s.pc = "hashed" /\ RunFits(s) /\ lock = r
    BY DEF ExactInv, LockFits, TypeInv, TypeOK, Extract, Holding
  <1>2. s.hash = tree /\ \A f \in Files : s.view[f] \in {Unread, tree[f]}
    BY <1>1 DEF RunFits
  <1>3. \A f \in Files : v[f] \in {Unread, tree[f]}
    BY <1>2 DEF Read
  <1>4. NewHashes(s) = tree
    <2>1. work.hashes \in Trees
      BY <1>1 DEF Index
    <2>2. ASSUME NEW f \in Files PROVE NewHashes(s)[f] = tree[f]
      <3>1. CASE f \in Changed(s) \cup Deleted(s)
        BY <1>2, <3>1 DEF NewHashes
      <3>2. CASE f \notin Changed(s) \cup Deleted(s)
        BY <1>2, <3>2 DEF NewHashes, Changed, Deleted, Present
      <3> QED BY <3>1, <3>2
    <2> QED BY <1>1, <2>1, <2>2 DEF NewHashes, Trees
  <1>5. Goto(r, t) /\ work' = w /\ UNCHANGED <<tree, db, lock>>
    BY DEF Extract, Write
  <1>6. work'.hashes = tree /\ work'.flows = work.flows /\ work'.flowSig = work.flowSig
    BY <1>1, <1>4, <1>5 DEF Index
  <1> HIDE DEF v
  <1>7. /\ t.pc \in {"flows", "unchanged"}
        /\ t.pc # "flows" => ~StageNeeded(s)
        /\ t.view = v /\ t.hash = s.hash /\ t.sig = s.sig /\ t.resume = s.resume
        /\ t.joined = s.joined /\ t.cursor = s.cursor /\ t.timedOut = s.timedOut
    BY <1>1 DEF RunState
  <1> HIDE DEF t
  <1>8. RunFits(t)
    BY <1>1, <1>2, <1>3, <1>7 DEF RunFits
  <1>9. ASSUME t.pc # "flows" PROVE Exact(work')
    <2>1. Changed(s) = {} /\ Deleted(s) = {}
      BY <1>7, <1>9 DEF StageNeeded
    <2>2. NewHashes(s) = work.hashes
      BY <1>1, <2>1 DEF NewHashes, Index, Trees
    <2>3. ~BeforeStage
      BY <1>1 DEF BeforeStage, ExactInv, LockFits, Holding
    <2> QED BY <1>4, <1>6, <2>2, <2>3 DEF ExactInv, Exact
  <1>10. s.pc \in Holding
    BY <1>1 DEF Holding
  <1> QED BY <1>5, <1>6, <1>8, <1>9, <1>10, InsideFits

LEMMA StageStartFits ==
  ASSUME ExactInv, NEW r \in Runs, StageStart(r)
  PROVE  /\ \A q \in Runs : RunFits(run[q])'
         /\ LockFits' /\ Exact(db)' /\ (BeforeStage \/ Exact(work))'
  <1> DEFINE s == run[r]
             seen == [f \in Files |-> IF s.hash[f] = 0 THEN 0 ELSE Read(s, f)]
             t == run'[r]
  <1>1. /\ s \in RunState /\ work \in Index /\ tree \in Trees
        /\ s.pc = "flows" /\ RunFits(s) /\ work.hashes = tree
    BY DEF ExactInv, LockFits, TypeInv, TypeOK, StageStart, Scanned
  <1>2. s.hash = tree /\ s.resume = FALSE /\ s.sig \in Signatures
        /\ s.joined = {} /\ s.cursor = 0 /\ s.timedOut = FALSE
        /\ \A f \in Files : s.view[f] \in {Unread, tree[f]}
    BY <1>1 DEF RunFits
  <1>3. seen = tree
    BY <1>1, <1>2 DEF Read, Trees
  <1>4. Goto(r, t) /\ UNCHANGED <<tree, db, lock>> /\ work'.hashes = work.hashes
    BY StageStartRows DEF Goto, ExactInv, TypeInv, TypeOK
  <1>5. work'.flowSig = NoSig
    <2>1. InProgress(s) \in Index /\ InProgress(s).flowSig = NoSig
      BY <1>1, InProgressType DEF InProgress, Index, ExactInv
    <2> QED BY <2>1 DEF StageStart, Write, Index
  <1>6. /\ t.pc = IF s.sig # NoEngine /\ Present(tree) # {} THEN "engine" ELSE "final"
        /\ t.view = tree /\ t.joined = {} /\ t.cursor = 0 /\ t.hash = tree
        /\ t.sig = s.sig /\ t.resume = FALSE /\ t.timedOut = FALSE
    BY <1>1, <1>2, <1>3 DEF StageStart, Goto, ExactInv, TypeInv, TypeOK, RunState
  <1>7. AstFlows(tree) \cup {} = Expected(tree, s.sig) \/ t.pc = "engine"
    <2>1. CASE s.sig = NoEngine
      BY <2>1, NoEngineIsComplete
    <2>2. CASE s.sig # NoEngine /\ Present(tree) = {}
      BY <2>2 DEF Expected
    <2> QED BY <1>6, <2>1, <2>2
  <1>8. RunFits(t)
    BY <1>2, <1>6, <1>7 DEF RunFits
  <1>9. Exact(work') /\ s.pc \in Holding
    BY <1>1, <1>5 DEF Exact, Holding
  <1> QED BY <1>1, <1>4, <1>8, <1>9, InsideFits

\* The steps of a live process, the commits among them.
LEMMA AdvanceFits ==
  ASSUME AllowResume = FALSE, ExactInv, NEW r \in Runs, Advance(r)
  PROVE  /\ \A q \in Runs : RunFits(run[q])'
         /\ LockFits' /\ Exact(db)' /\ (BeforeStage \/ Exact(work))'
  <1> DEFINE s == run[r]
             Goal == /\ \A q \in Runs : RunFits(run[q])'
                     /\ LockFits' /\ Exact(db)' /\ (BeforeStage \/ Exact(work))'
  <1>0. /\ s \in RunState /\ work \in Index /\ RunFits(s)
        /\ run \in [Runs -> RunState]
    BY DEF ExactInv, TypeInv, TypeOK
  <1>1. CASE Inventory(r)
    <2> DEFINE t == [s EXCEPT !.pc = "hashed", !.hash = tree,
                              !.joined = IF s.resume THEN work.flows ELSE {},
                              !.cursor = IF s.resume THEN work.joinDone ELSE 0]
    <2>1. Goto(r, t) /\ s.pc = "begun" /\ UNCHANGED <<tree, db, lock, work>>
      BY <1>1 DEF Inventory
    <2>2. s.resume = FALSE /\ s.sig \in Signatures /\ s.timedOut = FALSE
          /\ \A f \in Files : s.view[f] \in {Unread, tree[f]}
      BY <1>0, <2>1 DEF RunFits
    <2>3. /\ t.pc = "hashed" /\ t.hash = tree /\ t.joined = {} /\ t.cursor = 0
          /\ t.sig = s.sig /\ t.resume = FALSE /\ t.view = s.view /\ t.timedOut = FALSE
      BY <1>0, <2>2 DEF RunState
    <2> HIDE DEF t
    <2>4. RunFits(t)
      BY <2>2, <2>3 DEF RunFits
    <2>5. lock = r /\ ~BeforeStage
      BY <2>1 DEF ExactInv, LockFits, Holding, BeforeStage
    <2>6. Exact(work') /\ work'.hashes = work.hashes /\ s.pc \in Holding
          /\ t.pc \notin Scanned
      BY <2>1, <2>3, <2>5 DEF ExactInv, Holding, Scanned
    <2> QED BY <2>1, <2>4, <2>6, InsideFits
  <1>2. CASE Refuse(r) \/ LockLost(r)
    BY <1>2, AbandonFits DEF Refuse, LockLost
  <1>3. CASE Extract(r)
    BY <1>3, ExtractFits
  <1>4. CASE Skip(r)
    <2>1. s.pc = "unchanged" /\ Goto(r, IdleRun) /\ Commit(work) /\ UNCHANGED tree
      BY <1>4 DEF Skip
    <2>2. lock = r /\ work.hashes = tree /\ ~BeforeStage
      BY <2>1 DEF ExactInv, LockFits, Holding, Scanned, BeforeStage
    <2>3. s.pc \in Scanned /\ IdleRun.pc = "idle" /\ Exact(work)
      BY <2>1, <2>2 DEF Scanned, IdleRun, ExactInv
    <2> QED BY <2>1, <2>2, <2>3, IdleFits, CommitFits
  <1>5. CASE StageStart(r)
    BY <1>5, StageStartFits
  <1>6. ASSUME NEW calls \in {"full", "cut"}, NEW timedOut \in BOOLEAN,
               CallGraphCheckpoint(r, calls, timedOut)
        PROVE  Goal
    <2> DEFINE w == [work EXCEPT !.callGraph = IF timedOut THEN "partial" ELSE "complete"]
               t == [s EXCEPT !.pc = "join", !.calls = calls, !.timedOut = timedOut]
    <2>1. s.pc = "engine" /\ Goto(r, t) /\ Commit(w) /\ UNCHANGED tree
          /\ (calls = "cut" => timedOut)
      BY <1>6 DEF CallGraphCheckpoint
    <2>2. lock = r /\ work.hashes = tree /\ ~BeforeStage
      BY <2>1 DEF ExactInv, LockFits, Holding, Scanned, BeforeStage
    <2>3. w.hashes = tree /\ w.flows = work.flows /\ w.flowSig = work.flowSig
      BY <1>0, <2>2 DEF Index
    <2>4. /\ t.pc = "join" /\ t.calls = calls /\ t.timedOut = timedOut
          /\ t.view = s.view /\ t.hash = s.hash /\ t.sig = s.sig
          /\ t.resume = s.resume /\ t.joined = s.joined /\ t.cursor = s.cursor
      BY <1>0 DEF RunState
    <2> HIDE DEF t, w
    <2>5. RunFits(t)
      <3>1. s.joined = {} /\ s.cursor = 0 /\ s.sig # NoEngine /\ s.hash = tree
            /\ s.view = tree /\ s.sig \in Signatures /\ s.resume = FALSE
            /\ \A f \in Files : s.view[f] \in {Unread, tree[f]}
        BY <1>0, <2>1 DEF RunFits
      <3> QED BY <2>1, <2>4, <3>1, NothingJoined DEF RunFits
    <2>6. Exact(w) /\ s.pc \in Scanned
      BY <2>1, <2>2, <2>3 DEF ExactInv, Exact, Scanned
    <2> QED BY <2>1, <2>2, <2>3, <2>4, <2>5, <2>6, CommitFits
  <1>7. ASSUME NEW k \in Files, JoinCheckpoint(r, k)
        PROVE  Goal
    <2> DEFINE batch == JoinFlows(s.view, s.cursor, k, s.sig, s.calls)
               joined == s.joined \cup batch
               w == [Provisional(AstFlows(s.view) \cup joined) EXCEPT !.joinDone = k]
               t == [s EXCEPT !.joined = joined, !.cursor = k]
    <2>1. s.pc = "join" /\ lock = r /\ Goto(r, t) /\ Commit(w) /\ UNCHANGED tree
          /\ s.cursor < k
      BY <1>7 DEF JoinCheckpoint
    <2>2. work.hashes = tree /\ s.view = tree /\ s.hash = tree /\ s.sig \in Signatures
          /\ s.resume = FALSE /\ \A f \in Files : s.view[f] \in {Unread, tree[f]}
      BY <1>0, <2>1 DEF ExactInv, LockFits, Scanned, RunFits
    <2>3. w.hashes = tree /\ w.flowSig = NoSig
      BY <1>0, <2>2 DEF Index, Provisional
    <2>4. s.cursor \in Nat /\ k \in Nat
      BY <1>0, SizesAssumption DEF RunState, Files
    <2>5. ASSUME s.timedOut = FALSE
          PROVE  s.sig # NoEngine /\ s.calls = "full"
                 /\ joined = JoinFlows(tree, 0, k, s.sig, "full")
      <3>1. /\ s.sig # NoEngine /\ s.calls = "full"
            /\ s.joined = JoinFlows(tree, 0, s.cursor, s.sig, "full")
        BY <1>0, <2>1, <2>5 DEF RunFits
      <3>2. joined = JoinFlows(tree, 0, s.cursor, s.sig, "full")
                       \cup JoinFlows(tree, s.cursor, k, s.sig, "full")
        BY <2>2, <3>1
      <3> QED BY <2>1, <2>4, <3>1, <3>2, BatchContinues
    <2> HIDE DEF batch, joined
    <2>6. /\ t.pc = "join" /\ t.joined = joined /\ t.cursor = k /\ t.calls = s.calls
          /\ t.timedOut = s.timedOut /\ t.view = s.view /\ t.hash = s.hash
          /\ t.sig = s.sig /\ t.resume = s.resume
      BY <1>0, <2>1 DEF RunState
    <2> HIDE DEF t, w
    <2>7. RunFits(t)
      BY <2>2, <2>5, <2>6 DEF RunFits
    <2>8. Exact(w) /\ s.pc \in Scanned
      BY <2>1, <2>3 DEF Exact, Scanned
    <2> QED BY <2>1, <2>3, <2>6, <2>7, <2>8, CommitFits
  <1>8. ASSUME NEW kept \in SUBSET run[r].joined, ProgressCheckpoint(r, kept)
        PROVE  Goal
    <2> DEFINE w == Provisional(AstFlows(s.view) \cup kept)
               t == [s EXCEPT !.page = @ + 1]
    <2>1. s.pc = "join" /\ lock = r /\ Goto(r, t) /\ Commit(w) /\ UNCHANGED tree
      BY <1>8 DEF ProgressCheckpoint
    <2>2. work.hashes = tree /\ s.pc \in Scanned
      BY <2>1 DEF ExactInv, LockFits, Scanned
    <2>3. w.hashes = tree /\ Exact(w)
      BY <1>0, <2>2 DEF Index, Provisional, Exact
    <2>4. /\ t.pc = "join" /\ t.joined = s.joined /\ t.cursor = s.cursor
          /\ t.calls = s.calls /\ t.timedOut = s.timedOut /\ t.view = s.view
          /\ t.hash = s.hash /\ t.sig = s.sig /\ t.resume = s.resume
      BY <1>0, <2>1 DEF RunState
    <2> HIDE DEF t, w
    <2>5. RunFits(t)
      BY <1>0, <2>1, <2>4 DEF RunFits
    <2> QED BY <2>1, <2>2, <2>3, <2>4, <2>5, CommitFits
  <1>9. CASE InputOutputCheckpoint(r)
    <2> DEFINE w == [work EXCEPT
                       !.flows = AstFlows(s.view) \cup s.joined,
                       !.flowSig = NoSig,
                       !.joinDone = Entries(s.view),
                       !.inputOutput = IF s.timedOut THEN "partial" ELSE "complete"]
               t == [s EXCEPT !.pc = "final"]
    <2>1. s.pc = "join" /\ lock = r /\ Goto(r, t) /\ Commit(w) /\ UNCHANGED tree
          /\ s.cursor = Entries(s.view)
      BY <1>9 DEF InputOutputCheckpoint
    <2>2. work.hashes = tree /\ s.pc \in Scanned /\ s.view = tree /\ s.hash = tree
          /\ s.sig \in Signatures /\ s.resume = FALSE
          /\ \A f \in Files : s.view[f] \in {Unread, tree[f]}
      BY <1>0, <2>1 DEF ExactInv, LockFits, Scanned, RunFits
    <2>3. w.hashes = tree /\ Exact(w)
      BY <1>0, <2>2 DEF Index, Exact
    <2>4. /\ t.pc = "final" /\ t.joined = s.joined /\ t.timedOut = s.timedOut
          /\ t.view = s.view /\ t.hash = s.hash /\ t.sig = s.sig
          /\ t.resume = s.resume
      BY <1>0 DEF RunState
    <2> HIDE DEF t, w
    <2>5. s.timedOut = FALSE => AstFlows(tree) \cup s.joined = Expected(tree, s.sig)
      BY <1>0, <2>1, <2>2, JoinIsComplete DEF RunFits
    <2>6. RunFits(t)
      BY <2>2, <2>4, <2>5 DEF RunFits
    <2> QED BY <2>1, <2>2, <2>3, <2>4, <2>6, CommitFits
  <1>10. CASE Finish(r)
    <2> DEFINE w == [work EXCEPT
                       !.flows    = AstFlows(s.view) \cup s.joined,
                       !.flowSig  = IF s.timedOut THEN NoSig ELSE s.sig,
                       !.status   = IF s.timedOut THEN "partial" ELSE "complete",
                       !.joinSig  = NoSig,
                       !.joinDone = 0]
    <2>1. s.pc = "final" /\ lock = r /\ Goto(r, IdleRun) /\ Commit(w) /\ UNCHANGED tree
      BY <1>10 DEF Finish
    <2>2. work.hashes = tree /\ s.pc \in Scanned /\ s.view = tree
      BY <1>0, <2>1 DEF ExactInv, LockFits, Scanned, RunFits
    <2>3. /\ w.hashes = tree /\ w.flows = AstFlows(tree) \cup s.joined
          /\ w.flowSig = IF s.timedOut THEN NoSig ELSE s.sig
      BY <1>0, <2>2 DEF Index
    <2> HIDE DEF w
    <2>4. s.timedOut = FALSE => AstFlows(tree) \cup s.joined = Expected(tree, s.sig)
      BY <1>0, <2>1 DEF RunFits
    <2>5. Exact(w)
      <3>1. s.timedOut \in BOOLEAN
        BY <1>0 DEF RunState
      <3> QED BY <2>3, <2>4, <3>1 DEF Exact
    <2>6. IdleRun.pc = "idle"
      BY DEF IdleRun
    <2> QED BY <2>1, <2>2, <2>3, <2>5, <2>6, IdleFits, CommitFits
  <1>11. CASE Reopen(r)
    <2>1. /\ run[r].pc \in {"join", "final"} /\ lock = NoRun
          /\ lock' = r /\ work' = db /\ UNCHANGED <<tree, db, run>>
      BY <1>11 DEF Reopen
    <2>2. \A q \in Runs : lock # q /\ run[q].pc \notin Holding
      BY <2>1, NamesAssumption DEF ExactInv, LockFits
    <2>3. LockFits'
      BY <2>1, <2>2 DEF ExactInv, LockFits, Scanned, Holding
    <2> QED BY <2>1, <2>3 DEF ExactInv, RunFits, Exact
  <1> QED BY <1>1, <1>2, <1>3, <1>4, <1>5, <1>6, <1>7, <1>8, <1>9, <1>10, <1>11
          DEF Advance

LEMMA ExactStep ==
  ASSUME EditsDuringRuns = FALSE, AllowResume = FALSE
  PROVE  ExactInv /\ [Next]_vars => ExactInv'
  <1> SUFFICES ASSUME ExactInv, [Next]_vars PROVE ExactInv'
    OBVIOUS
  <1> DEFINE Goal == /\ \A q \in Runs : RunFits(run[q])'
                     /\ LockFits' /\ Exact(db)' /\ (BeforeStage \/ Exact(work))'
  <1>1. TypeInv'
    BY TypeInvStep DEF ExactInv
  <1>2. ASSUME NEW r \in Runs, NEW sig \in Signatures, NEW full \in BOOLEAN,
               NEW resume \in BOOLEAN, NEW html \in BOOLEAN,
               Begin(r, sig, full, resume, html)
        PROVE  Goal
    <2>1. PICK cached \in IF ParseBeforeInventory THEN SUBSET Present(tree) ELSE {{}} :
             Goto(r, [IdleRun EXCEPT
                        !.pc = "begun", !.sig = sig, !.full = full,
                        !.resume = resume, !.html = html,
                        !.view = [f \in Files |-> IF f \in cached THEN tree[f]
                                                                  ELSE Unread]])
      BY <1>2 DEF Begin
    <2> DEFINE t == [IdleRun EXCEPT
                       !.pc = "begun", !.sig = sig, !.full = full,
                       !.resume = resume, !.html = html,
                       !.view = [f \in Files |-> IF f \in cached THEN tree[f]
                                                                 ELSE Unread]]
    <2>2. /\ t.pc = "begun" /\ t.sig = sig /\ t.resume = resume /\ t.joined = {}
          /\ t.cursor = 0 /\ t.timedOut = FALSE
          /\ \A f \in Files : t.view[f] \in {Unread, tree[f]}
      BY DEF IdleRun
    <2>3. Goto(r, t) /\ resume = FALSE
      BY <1>2, <2>1 DEF Begin
    <2> HIDE DEF t
    <2>4. RunFits(t)
      BY <2>2, <2>3 DEF RunFits
    <2>5. lock = NoRun /\ lock' = r /\ work' = db /\ UNCHANGED <<tree, db>>
      BY <1>2 DEF Begin
    <2>6. /\ \A q \in Runs : run'[q] = IF q = r THEN t ELSE run[q]
          /\ \A q \in Runs : RunFits(run[q])'
      BY <2>3, <2>4, <2>5, GotoFits
    <2>7. \A q \in Runs : lock # q /\ run[q].pc \notin Holding
      BY <2>5, NamesAssumption DEF ExactInv, LockFits
    <2>8. ASSUME NEW q \in Runs
          PROVE  /\ run'[q].pc \in Holding => lock' = q
                 /\ run'[q].pc \in Scanned => work'.hashes = tree'
                 /\ run'[q].pc \in {"join", "final"} /\ lock' # q => db'.hashes = tree'
      <3>1. CASE q = r
        BY <2>2, <2>5, <2>6, <3>1 DEF Scanned
      <3>2. CASE q # r
        BY <2>5, <2>6, <2>7, <3>2 DEF ExactInv, LockFits, Scanned, Holding
      <3> QED BY <3>1, <3>2
    <2> QED BY <2>5, <2>6, <2>8 DEF LockFits, ExactInv, Exact
  <1>3. ASSUME NEW r \in Runs, Advance(r) PROVE Goal
    BY <1>3, AdvanceFits
  <1>4. ASSUME NEW r \in Runs, Stop(r) PROVE Goal
    BY <1>4, AbandonFits DEF Stop
  <1>5. ASSUME NEW f \in Files, NEW v \in Versions, Edit(f, v) PROVE Goal
    <2>1. \A q \in Runs : run[q].pc = "idle"
      BY <1>5 DEF Edit, AtRest
    <2>2. UNCHANGED <<lock, db, work, run>>
      BY <1>5 DEF Edit
    <2> QED BY <2>1, <2>2 DEF ExactInv, RunFits, LockFits, Holding, Scanned, Exact,
                              BeforeStage
  <1>6. ASSUME UNCHANGED vars PROVE Goal
    BY <1>6 DEF vars, ExactInv, RunFits, LockFits, Exact, BeforeStage
  <1>7. Goal
    BY <1>2, <1>3, <1>4, <1>5, <1>6 DEF Next
  <1> QED BY <1>1, <1>7 DEF ExactInv

LEMMA ExactInit == Init => ExactInv
  <1> SUFFICES ASSUME Init PROVE ExactInv
    OBVIOUS
  <1>1. TypeInv /\ \A r \in Runs : run[r] = IdleRun
    BY TypeInvInit DEF Init
  <1>2. LockFits
    BY <1>1 DEF LockFits, IdleRun, Holding, Scanned
  <1> QED BY <1>1, <1>2, IdleFits DEF Init, ExactInv, Exact, EmptyIndex

\* Without edits during a run and without resumes, a settled snapshot holds
\* exactly the flows of its files: no crash, timeout, progress export or
\* interleaving of writers leaves a stale flow or loses one.
THEOREM SettledIsExact ==
  ASSUME EditsDuringRuns = FALSE, AllowResume = FALSE
  PROVE  Spec => [](SettledHasNothingStale /\ SettledMissesNothing)
  <1>1. ExactInv => SettledHasNothingStale /\ SettledMissesNothing
    BY DEF ExactInv, Exact, Settled, SettledHasNothingStale, SettledMissesNothing
  <1>2. ExactInv /\ [Next]_vars => ExactInv'
    BY ExactStep
  <1> QED BY <1>1, <1>2, ExactInit, PTL DEF Spec
-----------------------------------------------------------------------------
(* The refinement: with one process, every commit publishes a complete     *)
(* snapshot of the files or an explicitly partial one.                     *)

\* What the transaction of a run may commit next, phase by phase.
Publishable(s) ==
    /\ s.pc \in {"begun", "hashed"} => work = db
    /\ s.pc = "unchanged" => /\ work.hashes = db.hashes /\ work.flows = db.flows
                             /\ work.status = db.status /\ work.flowSig = db.flowSig
    /\ s.pc = "flows" => work.flows = db.flows
    /\ s.pc = "engine" => /\ work.flows \subseteq db.flows
                          /\ \A w \in work.flows : WithinTree(w, tree)
                          /\ work.status = "partial" /\ work.flowSig = NoSig
    /\ s.pc = "join" => /\ work.status = "partial" /\ db.status = "partial"
                        /\ s.sig # NoEngine
    /\ s.pc \in {"join", "final"} => s.joined \subseteq Computable(tree)

SnapshotInv == ExactInv /\ \A r \in Runs : Publishable(run[r])

LEMMA ComputableWithin ==
  ASSUME NEW t
  PROVE  \A w \in Computable(t) : WithinTree(w, t)
  <1>1. \A w \in AstFlows(t) : WithinTree(w, t)
    BY AstFlowsWithin
  <1> QED BY <1>1 DEF Computable, WithinTree

LEMMA JoinFlowsComputable ==
  ASSUME NEW t, NEW done, NEW upto, NEW sig \in Signatures, sig # NoEngine,
         NEW calls \in {"full", "cut"}
  PROVE  JoinFlows(t, done, upto, sig, calls) \subseteq Computable(t)
  BY DEF JoinFlows, Computable

\* A commit of provisional flows of this tree publishes a partial snapshot.
LEMMA PartialCommit ==
  ASSUME NEW w, Commit(w), UNCHANGED tree, w.hashes = tree,
         w.flows \subseteq db.flows \cup Computable(tree),
         \A x \in w.flows : WithinTree(x, tree),
         w.status = "partial", w.flowSig = NoSig
  PROVE  Published!Next
  BY DEF Published!Next, Published!PublishPartial, Commit

LEMMA CompleteCommit ==
  ASSUME NEW w, NEW sig \in Signatures, Commit(w), UNCHANGED tree, w.hashes = tree,
         w.flows = Expected(tree, sig), w.status = "complete", w.flowSig = sig
  PROVE  Published!Next
  BY DEF Published!Next, Published!PublishComplete, Commit

LEMMA NoCommit ==
  ASSUME UNCHANGED <<tree, db>>
  PROVE  UNCHANGED Published!vars
  BY DEF Published!vars

LEMMA PublishedAdvance ==
  ASSUME EditsDuringRuns = FALSE, AllowResume = FALSE, OneProcess,
         SnapshotInv, NEW r \in Runs, Advance(r)
  PROVE  (\A q \in Runs : Publishable(run[q])') /\ [Published!Next]_(Published!vars)
  <1> DEFINE s == run[r]
             Goal == /\ \A q \in Runs : Publishable(run[q])'
                     /\ [Published!Next]_(Published!vars)
  <1>0. /\ run \in [Runs -> RunState] /\ s \in RunState /\ work \in Index
        /\ RunFits(s) /\ Publishable(s)
    BY DEF SnapshotInv, ExactInv, TypeInv, TypeOK
  <1>a. ASSUME Publishable(run[r])' PROVE \A q \in Runs : Publishable(run[q])'
    BY <1>a DEF OneProcess
  <1>1. CASE Inventory(r)
    <2>1. s.pc = "begun" /\ run'[r].pc = "hashed" /\ UNCHANGED <<tree, db, work>>
      BY <1>0, <1>1 DEF Inventory, Goto, RunState
    <2> QED BY <1>0, <1>a, <2>1, NoCommit DEF Publishable
  <1>2. CASE Refuse(r) \/ LockLost(r)
    <2>1. run'[r].pc = "idle" /\ UNCHANGED <<tree, db>>
      BY <1>0, <1>2 DEF Refuse, LockLost, Abandon, IdleRun
    <2> QED BY <1>a, <2>1, NoCommit DEF Publishable
  <1>3. CASE Extract(r)
    <2>1. /\ s.pc = "hashed" /\ UNCHANGED <<tree, db>> /\ work'.hashes = NewHashes(s)
          /\ work'.flows = work.flows /\ work'.status = work.status
          /\ work'.flowSig = work.flowSig
          /\ run'[r].pc = IF StageNeeded(s) THEN "flows" ELSE "unchanged"
      BY <1>0, <1>3 DEF Extract, Write, Goto, Index, RunState
    <2>2. work = db
      BY <1>0, <2>1 DEF Publishable
    <2>3. ~StageNeeded(s) => NewHashes(s) = work.hashes
      BY <1>0 DEF StageNeeded, NewHashes, Index, Trees
    <2> QED BY <1>a, <2>1, <2>2, <2>3, NoCommit DEF Publishable
  <1>4. CASE Skip(r)
    <2>1. s.pc = "unchanged" /\ db' = work /\ UNCHANGED tree /\ run'[r].pc = "idle"
      BY <1>0, <1>4 DEF Skip, Commit, Goto, IdleRun
    <2>2. UNCHANGED Published!vars
      BY <1>0, <2>1 DEF Publishable, Published!vars
    <2> QED BY <1>a, <2>1, <2>2 DEF Publishable
  <1>5. CASE StageStart(r)
    <2>1. s.pc = "flows" /\ s.hash = tree /\ s.joined = {} /\ work.flows = db.flows
      BY <1>0, <1>5 DEF StageStart, RunFits, Publishable
    <2>2. /\ InProgress(s) \in Index /\ InProgress(s).status = "partial"
          /\ InProgress(s).flowSig = NoSig
          /\ InProgress(s).flows = {w \in work.flows : WithinTree(w, tree)}
      BY <1>0, <2>1, InProgressType
         DEF InProgress, Index, SnapshotInv, ExactInv, WithinTree
    <2>3. /\ work'.status = "partial" /\ work'.flowSig = NoSig
          /\ work'.flows = {w \in work.flows : WithinTree(w, tree)}
          /\ UNCHANGED <<tree, db>>
      BY <1>5, <2>2 DEF StageStart, Write, Index
    <2>4. run'[r].pc \in {"engine", "final"} /\ run'[r].joined \in {s.joined, {}}
      BY <1>0, <1>5 DEF StageStart, Goto, RunState
    <2> QED BY <1>a, <2>1, <2>3, <2>4, NoCommit DEF Publishable
  <1>6. ASSUME NEW calls \in {"full", "cut"}, NEW timedOut \in BOOLEAN,
               CallGraphCheckpoint(r, calls, timedOut)
        PROVE  Goal
    <2> DEFINE w == [work EXCEPT !.callGraph = IF timedOut THEN "partial" ELSE "complete"]
    <2>1. /\ s.pc = "engine" /\ Commit(w) /\ UNCHANGED tree /\ run'[r].pc = "join"
          /\ run'[r].sig = s.sig /\ run'[r].joined = s.joined
      BY <1>0, <1>6 DEF CallGraphCheckpoint, Goto, RunState
    <2>2. /\ w.hashes = work.hashes /\ w.flows = work.flows /\ w.status = work.status
          /\ w.flowSig = work.flowSig
      BY <1>0 DEF Index
    <2>3. work.hashes = tree
      BY <2>1 DEF SnapshotInv, ExactInv, LockFits, Scanned
    <2> HIDE DEF w
    <2>4. /\ work.status = "partial" /\ work.flowSig = NoSig
          /\ \A x \in work.flows : WithinTree(x, tree)
          /\ work.flows \subseteq db.flows
      BY <1>0, <2>1 DEF Publishable
    <2>5. Published!Next
      BY <2>1, <2>2, <2>3, <2>4, PartialCommit
    <2>6. s.joined = {} /\ s.sig # NoEngine
      BY <1>0, <2>1 DEF RunFits
    <2> QED BY <1>a, <2>1, <2>2, <2>4, <2>5, <2>6 DEF Publishable, Commit
  <1>7. ASSUME NEW flows, flows \subseteq Computable(tree), NEW w, Commit(w),
               UNCHANGED tree, s.pc = "join", w.hashes = work.hashes,
               w.flows = flows, w.status = work.status, w.flowSig = NoSig
        PROVE  Published!Next /\ w.status = "partial"
    <2>1. work.hashes = tree /\ work.status = "partial"
      BY <1>0, <1>7 DEF SnapshotInv, ExactInv, LockFits, Scanned, Publishable
    <2> QED BY <1>7, <2>1, PartialCommit, ComputableWithin
  <1>8. ASSUME NEW k \in Files, JoinCheckpoint(r, k)
        PROVE  Goal
    <2> DEFINE joined == s.joined \cup JoinFlows(s.view, s.cursor, k, s.sig, s.calls)
               w == [Provisional(AstFlows(s.view) \cup joined) EXCEPT !.joinDone = k]
    <2>1. /\ s.pc = "join" /\ Commit(w) /\ UNCHANGED tree /\ run'[r].pc = "join"
          /\ run'[r].sig = s.sig /\ run'[r].joined = joined
      BY <1>0, <1>8 DEF JoinCheckpoint, Goto, RunState
    <2>2. s.view = tree /\ s.joined \subseteq Computable(tree) /\ s.sig # NoEngine
          /\ s.sig \in Signatures /\ s.calls \in {"full", "cut"}
          /\ work.status = "partial"
      BY <1>0, <2>1 DEF RunFits, Publishable, RunState
    <2>3. joined \subseteq Computable(tree) /\ AstFlows(tree) \subseteq Computable(tree)
      BY <2>2, JoinFlowsComputable DEF Computable
    <2> HIDE DEF joined
    <2>4. /\ w.hashes = work.hashes /\ w.flows = AstFlows(tree) \cup joined
          /\ w.status = "partial" /\ w.flowSig = NoSig
      BY <1>0, <2>2 DEF Index, Provisional
    <2> HIDE DEF w
    <2>5. Published!Next
      BY <1>7, <2>1, <2>2, <2>3, <2>4
    <2> QED BY <1>a, <2>1, <2>2, <2>3, <2>4, <2>5 DEF Publishable, Commit
  <1>9. ASSUME NEW kept \in SUBSET run[r].joined, ProgressCheckpoint(r, kept)
        PROVE  Goal
    <2> DEFINE w == Provisional(AstFlows(s.view) \cup kept)
    <2>1. /\ s.pc = "join" /\ Commit(w) /\ UNCHANGED tree /\ run'[r].pc = "join"
          /\ run'[r].sig = s.sig /\ run'[r].joined = s.joined
      BY <1>0, <1>9 DEF ProgressCheckpoint, Goto, RunState
    <2>2. s.view = tree /\ s.joined \subseteq Computable(tree) /\ s.sig # NoEngine
          /\ work.status = "partial"
      BY <1>0, <2>1 DEF RunFits, Publishable
    <2>3. AstFlows(tree) \cup kept \subseteq Computable(tree)
      BY <2>2 DEF Computable
    <2>4. /\ w.hashes = work.hashes /\ w.flows = AstFlows(tree) \cup kept
          /\ w.status = "partial" /\ w.flowSig = NoSig
      BY <1>0, <2>2 DEF Index, Provisional
    <2> HIDE DEF w
    <2>5. Published!Next
      BY <1>7, <2>1, <2>2, <2>3, <2>4
    <2> QED BY <1>a, <2>1, <2>2, <2>4, <2>5 DEF Publishable, Commit
  <1>10. CASE InputOutputCheckpoint(r)
    <2> DEFINE w == [work EXCEPT
                       !.flows = AstFlows(s.view) \cup s.joined,
                       !.flowSig = NoSig,
                       !.joinDone = Entries(s.view),
                       !.inputOutput = IF s.timedOut THEN "partial" ELSE "complete"]
    <2>1. /\ s.pc = "join" /\ Commit(w) /\ UNCHANGED tree /\ run'[r].pc = "final"
          /\ run'[r].joined = s.joined
      BY <1>0, <1>10 DEF InputOutputCheckpoint, Goto, RunState
    <2>2. s.view = tree /\ s.joined \subseteq Computable(tree)
      BY <1>0, <2>1 DEF RunFits, Publishable
    <2>3. AstFlows(tree) \cup s.joined \subseteq Computable(tree)
      BY <2>2 DEF Computable
    <2>4. /\ w.hashes = work.hashes /\ w.flows = AstFlows(tree) \cup s.joined
          /\ w.status = work.status /\ w.flowSig = NoSig
      BY <1>0, <2>2 DEF Index
    <2> HIDE DEF w
    <2>5. Published!Next
      BY <1>7, <2>1, <2>3, <2>4
    <2> QED BY <1>a, <2>1, <2>2, <2>5 DEF Publishable
  <1>11. CASE Finish(r)
    <2> DEFINE w == [work EXCEPT
                       !.flows    = AstFlows(s.view) \cup s.joined,
                       !.flowSig  = IF s.timedOut THEN NoSig ELSE s.sig,
                       !.status   = IF s.timedOut THEN "partial" ELSE "complete",
                       !.joinSig  = NoSig,
                       !.joinDone = 0]
    <2>1. /\ s.pc = "final" /\ Commit(w) /\ UNCHANGED tree /\ run'[r].pc = "idle"
      BY <1>0, <1>11 DEF Finish, Goto, IdleRun
    <2>2. /\ s.view = tree /\ s.joined \subseteq Computable(tree) /\ s.sig \in Signatures
          /\ s.timedOut \in BOOLEAN /\ work.hashes = tree
          /\ s.timedOut = FALSE => AstFlows(tree) \cup s.joined = Expected(tree, s.sig)
      BY <1>0, <2>1 DEF RunFits, Publishable, RunState, SnapshotInv, ExactInv, LockFits,
                        Scanned
    <2>3. AstFlows(tree) \cup s.joined \subseteq Computable(tree)
      BY <2>2 DEF Computable
    <2>4. /\ w.hashes = tree /\ w.flows = AstFlows(tree) \cup s.joined
          /\ w.status = IF s.timedOut THEN "partial" ELSE "complete"
          /\ w.flowSig = IF s.timedOut THEN NoSig ELSE s.sig
      BY <1>0, <2>2 DEF Index
    <2> HIDE DEF w
    <2>5. CASE s.timedOut
      BY <1>a, <2>1, <2>3, <2>4, <2>5, PartialCommit, ComputableWithin DEF Publishable
    <2>6. CASE ~s.timedOut
      BY <1>a, <2>1, <2>2, <2>4, <2>6, CompleteCommit DEF Publishable
    <2> QED BY <2>5, <2>6
  <1>12. CASE Reopen(r)
    <2>1. UNCHANGED <<tree, db, run>> /\ work' = db /\ s.pc \in {"join", "final"}
      BY <1>12 DEF Reopen
    <2> QED BY <1>0, <1>a, <2>1, NoCommit DEF Publishable
  <1> QED BY <1>1, <1>2, <1>3, <1>4, <1>5, <1>6, <1>8, <1>9, <1>10, <1>11, <1>12
          DEF Advance

LEMMA PublishedStep ==
  ASSUME EditsDuringRuns = FALSE, AllowResume = FALSE, OneProcess
  PROVE  SnapshotInv /\ [Next]_vars => SnapshotInv' /\ [Published!Next]_(Published!vars)
  <1> SUFFICES ASSUME SnapshotInv, [Next]_vars
               PROVE  SnapshotInv' /\ [Published!Next]_(Published!vars)
    OBVIOUS
  <1> DEFINE Goal == /\ \A q \in Runs : Publishable(run[q])'
                     /\ [Published!Next]_(Published!vars)
  <1>0. ExactInv' /\ run \in [Runs -> RunState]
    BY ExactStep DEF SnapshotInv, ExactInv, TypeInv, TypeOK
  <1>1. ASSUME NEW r \in Runs, NEW sig \in Signatures, NEW full \in BOOLEAN,
               NEW resume \in BOOLEAN, NEW html \in BOOLEAN,
               Begin(r, sig, full, resume, html)
        PROVE  Goal
    <2>1. run'[r].pc = "begun" /\ work' = db /\ UNCHANGED <<tree, db>>
      BY <1>0, <1>1 DEF Begin, Goto, IdleRun
    <2> QED BY <2>1, NoCommit DEF Publishable, OneProcess
  <1>2. ASSUME NEW r \in Runs, Advance(r) PROVE Goal
    BY <1>2, PublishedAdvance
  <1>3. ASSUME NEW r \in Runs, Stop(r) PROVE Goal
    <2>1. run'[r].pc = "idle" /\ UNCHANGED <<tree, db>>
      BY <1>0, <1>3 DEF Stop, Abandon, IdleRun
    <2> QED BY <2>1, NoCommit DEF Publishable, OneProcess
  <1>4. ASSUME NEW f \in Files, NEW v \in Versions, Edit(f, v) PROVE Goal
    <2>1. (\A q \in Runs : run[q].pc = "idle") /\ UNCHANGED <<db, work, run>>
      BY <1>4 DEF Edit, AtRest
    <2>2. tree' \in Trees
      BY <1>0 DEF ExactInv, TypeInv, TypeOK
    <2>3. Published!Next
      BY <2>1, <2>2 DEF Published!Next, Published!Edit
    <2> QED BY <2>1, <2>3 DEF Publishable
  <1>5. ASSUME UNCHANGED vars PROVE Goal
    BY <1>5, NoCommit DEF vars, SnapshotInv, Publishable
  <1>6. Goal
    BY <1>1, <1>2, <1>3, <1>4, <1>5 DEF Next
  <1> QED BY <1>0, <1>6 DEF SnapshotInv

\* The detailed run implements the promise made to the readers of the index:
\* whatever is committed, at any checkpoint and after any crash, is a complete
\* snapshot of the files or an explicitly partial one without a signature.
THEOREM RunsPublishSnapshots ==
  ASSUME EditsDuringRuns = FALSE, AllowResume = FALSE, OneProcess
  PROVE  Spec => PublishesSnapshots
  <1>1. Init => SnapshotInv /\ Published!Init
    <2> SUFFICES ASSUME Init PROVE SnapshotInv /\ Published!Init
      OBVIOUS
    <2>1. ExactInv
      BY ExactInit
    <2>2. \A r \in Runs : Publishable(run[r])
      BY DEF Init, Publishable, IdleRun
    <2>3. Published!Init
      BY <2>1 DEF Init, EmptyIndex, Published!Init, ExactInv, TypeInv, TypeOK
    <2> QED BY <2>1, <2>2, <2>3 DEF SnapshotInv
  <1>2. SnapshotInv /\ [Next]_vars => SnapshotInv' /\ [Published!Next]_(Published!vars)
    BY PublishedStep
  <1> QED BY <1>1, <1>2, PTL DEF Spec, PublishesSnapshots, Published!Spec

-----------------------------------------------------------------------------
(* Resumed joins lose nothing                                              *)

EngineSigs == Signatures \ {NoEngine}

OneConfiguration == \A a, b \in EngineSigs : a = b

\* The circumstances of the theorems.
PlainRuns == /\ EditsDuringRuns = FALSE
             /\ AllowTimeout = FALSE /\ AllowProgressHtml = FALSE
             /\ OneProcess \/ OneConfiguration

\* The flows of the first n entries.
Prefix(t, n, sig) == JoinFlows(t, 0, n, sig, "full")

LEMMA EmptyPrefix ==
  ASSUME NEW t, NEW sig
  PROVE  Prefix(t, 0, sig) = {}
  BY NothingJoined DEF Prefix

LEMMA WholePrefix ==
  ASSUME NEW t, NEW sig \in EngineSigs
  PROVE  Expected(t, sig) \subseteq AstFlows(t) \cup Prefix(t, Entries(t), sig)
  BY JoinIsComplete DEF Prefix, EngineSigs

-----------------------------------------------------------------------------
(* The invariant                                                           *)

\* An index owes its flows as long as its files are as they were: a
\* calculation after an edit rebuilds them from the edited ones.  Where a file
\* can get an earlier content back, the edited index would owe them again.
Current(w) == \A f \in Present(w.hashes) : tree[f] = w.hashes[f]
Owed(w)    == Reverts \/ Current(w)

\* A join checkpoint is resumable, fits the inventory it was taken for and
\* comes with the flows of the entries it counts.
CheckpointFits(w) ==
    w.joinSig # NoSig =>
       /\ w.status = "partial"
       /\ w.joinMethods = MethodsSignature(w.hashes)
       /\ w.joinDone <= Entries(w.hashes)
       /\ Owed(w) => Prefix(w.hashes, w.joinDone, w.joinSig) \subseteq w.flows

\* A signed index has every flow of its inventory.
SignedFits(w) ==
    w.flowSig # NoSig /\ Owed(w) => Expected(w.hashes, w.flowSig) \subseteq w.flows

ReadyRows(w) == CheckpointFits(w) /\ SignedFits(w)

\* What a process knows fits the tree, and its cursor counts flows it has.
ResumeFits(s) ==
    /\ s.pc # "idle" => /\ s.sig \in Signatures /\ s.html = FALSE
                        /\ s.timedOut = FALSE /\ s.calls = "full"
                        /\ \A f \in Files : s.view[f] \in {Unread, tree[f]}
    /\ s.pc = "begun" => s.joined = {} /\ s.cursor = 0
    /\ s.pc = "unchanged" => s.resume = FALSE
    /\ s.pc \in {"hashed", "flows"} /\ s.resume = FALSE => s.joined = {} /\ s.cursor = 0
    /\ s.pc \notin {"idle", "begun"} => s.hash = tree
    /\ s.pc \in {"engine", "join", "final"} => s.view = tree
    /\ (s.pc \in {"hashed", "flows"} /\ s.resume) \/ s.pc \in {"engine", "join"} =>
          /\ s.sig \in EngineSigs
          /\ Prefix(tree, s.cursor, s.sig) \subseteq s.joined
          /\ s.cursor <= Entries(tree)
    /\ s.pc = "final" => Expected(tree, s.sig) \subseteq AstFlows(tree) \cup s.joined

RunsFit == \A r \in Runs : ResumeFits(run[r])

\* The checkpoint a resumed run loaded is still in its transaction.
Seeded(s, w) ==
    s.pc \in {"hashed", "flows"} /\ s.resume =>
       /\ s.full = FALSE
       /\ w.hashes = tree /\ w.status = "partial"
       /\ w.joinSig = s.sig /\ w.joinDone = s.cursor
       /\ CheckpointFits(w)

SeedFits == \A r \in Runs : Seeded(run[r], work)

\* The rows of a joining run carry its own signature, or none once another
\* run has finished.
SigFits ==
    \A r \in Runs :
       /\ run[r].pc \in {"engine", "join"} => work.joinSig \in {run[r].sig, NoSig}
       /\ run[r].pc = "join" => db.joinSig \in {run[r].sig, NoSig}

\* The rows of an index: the join signature of an engine, the facts of the
\* contents it hashed, nothing newer than the last edit.
Sound(w) == /\ w.joinSig \in EngineSigs \cup {NoSig}
            /\ w.facts = w.hashes
            /\ \A f \in Files : w.hashes[f] <= edits + 1

\* The transactions whose rows need not fit yet: the hashes are new and the
\* stage has not started, or it had nothing to join and is about to finish.
Unready == \E r \in Runs : lock = r /\ run[r].pc \in {"flows", "final"}

RowsFit == /\ \A f \in Files : tree[f] <= edits + 1
           /\ Sound(db) /\ Sound(work)
           /\ ReadyRows(db)
           /\ Unready \/ ReadyRows(work)

ResumeInv == TypeInv /\ RunsFit /\ LockFits /\ SeedFits /\ SigFits /\ RowsFit

-----------------------------------------------------------------------------
(* Steps that share a shape                                                *)

LEMMA IdleResumes == ResumeFits(IdleRun)
  BY DEF ResumeFits, IdleRun

LEMMA GotoResumes ==
  ASSUME ResumeInv, NEW r \in Runs, NEW s, Goto(r, s), UNCHANGED tree, ResumeFits(s)
  PROVE  RunsFit' /\ \A q \in Runs : run'[q] = IF q = r THEN s ELSE run[q]
  <1>1. run' = [run EXCEPT ![r] = s] /\ run \in [Runs -> RunState]
    BY DEF Goto, ResumeInv, TypeInv, TypeOK
  <1>2. \A q \in Runs : run'[q] = IF q = r THEN s ELSE run[q]
    BY <1>1
  <1>3. \A q \in Runs : ResumeFits(run'[q])
    BY <1>2 DEF ResumeInv, RunsFit
  <1> QED BY <1>2, <1>3 DEF RunsFit, ResumeFits

\* A commit by a run that scanned its inventory.
LEMMA CommitResumes ==
  ASSUME ResumeInv, NEW r \in Runs, NEW s, NEW w, Goto(r, s), Commit(w),
         UNCHANGED <<tree, edits>>, ResumeFits(s), s.pc \in {"idle", "join", "final"},
         lock = r, w.hashes = tree, Sound(w), ReadyRows(w)
  PROVE  RunsFit' /\ LockFits' /\ SeedFits' /\ RowsFit'
  <1>1. RunsFit' /\ \A q \in Runs : run'[q] = IF q = r THEN s ELSE run[q]
    BY GotoResumes
  <1>2. \A q \in Runs : run'[q].pc \notin Holding
    <2>1. \A q \in Runs : q # r => run[q].pc \notin Holding
      BY DEF ResumeInv, LockFits
    <2> QED BY <1>1, <2>1 DEF Holding
  <1>3. LockFits'
    BY <1>2 DEF LockFits, Commit
  <1>4. SeedFits'
    BY <1>2 DEF SeedFits, Seeded, Holding
  <1>5. RowsFit'
    BY DEF RowsFit, Commit, Sound, ReadyRows, CheckpointFits, SignedFits, Owed, Current
  <1> QED BY <1>1, <1>3, <1>4, <1>5

LEMMA AbandonResumes ==
  ASSUME ResumeInv, NEW r \in Runs, Abandon(r), UNCHANGED <<tree, edits>>
  PROVE  RunsFit' /\ LockFits' /\ SeedFits' /\ RowsFit'
  <1>1. RunsFit' /\ \A q \in Runs : run'[q] = IF q = r THEN IdleRun ELSE run[q]
    BY IdleResumes, GotoResumes DEF Abandon, Goto
  <1>2. CASE lock = r
    <2>1. lock' = NoRun /\ work' = db /\ db' = db
      BY <1>2 DEF Abandon
    <2>2. \A q \in Runs : q # r => run[q].pc \notin Holding
      BY <1>2 DEF ResumeInv, LockFits
    <2>3. \A q \in Runs : run'[q].pc \notin Holding
      BY <1>1, <2>2 DEF Holding, IdleRun
    <2>4. \A q \in Runs : run'[q].pc \in Scanned => db.hashes = tree
      BY <1>1, <1>2, <2>3 DEF ResumeInv, LockFits, Scanned, Holding, IdleRun
    <2>5. LockFits' /\ SeedFits'
      BY <2>1, <2>3, <2>4 DEF LockFits, SeedFits, Seeded, Scanned, Holding
    <2>6. RowsFit'
      BY <2>1 DEF ResumeInv, RowsFit, Sound, ReadyRows, CheckpointFits, SignedFits, Owed, Current
    <2> QED BY <1>1, <2>5, <2>6
  <1>3. CASE lock # r
    <2>1. UNCHANGED <<lock, work, db>>
      BY <1>3 DEF Abandon
    <2>2. LockFits' /\ SeedFits'
      BY <1>1, <2>1 DEF ResumeInv, LockFits, Holding, Scanned, IdleRun, SeedFits, Seeded,
             CheckpointFits, Owed, Current
    <2>3. Unready => Unready'
      BY <1>1, <1>3, <2>1 DEF Unready
    <2>4. RowsFit'
      BY <2>1, <2>3
         DEF ResumeInv, RowsFit, Sound, ReadyRows, CheckpointFits, SignedFits, Owed, Current
    <2> QED BY <1>1, <2>2, <2>4
  <1> QED BY <1>2, <1>3

\* A step of the lock holder inside its transaction.
LEMMA InsideResumes ==
  ASSUME ResumeInv, NEW r \in Runs, NEW s, Goto(r, s), ResumeFits(s),
         UNCHANGED <<tree, edits, db, lock>>, run[r].pc \in Holding,
         s.pc \in Scanned => work'.hashes = tree,
         work'.hashes \in {work.hashes, tree},
         Sound(work'), Seeded(s, work'),
         s.pc \in {"flows", "final"} \/ ReadyRows(work')
  PROVE  RunsFit' /\ LockFits' /\ SeedFits' /\ RowsFit'
  <1>1. RunsFit' /\ \A q \in Runs : run'[q] = IF q = r THEN s ELSE run[q]
    BY GotoResumes
  <1>2. lock = r /\ \A q \in Runs : q # r => run[q].pc \notin Holding
    BY DEF ResumeInv, LockFits
  <1>3. ASSUME NEW q \in Runs
        PROVE  /\ run'[q].pc \in Holding => lock' = q
               /\ run'[q].pc \in Scanned => work'.hashes = tree'
               /\ run'[q].pc \in {"join", "final"} /\ lock' # q => db'.hashes = tree'
               /\ Seeded(run'[q], work')
    <2>1. CASE q = r
      BY <1>1, <1>2, <2>1
    <2>2. CASE q # r
      <3>1. run'[q] = run[q] /\ run[q].pc \notin Holding
        BY <1>1, <1>2, <2>2
      <3> QED BY <3>1 DEF ResumeInv, LockFits, Seeded, Holding
    <2> QED BY <2>1, <2>2
  <1>4. LockFits' /\ SeedFits'
    BY <1>3 DEF LockFits, SeedFits, Seeded, CheckpointFits, Owed, Current
  <1>5. Unready' \/ ReadyRows(work')
    BY <1>1, <1>2 DEF Unready
  <1>6. RowsFit'
    BY <1>5 DEF ResumeInv, RowsFit, Sound, ReadyRows, CheckpointFits, SignedFits, Owed, Current
  <1> QED BY <1>1, <1>4, <1>6

\* Rows over the current files are sound.
LEMMA ScannedIsSound ==
  ASSUME ResumeInv, NEW w, w.hashes = tree, w.facts = tree,
         w.joinSig \in EngineSigs \cup {NoSig}
  PROVE  Sound(w)
  BY DEF ResumeInv, RowsFit, Sound

-----------------------------------------------------------------------------
(* The steps of a run                                                      *)

\* A process in the middle of its transaction has the lock to itself.
LEMMA HolderIsReady ==
  ASSUME ResumeInv, NEW r \in Runs, lock = r, run[r].pc \notin {"flows", "final"}
  PROVE  ReadyRows(work)
  <1>1. ~Unready
    BY DEF Unready
  <1> QED BY <1>1 DEF ResumeInv, RowsFit

LEMMA InventoryResumes ==
  ASSUME ResumeInv, NEW r \in Runs, Inventory(r)
  PROVE  RunsFit' /\ LockFits' /\ SeedFits' /\ RowsFit'
  <1> DEFINE s == run[r]
             t == [s EXCEPT !.pc = "hashed", !.hash = tree,
                            !.joined = IF s.resume THEN work.flows ELSE {},
                            !.cursor = IF s.resume THEN work.joinDone ELSE 0]
  <1>1. /\ s \in RunState /\ work \in Index /\ ResumeFits(s)
        /\ s.pc = "begun" /\ lock = r /\ s.pc \in Holding
    BY DEF ResumeInv, RunsFit, LockFits, TypeInv, TypeOK, Inventory, Holding
  <1>2. Goto(r, t) /\ UNCHANGED <<tree, edits, db, lock, work>>
    BY DEF Inventory
  <1>3. /\ s.sig \in Signatures /\ s.html = FALSE
        /\ s.timedOut = FALSE /\ s.calls = "full"
        /\ \A f \in Files : s.view[f] \in {Unread, tree[f]}
    BY <1>1 DEF ResumeFits
  <1>4. /\ t.pc = "hashed" /\ t.hash = tree /\ t.sig = s.sig /\ t.html = s.html
        /\ t.timedOut = s.timedOut /\ t.calls = s.calls /\ t.view = s.view
        /\ t.resume = s.resume /\ t.full = s.full
        /\ t.joined = IF s.resume THEN work.flows ELSE {}
        /\ t.cursor = IF s.resume THEN work.joinDone ELSE 0
    BY <1>1 DEF RunState
  <1> HIDE DEF t
  <1>5. ReadyRows(work) /\ Sound(work)
    BY <1>1, HolderIsReady DEF ResumeInv, RowsFit
  <1>6. ASSUME s.resume
        PROVE  /\ s.full = FALSE /\ work.hashes = tree /\ work.status = "partial"
               /\ work.joinSig = s.sig /\ s.sig \in EngineSigs
               /\ Prefix(tree, work.joinDone, s.sig) \subseteq work.flows
               /\ work.joinDone <= Entries(tree)
    <2>1. /\ s.full = FALSE /\ work.hashes = tree
          /\ work.status = "partial" /\ work.joinSig = s.sig
      BY <1>1, <1>6 DEF Inventory, ResumeAccepted, RunState
    <2>2. s.sig \in EngineSigs /\ s.sig # NoSig
      BY <1>3, <1>5, <2>1, NamesAssumption DEF Sound
    <2> QED BY <1>5, <2>1, <2>2 DEF ReadyRows, CheckpointFits, Owed, Current
  <1>7. ResumeFits(t)
    BY <1>3, <1>4, <1>6 DEF ResumeFits
  <1>8. Seeded(t, work')
    BY <1>2, <1>4, <1>5, <1>6 DEF Seeded, ReadyRows
  <1>9. t.pc \notin Scanned
    BY <1>4 DEF Scanned
  <1> QED BY <1>1, <1>2, <1>5, <1>7, <1>8, <1>9, InsideResumes

LEMMA ExtractResumes ==
  ASSUME ResumeInv, NEW r \in Runs, Extract(r)
  PROVE  RunsFit' /\ LockFits' /\ SeedFits' /\ RowsFit'
  <1> DEFINE s == run[r]
             v == [f \in Files |-> IF f \in Changed(s) THEN Read(s, f) ELSE s.view[f]]
             t == [s EXCEPT !.pc = IF StageNeeded(s) THEN "flows" ELSE "unchanged",
                            !.view = v]
             w == [work EXCEPT !.hashes = NewHashes(s), !.facts = NewFacts(s)]
  <1>1. /\ s \in RunState /\ work \in Index /\ tree \in Trees /\ work.hashes \in Trees
        /\ s.pc = "hashed" /\ ResumeFits(s) /\ lock = r /\ s.pc \in Holding
        /\ Seeded(s, work) /\ work.facts = work.hashes /\ Sound(work)
        /\ \A f \in Files : tree[f] <= edits + 1
    BY DEF ResumeInv, RunsFit, LockFits, SeedFits, TypeInv, TypeOK, Extract, Holding,
           Index, RowsFit, Sound
  <1>2. s.hash = tree /\ \A f \in Files : s.view[f] \in {Unread, tree[f]}
    BY <1>1 DEF ResumeFits
  <1>3. \A f \in Files : v[f] \in {Unread, tree[f]}
    BY <1>2 DEF Read
  <1>4. NewHashes(s) = tree
    <2>1. ASSUME NEW f \in Files PROVE NewHashes(s)[f] = tree[f]
      <3>1. CASE f \in Changed(s) \cup Deleted(s)
        BY <1>2, <3>1 DEF NewHashes
      <3>2. CASE f \notin Changed(s) \cup Deleted(s)
        BY <1>2, <3>2 DEF NewHashes, Changed, Deleted, Present
      <3> QED BY <3>1, <3>2
    <2> QED BY <1>1, <2>1 DEF NewHashes, Trees
  <1>5. NewFacts(s) = tree
    <2>1. ASSUME NEW f \in Files PROVE NewFacts(s)[f] = tree[f]
      <3>1. CASE f \in Changed(s)
        BY <1>2, <3>1 DEF NewFacts, Read
      <3>2. CASE f \notin Changed(s) /\ f \in Deleted(s)
        BY <1>2, <3>2 DEF NewFacts, Deleted
      <3>3. CASE f \notin Changed(s) /\ f \notin Deleted(s)
        BY <1>1, <1>2, <3>3 DEF NewFacts, Changed, Deleted, Present
      <3> QED BY <3>1, <3>2, <3>3
    <2> QED BY <1>1, <2>1 DEF NewFacts, Trees
  <1>6. Goto(r, t) /\ work' = w /\ UNCHANGED <<tree, edits, db, lock>>
    BY DEF Extract, Write
  <1>7. /\ work'.hashes = tree /\ work'.flows = work.flows
        /\ work'.flowSig = work.flowSig /\ work'.status = work.status
        /\ work'.joinSig = work.joinSig /\ work'.joinDone = work.joinDone
        /\ work'.joinMethods = work.joinMethods /\ work'.facts = tree
    BY <1>1, <1>4, <1>5, <1>6 DEF Index
  <1> HIDE DEF v
  <1>8. /\ t.pc \in {"flows", "unchanged"}
        /\ t.pc # "flows" => ~StageNeeded(s)
        /\ t.view = v /\ t.hash = s.hash /\ t.sig = s.sig /\ t.resume = s.resume
        /\ t.joined = s.joined /\ t.cursor = s.cursor /\ t.timedOut = s.timedOut
        /\ t.html = s.html /\ t.calls = s.calls /\ t.full = s.full
        /\ s.resume \in BOOLEAN
    BY <1>1 DEF RunState
  <1> HIDE DEF t
  <1>9. s.resume => t.pc = "flows"
    BY <1>1, <1>8 DEF Seeded, StageNeeded
  <1>10. ResumeFits(t)
    BY <1>1, <1>2, <1>3, <1>8, <1>9 DEF ResumeFits
  <1>11. ReadyRows(work)
    BY <1>1, HolderIsReady
  <1>12. Seeded(t, work')
    BY <1>1, <1>7, <1>8 DEF Seeded, CheckpointFits, Owed, Current
  <1>13. ASSUME t.pc # "flows" PROVE ReadyRows(work')
    <2>1. Changed(s) = {} /\ Deleted(s) = {}
      BY <1>8, <1>13 DEF StageNeeded
    <2>2. NewHashes(s) = work.hashes
      BY <1>1, <2>1 DEF NewHashes, Trees
    <2> QED BY <1>4, <1>7, <1>11, <2>2 DEF ReadyRows, CheckpointFits, SignedFits, Owed, Current
  <1>14. Sound(work')
    BY <1>1, <1>6, <1>7 DEF Sound
  <1> QED BY <1>1, <1>6, <1>7, <1>10, <1>12, <1>13, <1>14, InsideResumes

\* Does the stage join, and does the checkpoint fit what it joins?
Joins(s)   == s.sig # NoEngine /\ Present(tree) # {}
Matches(s) == /\ work.joinMethods = MethodsSignature(tree)
              /\ s.cursor <= Entries(tree)

LEMMA StageStartEffects ==
  ASSUME ResumeInv, NEW r \in Runs, StageStart(r)
  PROVE  /\ run[r].pc = "flows" /\ work.hashes = tree /\ Seeded(run[r], work)
         /\ Goto(r, run'[r]) /\ UNCHANGED <<tree, edits, db, lock>>
         /\ work'.flowSig = NoSig /\ work'.status = "partial" /\ work'.hashes = tree
         /\ work'.facts = work.facts
         /\ work'.flows = {w \in work.flows : Present(w.src) \subseteq Present(tree)}
         /\ work'.joinMethods = IF run[r].resume /\ Matches(run[r])
                                THEN work.joinMethods ELSE MethodsSignature(tree)
         /\ work'.joinDone = IF \/ run[r].resume /\ ~Matches(run[r])
                                \/ Joins(run[r]) /\ ~run[r].resume
                             THEN 0 ELSE work.joinDone
         /\ work'.joinSig = IF Joins(run[r]) /\ ~run[r].resume THEN run[r].sig
                                                               ELSE work.joinSig
         /\ run'[r].pc = IF Joins(run[r]) THEN "engine" ELSE "final"
         /\ run'[r].joined = IF Joins(run[r]) /\ run[r].resume /\ Matches(run[r])
                             THEN run[r].joined ELSE {}
         /\ run'[r].cursor = IF Joins(run[r]) /\ run[r].resume /\ Matches(run[r])
                             THEN run[r].cursor ELSE 0
         /\ run'[r].view = tree /\ run'[r].hash = tree /\ run'[r].sig = run[r].sig
         /\ run'[r].html = run[r].html /\ run'[r].timedOut = run[r].timedOut
         /\ run'[r].calls = run[r].calls /\ run'[r].resume = run[r].resume
  <1> DEFINE s == run[r]
             seen == [f \in Files |-> IF s.hash[f] = 0 THEN 0 ELSE Read(s, f)]
  <1>1. /\ s \in RunState /\ work \in Index /\ tree \in Trees /\ Seeded(s, work)
        /\ s.pc = "flows" /\ ResumeFits(s) /\ work.hashes = tree
    BY DEF ResumeInv, RunsFit, LockFits, SeedFits, TypeInv, TypeOK, StageStart, Scanned
  <1>2. /\ s.hash = tree /\ s.resume \in BOOLEAN
        /\ \A f \in Files : s.view[f] \in {Unread, tree[f]}
    BY <1>1 DEF ResumeFits, RunState
  <1>3. seen = tree
    BY <1>1, <1>2 DEF Read, Trees
  <1>4. Goto(r, run'[r]) /\ UNCHANGED <<tree, edits, db, lock>>
    BY StageStartRows DEF Goto, ResumeInv, TypeInv, TypeOK
  <1>5. /\ InProgress(s) \in Index /\ InProgress(s).flowSig = NoSig
        /\ InProgress(s).status = "partial" /\ InProgress(s).hashes = tree
        /\ InProgress(s).flows = {w \in work.flows : Present(w.src) \subseteq Present(tree)}
        /\ InProgress(s).joinMethods = work.joinMethods
        /\ InProgress(s).joinDone = work.joinDone
        /\ InProgress(s).joinSig = work.joinSig
        /\ InProgress(s).facts = work.facts
    BY <1>1, <1>2, InProgressType DEF InProgress, Index, ResumeInv
  <1>6. /\ work'.flowSig = NoSig /\ work'.status = "partial" /\ work'.hashes = tree
        /\ work'.facts = work.facts
        /\ work'.flows = {w \in work.flows : Present(w.src) \subseteq Present(tree)}
        /\ work'.joinMethods = IF s.resume /\ Matches(s) THEN work.joinMethods
                                                         ELSE MethodsSignature(tree)
        /\ work'.joinDone = IF \/ s.resume /\ ~Matches(s)
                               \/ Joins(s) /\ ~s.resume
                            THEN 0 ELSE work.joinDone
        /\ work'.joinSig = IF Joins(s) /\ ~s.resume THEN s.sig ELSE work.joinSig
    BY <1>3, <1>5 DEF StageStart, Write, Index, Joins, Matches
  <1>7. /\ run'[r].pc = IF Joins(s) THEN "engine" ELSE "final"
        /\ run'[r].joined = IF Joins(s) /\ s.resume /\ Matches(s) THEN s.joined ELSE {}
        /\ run'[r].cursor = IF Joins(s) /\ s.resume /\ Matches(s) THEN s.cursor ELSE 0
        /\ run'[r].view = tree /\ run'[r].hash = tree /\ run'[r].sig = s.sig
        /\ run'[r].html = s.html /\ run'[r].timedOut = s.timedOut
        /\ run'[r].calls = s.calls /\ run'[r].resume = s.resume
    BY <1>1, <1>2, <1>3
       DEF StageStart, Goto, ResumeInv, TypeInv, TypeOK, RunState, Joins, Matches
  <1> QED BY <1>1, <1>4, <1>6, <1>7

LEMMA StageStartResumes ==
  ASSUME ResumeInv, NEW r \in Runs, StageStart(r)
  PROVE  RunsFit' /\ LockFits' /\ SeedFits' /\ RowsFit'
  <1> DEFINE s == run[r]
             t == run'[r]
  <1>1. s \in RunState /\ ResumeFits(s) /\ s.pc \in Holding
    BY DEF ResumeInv, RunsFit, TypeInv, TypeOK, StageStart, Holding
  <1>2. /\ s.sig \in Signatures /\ s.html = FALSE
        /\ s.timedOut = FALSE /\ s.calls = "full" /\ s.resume \in BOOLEAN
        /\ s.resume = FALSE => s.joined = {} /\ s.cursor = 0
        /\ s.resume => /\ s.sig \in EngineSigs /\ s.cursor <= Entries(tree)
                       /\ Prefix(tree, s.cursor, s.sig) \subseteq s.joined
    BY <1>1, StageStartEffects DEF ResumeFits, RunState
  <1>3. Joins(s) => s.sig \in EngineSigs
    BY <1>2 DEF Joins, EngineSigs
  <1>4. ~Joins(s) => Expected(tree, s.sig) = AstFlows(tree)
    BY DEF Expected, Joins
  <1>5. 0 <= Entries(tree)
    BY PresentFinite
  <1>6. ResumeFits(t)
    BY <1>2, <1>3, <1>4, <1>5, StageStartEffects, EmptyPrefix DEF ResumeFits
  <1>7. Sound(work')
    BY <1>3, StageStartEffects, ScannedIsSound DEF ResumeInv, RowsFit, Sound
  <1>8. Seeded(t, work')
    BY StageStartEffects DEF Seeded
  <1>9. ASSUME Joins(s) PROVE ReadyRows(work')
    <2>1. ASSUME s.resume, Matches(s)
          PROVE  Prefix(tree, work.joinDone, s.sig) \subseteq work'.flows
      <3>1. /\ work.joinSig = s.sig /\ s.sig # NoSig
            /\ Prefix(tree, work.joinDone, s.sig) \subseteq work.flows
        <4>1. Seeded(s, work) /\ s.pc = "flows" /\ s.sig # NoSig
          BY <1>2, <2>1, StageStartEffects, NamesAssumption DEF EngineSigs
        <4> QED BY <2>1, <4>1 DEF Seeded, CheckpointFits, Owed, Current
      <3>2. \A w \in Prefix(tree, work.joinDone, s.sig) : w.src = tree
        BY DEF Prefix, JoinFlows
      <3> QED BY <3>1, <3>2, StageStartEffects
    <2>2. CASE s.resume /\ Matches(s)
      BY <2>1, <2>2, StageStartEffects
         DEF ReadyRows, CheckpointFits, SignedFits, Owed, Current, Seeded, Matches
    <2>3. CASE ~(s.resume /\ Matches(s))
      <3>1. work'.joinDone = 0 /\ work'.joinMethods = MethodsSignature(tree)
        BY <1>2, <1>9, <2>3, StageStartEffects
      <3> QED BY <1>5, <3>1, StageStartEffects, EmptyPrefix
              DEF ReadyRows, CheckpointFits, SignedFits, Owed, Current
    <2> QED BY <2>2, <2>3
  <1> QED BY <1>1, <1>6, <1>7, <1>8, <1>9, StageStartEffects, InsideResumes

\* Who commits at a checkpoint, and over what rows.
LEMMA CheckpointerFits ==
  ASSUME ResumeInv, NEW r \in Runs, lock = r, run[r].pc \in {"unchanged", "engine", "join"}
  PROVE  /\ run[r] \in RunState /\ work \in Index /\ ResumeFits(run[r])
         /\ work.hashes = tree /\ ReadyRows(work) /\ Sound(work)
  BY HolderIsReady DEF ResumeInv, RunsFit, LockFits, RowsFit, TypeInv, TypeOK, Scanned

LEMMA JoinCheckpointResumes ==
  ASSUME ResumeInv, NEW r \in Runs, NEW k \in Files, JoinCheckpoint(r, k)
  PROVE  RunsFit' /\ LockFits' /\ SeedFits' /\ RowsFit'
  <1> DEFINE s == run[r]
             joined == s.joined \cup JoinFlows(s.view, s.cursor, k, s.sig, s.calls)
             w == [Provisional(AstFlows(s.view) \cup joined) EXCEPT !.joinDone = k]
             t == [s EXCEPT !.joined = joined, !.cursor = k]
  <1>1. s.pc = "join" /\ lock = r /\ Goto(r, t) /\ Commit(w) /\ UNCHANGED <<tree, edits>>
        /\ s.cursor < k /\ k <= Entries(s.view)
    BY DEF JoinCheckpoint
  <1>2. /\ s \in RunState /\ work \in Index /\ ResumeFits(s)
        /\ work.hashes = tree /\ ReadyRows(work) /\ Sound(work)
        /\ work.joinSig \in {s.sig, NoSig}
    BY <1>1, CheckpointerFits DEF ResumeInv, SigFits
  <1>3. /\ s.view = tree /\ s.hash = tree /\ s.sig \in Signatures /\ s.html = FALSE
        /\ s.timedOut = FALSE /\ s.calls = "full" /\ s.sig \in EngineSigs
        /\ Prefix(tree, s.cursor, s.sig) \subseteq s.joined
        /\ \A f \in Files : s.view[f] \in {Unread, tree[f]}
    BY <1>1, <1>2 DEF ResumeFits
  <1>4. Prefix(tree, k, s.sig) \subseteq joined
    <2>1. s.cursor \in Nat /\ k \in Nat
      BY <1>2, SizesAssumption DEF RunState, Files
    <2> QED BY <1>1, <1>3, <2>1, BatchContinues DEF Prefix
  <1> HIDE DEF joined
  <1>5. /\ t.pc = "join" /\ t.joined = joined /\ t.cursor = k /\ t.calls = s.calls
        /\ t.timedOut = s.timedOut /\ t.view = s.view /\ t.hash = s.hash
        /\ t.sig = s.sig /\ t.html = s.html
    BY <1>1, <1>2 DEF RunState
  <1>6. /\ w.hashes = tree /\ w.flowSig = NoSig /\ w.status = "partial"
        /\ w.flows = AstFlows(tree) \cup joined /\ w.joinDone = k
        /\ w.joinSig = work.joinSig /\ w.joinMethods = work.joinMethods
        /\ w.facts = work.facts
    BY <1>2, <1>3 DEF Index, Provisional
  <1> HIDE DEF t, w
  <1>7. ResumeFits(t)
    BY <1>1, <1>3, <1>4, <1>5 DEF ResumeFits
  <1>8. ReadyRows(w) /\ Sound(w)
    BY <1>1, <1>2, <1>3, <1>4, <1>6 DEF ReadyRows, CheckpointFits, SignedFits, Owed, Current, Sound
  <1> QED BY <1>1, <1>5, <1>6, <1>7, <1>8, CommitResumes

LEMMA InputOutputResumes ==
  ASSUME ResumeInv, NEW r \in Runs, InputOutputCheckpoint(r)
  PROVE  RunsFit' /\ LockFits' /\ SeedFits' /\ RowsFit'
  <1> DEFINE s == run[r]
             w == [work EXCEPT
                     !.flows = AstFlows(s.view) \cup s.joined,
                     !.flowSig = NoSig,
                     !.joinDone = Entries(s.view),
                     !.inputOutput = IF s.timedOut THEN "partial" ELSE "complete"]
             t == [s EXCEPT !.pc = "final"]
  <1>1. s.pc = "join" /\ lock = r /\ Goto(r, t) /\ Commit(w) /\ UNCHANGED <<tree, edits>>
        /\ s.cursor = Entries(s.view)
    BY DEF InputOutputCheckpoint
  <1>2. /\ s \in RunState /\ work \in Index /\ ResumeFits(s)
        /\ work.hashes = tree /\ ReadyRows(work) /\ Sound(work)
        /\ work.joinSig \in {s.sig, NoSig}
    BY <1>1, CheckpointerFits DEF ResumeInv, SigFits
  <1>3. /\ s.view = tree /\ s.hash = tree /\ s.sig \in Signatures /\ s.html = FALSE
        /\ s.timedOut = FALSE /\ s.calls = "full" /\ s.sig \in EngineSigs
        /\ Prefix(tree, Entries(tree), s.sig) \subseteq s.joined
        /\ \A f \in Files : s.view[f] \in {Unread, tree[f]}
    BY <1>1, <1>2 DEF ResumeFits
  <1>4. Expected(tree, s.sig) \subseteq AstFlows(tree) \cup s.joined
    BY <1>3, WholePrefix
  <1>5. /\ t.pc = "final" /\ t.joined = s.joined /\ t.calls = s.calls
        /\ t.timedOut = s.timedOut /\ t.view = s.view /\ t.hash = s.hash
        /\ t.sig = s.sig /\ t.html = s.html
    BY <1>1, <1>2 DEF RunState
  <1>6. /\ w.hashes = tree /\ w.flowSig = NoSig /\ w.status = work.status
        /\ w.flows = AstFlows(tree) \cup s.joined /\ w.joinDone = Entries(tree)
        /\ w.joinSig = work.joinSig /\ w.joinMethods = work.joinMethods
        /\ w.facts = work.facts
    BY <1>2, <1>3 DEF Index
  <1> HIDE DEF t, w
  <1>7. ResumeFits(t)
    BY <1>3, <1>4, <1>5 DEF ResumeFits
  <1>8. ReadyRows(w) /\ Sound(w)
    BY <1>2, <1>3, <1>6, PresentFinite
       DEF ReadyRows, CheckpointFits, SignedFits, Owed, Current, Sound
  <1> QED BY <1>1, <1>5, <1>6, <1>7, <1>8, CommitResumes

LEMMA FinishResumes ==
  ASSUME ResumeInv, NEW r \in Runs, Finish(r)
  PROVE  RunsFit' /\ LockFits' /\ SeedFits' /\ RowsFit'
  <1> DEFINE s == run[r]
             w == [work EXCEPT
                     !.flows    = AstFlows(s.view) \cup s.joined,
                     !.flowSig  = IF s.timedOut THEN NoSig ELSE s.sig,
                     !.status   = IF s.timedOut THEN "partial" ELSE "complete",
                     !.joinSig  = NoSig,
                     !.joinDone = 0]
  <1>1. s.pc = "final" /\ lock = r /\ Goto(r, IdleRun) /\ Commit(w) /\ UNCHANGED <<tree, edits>>
    BY DEF Finish
  <1>2. work \in Index /\ ResumeFits(s) /\ work.hashes = tree /\ Sound(work)
    BY <1>1 DEF ResumeInv, RunsFit, LockFits, RowsFit, TypeInv, TypeOK, Scanned
  <1>3. /\ s.view = tree /\ s.timedOut = FALSE /\ s.sig \in Signatures
        /\ Expected(tree, s.sig) \subseteq AstFlows(tree) \cup s.joined
    BY <1>1, <1>2 DEF ResumeFits
  <1>4. /\ w.hashes = tree /\ w.flowSig = s.sig /\ w.joinSig = NoSig
        /\ w.flows = AstFlows(tree) \cup s.joined /\ w.facts = work.facts
    BY <1>2, <1>3 DEF Index
  <1> HIDE DEF w
  <1>5. ReadyRows(w) /\ Sound(w) /\ IdleRun.pc = "idle"
    BY <1>2, <1>3, <1>4 DEF ReadyRows, CheckpointFits, SignedFits, Owed, Current, Sound, IdleRun
  <1> QED BY <1>1, <1>4, <1>5, IdleResumes, CommitResumes

LEMMA AdvanceResumes ==
  ASSUME AllowTimeout = FALSE, ResumeInv, NEW r \in Runs, Advance(r)
  PROVE  RunsFit' /\ LockFits' /\ SeedFits' /\ RowsFit'
  <1> DEFINE s == run[r]
             Goal == RunsFit' /\ LockFits' /\ SeedFits' /\ RowsFit'
  <1>1. CASE Refuse(r) \/ LockLost(r)
    BY <1>1, AbandonResumes DEF Refuse, LockLost
  <1>2. CASE Skip(r)
    <2>1. s.pc = "unchanged" /\ Goto(r, IdleRun) /\ Commit(work) /\ UNCHANGED <<tree, edits>>
      BY <1>2 DEF Skip
    <2>2. lock = r
      BY <2>1 DEF ResumeInv, LockFits, Holding
    <2>3. work.hashes = tree /\ ReadyRows(work) /\ Sound(work) /\ IdleRun.pc = "idle"
      BY <2>1, <2>2, CheckpointerFits DEF IdleRun
    <2> QED BY <2>1, <2>2, <2>3, IdleResumes, CommitResumes
  <1>3. ASSUME NEW calls \in {"full", "cut"}, NEW timedOut \in BOOLEAN,
               CallGraphCheckpoint(r, calls, timedOut)
        PROVE  Goal
    <2> DEFINE w == [work EXCEPT !.callGraph = IF timedOut THEN "partial" ELSE "complete"]
               t == [s EXCEPT !.pc = "join", !.calls = calls, !.timedOut = timedOut]
    <2>1. /\ s.pc = "engine" /\ Goto(r, t) /\ Commit(w) /\ UNCHANGED <<tree, edits>>
          /\ timedOut = FALSE /\ calls = "full"
      BY <1>3 DEF CallGraphCheckpoint
    <2>2. lock = r
      BY <2>1 DEF ResumeInv, LockFits, Holding
    <2>3. /\ s \in RunState /\ work \in Index /\ ResumeFits(s)
          /\ work.hashes = tree /\ ReadyRows(work) /\ Sound(work)
      BY <2>1, <2>2, CheckpointerFits
    <2>4. /\ w.hashes = tree /\ w.flows = work.flows /\ w.flowSig = work.flowSig
          /\ w.status = work.status /\ w.joinSig = work.joinSig
          /\ w.joinDone = work.joinDone /\ w.joinMethods = work.joinMethods
          /\ w.facts = work.facts
      BY <2>3 DEF Index
    <2>5. /\ t.pc = "join" /\ t.calls = "full" /\ t.timedOut = FALSE
          /\ t.view = s.view /\ t.hash = s.hash /\ t.sig = s.sig
          /\ t.html = s.html /\ t.joined = s.joined /\ t.cursor = s.cursor
      BY <2>1, <2>3 DEF RunState
    <2> HIDE DEF t, w
    <2>6. ResumeFits(t)
      BY <2>1, <2>3, <2>5 DEF ResumeFits
    <2>7. ReadyRows(w) /\ Sound(w)
      BY <2>3, <2>4 DEF ReadyRows, CheckpointFits, SignedFits, Owed, Current, Sound
    <2> QED BY <2>1, <2>2, <2>4, <2>3, <2>5, <2>6, <2>7, CommitResumes
  <1>4. ASSUME NEW kept \in SUBSET run[r].joined, ProgressCheckpoint(r, kept)
        PROVE  Goal
    <2>1. s.pc = "join" /\ s.html
      BY <1>4 DEF ProgressCheckpoint, Reporting
    <2> QED BY <2>1 DEF ResumeInv, RunsFit, ResumeFits
  <1>5. CASE Reopen(r)
    <2>1. /\ lock = NoRun /\ run[r].pc \in {"join", "final"}
          /\ lock' = r /\ work' = db /\ UNCHANGED <<tree, edits, db, run>>
      BY <1>5 DEF Reopen
    <2>2. \A q \in Runs : lock # q /\ run[q].pc \notin Holding
      BY <2>1, NamesAssumption DEF ResumeInv, LockFits
    <2>3. LockFits' /\ SeedFits'
      BY <2>1, <2>2 DEF ResumeInv, LockFits, SeedFits, Seeded, Scanned, Holding
    <2>4. RowsFit'
      BY <2>1 DEF ResumeInv, RowsFit, Sound, ReadyRows, CheckpointFits, SignedFits, Owed, Current
    <2> QED BY <2>1, <2>3, <2>4 DEF ResumeInv, RunsFit, ResumeFits
  <1> QED BY <1>1, <1>2, <1>3, <1>4, <1>5, InventoryResumes, ExtractResumes,
             StageStartResumes, JoinCheckpointResumes, InputOutputResumes, FinishResumes
          DEF Advance

\* An edit gives a file a content that is newer than any index, or an earlier
\* one where files may get one back.
LEMMA EditedFiles ==
  ASSUME edits \in 0..MaxEdits, tree \in Trees, \A g \in Files : tree[g] <= edits + 1,
         NEW f \in Files, NEW v \in Versions, Edit(f, v)
  PROVE  /\ edits \in Nat /\ edits' = edits + 1
         /\ v # 0 /\ Reverts = FALSE => v = edits + 2
         /\ \A g \in Files : /\ tree'[g] = IF g = f THEN v ELSE tree[g]
                             /\ tree'[g] <= edits' + 1
  <1>1. /\ edits \in Nat /\ edits' = edits + 1
        /\ v \in {0, edits + 2} \cup (IF Reverts THEN 1..(edits + 1) ELSE {})
        /\ tree \in Trees /\ tree' = [tree EXCEPT ![f] = v]
    BY SizesAssumption DEF Edit
  <1>2. \A g \in Files : /\ tree[g] \in Nat /\ tree[g] <= edits + 1
                         /\ tree'[g] = IF g = f THEN v ELSE tree[g]
    BY <1>1, VersionsAreNaturals DEF Trees
  <1>3. v \in Nat /\ v <= edits + 2 /\ (v # 0 /\ Reverts = FALSE => v = edits + 2)
    BY <1>1
  <1> QED BY <1>1, <1>2, <1>3

\* What an index of before an edit owes, it owed before.
LEMMA EditedIndex ==
  ASSUME edits \in 0..MaxEdits, tree \in Trees, \A g \in Files : tree[g] <= edits + 1,
         NEW f \in Files, NEW v \in Versions, Edit(f, v),
         NEW w \in Index, Sound(w)
  PROVE  /\ \A g \in Files : w.hashes[g] <= edits' + 1
         /\ Reverts \/ (\A g \in Present(w.hashes) : tree'[g] = w.hashes[g])
               => Owed(w)
  <1>1. \A g \in Files : w.hashes[g] \in Nat /\ w.hashes[g] <= edits + 1
    BY VersionsAreNaturals DEF Index, Trees, Sound
  <1> DEFINE h == w.hashes
  <1>2. /\ edits \in Nat /\ edits' = edits + 1
        /\ v # 0 /\ Reverts = FALSE => v = edits + 2
        /\ \A g \in Files : tree'[g] = IF g = f THEN v ELSE tree[g]
    BY EditedFiles
  <1>3. \A g \in Files : h[g] <= edits' + 1
    BY <1>1, <1>2
  <1>4. ASSUME Reverts = FALSE, \A g \in Present(w.hashes) : tree'[g] = w.hashes[g]
        PROVE  Current(w)
    <2>1. f \notin Present(w.hashes)
      <3> SUFFICES ASSUME f \in Present(w.hashes) PROVE FALSE
        OBVIOUS
      <3>1. h[f] = v /\ v # 0
        BY <1>4, <1>2 DEF Present
      <3> HIDE DEF h
      <3>2. h[f] <= edits + 1 /\ v = edits + 2 /\ edits \in Nat
        BY <1>1, <1>4, <1>2, <3>1 DEF h
      <3> QED BY <3>1, <3>2
    <2> QED BY <1>4, <1>2, <2>1 DEF Current, Present
  <1>5. Reverts \in BOOLEAN
    BY OptionsAssumption
  <1> QED BY <1>3, <1>4, <1>5 DEF Owed

\* The other steps.
LEMMA EnvironmentResumes ==
  ASSUME PlainRuns, ResumeInv, [Next]_vars
  PROVE  RunsFit' /\ LockFits' /\ SeedFits' /\ RowsFit'
  <1> DEFINE Goal == RunsFit' /\ LockFits' /\ SeedFits' /\ RowsFit'
  <1>1. ASSUME NEW r \in Runs, NEW sig \in Signatures, NEW full \in BOOLEAN,
               NEW resume \in BOOLEAN, NEW html \in BOOLEAN,
               Begin(r, sig, full, resume, html)
        PROVE  Goal
    <2>1. PICK cached \in IF ParseBeforeInventory THEN SUBSET Present(tree) ELSE {{}} :
             Goto(r, [IdleRun EXCEPT
                        !.pc = "begun", !.sig = sig, !.full = full,
                        !.resume = resume, !.html = html,
                        !.view = [f \in Files |-> IF f \in cached THEN tree[f]
                                                                  ELSE Unread]])
      BY <1>1 DEF Begin
    <2> DEFINE t == [IdleRun EXCEPT
                       !.pc = "begun", !.sig = sig, !.full = full,
                       !.resume = resume, !.html = html,
                       !.view = [f \in Files |-> IF f \in cached THEN tree[f]
                                                                 ELSE Unread]]
    <2>2. /\ t.pc = "begun" /\ t.sig = sig /\ t.html = html /\ t.joined = {}
          /\ t.cursor = 0 /\ t.timedOut = FALSE /\ t.calls = "full"
          /\ \A f \in Files : t.view[f] \in {Unread, tree[f]}
      BY DEF IdleRun
    <2>3. Goto(r, t) /\ html = FALSE
      BY <1>1, <2>1 DEF Begin, PlainRuns
    <2> HIDE DEF t
    <2>4. ResumeFits(t)
      BY <2>2, <2>3 DEF ResumeFits
    <2>5. lock = NoRun /\ lock' = r /\ work' = db /\ UNCHANGED <<tree, edits, db>>
      BY <1>1 DEF Begin
    <2>6. RunsFit' /\ \A q \in Runs : run'[q] = IF q = r THEN t ELSE run[q]
      BY <2>3, <2>4, <2>5, GotoResumes
    <2>7. \A q \in Runs : run[q].pc \notin Holding
      BY <2>5, NamesAssumption DEF ResumeInv, LockFits
    <2>8. LockFits'
      BY <2>2, <2>5, <2>6, <2>7, NamesAssumption DEF ResumeInv, LockFits, Scanned, Holding
    <2>9. SeedFits'
      BY <2>2, <2>6, <2>7 DEF SeedFits, Seeded, Holding
    <2>10. RowsFit'
      BY <2>5 DEF ResumeInv, RowsFit, Sound, ReadyRows, CheckpointFits, SignedFits, Owed, Current
    <2> QED BY <2>6, <2>8, <2>9, <2>10
  <1>2. ASSUME NEW r \in Runs, Advance(r) PROVE Goal
    BY <1>2, AdvanceResumes DEF PlainRuns
  <1>3. ASSUME NEW r \in Runs, Stop(r) PROVE Goal
    BY <1>3, AbandonResumes DEF Stop
  <1>4. ASSUME NEW f \in Files, NEW v \in Versions, Edit(f, v) PROVE Goal
    <2>1. \A q \in Runs : run[q].pc = "idle"
      BY <1>4 DEF Edit, AtRest, PlainRuns
    <2>2. UNCHANGED <<lock, db, work, run>>
      BY <1>4 DEF Edit
    <2>3. RunsFit' /\ LockFits' /\ SeedFits'
      BY <2>1, <2>2 DEF RunsFit, ResumeFits, LockFits, Holding, Scanned, SeedFits, Seeded
    <2>4. db \in Index /\ work \in Index /\ Sound(db) /\ Sound(work)
      BY DEF ResumeInv, RowsFit, TypeInv, TypeOK
    <2>5. /\ edits \in 0..MaxEdits /\ tree \in Trees
          /\ \A g \in Files : tree[g] <= edits + 1
      BY DEF ResumeInv, RowsFit, TypeInv, TypeOK
    <2>6. \A g \in Files : tree'[g] <= edits' + 1
      BY <1>4, <2>5, EditedFiles
    <2>7. Sound(db)' /\ Sound(work)'
      BY <1>4, <2>2, <2>4, <2>5, EditedIndex DEF Sound
    <2>8. (Owed(db)' => Owed(db)) /\ (Owed(work)' => Owed(work))
      BY <1>4, <2>2, <2>4, <2>5, EditedIndex DEF Owed, Current
    <2>9. RowsFit'
      BY <2>1, <2>2, <2>6, <2>7, <2>8
         DEF ResumeInv, RowsFit, ReadyRows, CheckpointFits, SignedFits, Unready
    <2> QED BY <2>3, <2>9
  <1>5. ASSUME UNCHANGED vars PROVE Goal
    BY <1>5 DEF vars, ResumeInv, RunsFit, ResumeFits, LockFits, SeedFits, Seeded, RowsFit,
                Sound, ReadyRows, CheckpointFits, SignedFits, Owed, Current, Unready
  <1> QED BY <1>1, <1>2, <1>3, <1>4, <1>5 DEF Next

\* With one process, the rows its join finds are those it wrote.
LEMMA OwnSignature ==
  ASSUME PlainRuns, OneProcess, ResumeInv, [Next]_vars
  PROVE  SigFits'
  <1>0. ASSUME NEW r \in Runs
        PROVE  /\ run \in [Runs -> RunState] /\ run[r] \in RunState
               /\ work \in Index /\ db \in Index
    BY DEF ResumeInv, TypeInv, TypeOK
  <1>1. ASSUME NEW r \in Runs, run'[r].pc \notin {"engine", "join"} PROVE SigFits'
    BY <1>1 DEF SigFits, OneProcess
  <1>2. ASSUME NEW r \in Runs, Abandon(r) PROVE SigFits'
    <2>1. run'[r].pc = "idle"
      BY <1>0, <1>2 DEF IdleRun, Abandon
    <2> QED BY <1>1, <2>1
  <1>3. ASSUME NEW r \in Runs, NEW sig \in Signatures, NEW full \in BOOLEAN,
               NEW resume \in BOOLEAN, NEW html \in BOOLEAN,
               Begin(r, sig, full, resume, html)
        PROVE  SigFits'
    <2>1. run'[r].pc = "begun"
      BY <1>0, <1>3 DEF Begin, Goto, IdleRun
    <2> QED BY <1>1, <2>1
  <1>4. ASSUME NEW r \in Runs, Inventory(r) \/ Extract(r) \/ Skip(r)
                               \/ InputOutputCheckpoint(r) \/ Finish(r)
        PROVE  SigFits'
    <2>1. Inventory(r) => run'[r].pc = "hashed"
      BY <1>0 DEF Inventory, Goto, RunState
    <2>2. Extract(r) => run'[r].pc \in {"flows", "unchanged"}
      BY <1>0 DEF Extract, Goto, RunState
    <2>3. InputOutputCheckpoint(r) => run'[r].pc = "final"
      BY <1>0 DEF InputOutputCheckpoint, Goto, RunState
    <2>4. Skip(r) \/ Finish(r) => run'[r].pc = "idle"
      BY <1>0 DEF Skip, Finish, Goto, IdleRun
    <2> QED BY <1>1, <1>4, <2>1, <2>2, <2>3, <2>4
  <1>5. ASSUME NEW r \in Runs, StageStart(r) PROVE SigFits'
    <2>1. /\ run[r].pc = "flows" /\ Seeded(run[r], work) /\ run[r].resume \in BOOLEAN
          /\ InProgress(run[r]) \in Index /\ InProgress(run[r]).joinSig = work.joinSig
      BY <1>0, <1>5, InProgressType
         DEF StageStart, ResumeInv, SeedFits, InProgress, Index, RunState
    <2>2. run'[r].sig = run[r].sig /\ run'[r].pc \in {"engine", "final"}
      BY <1>0, <1>5 DEF StageStart, Goto, RunState
    <2> DEFINE seen  == [f \in Files |-> IF run[r].hash[f] = 0 THEN 0 ELSE Read(run[r], f)]
               joins == run[r].sig # NoEngine /\ Present(seen) # {}
    <2>3. run'[r].pc = "engine" /\ run[r].resume = FALSE => work'.joinSig = run[r].sig
      <3>1. joins /\ run[r].resume = FALSE => work'.joinSig = run[r].sig
        BY <1>5, <2>1 DEF StageStart, Write, Index
      <3>2. run'[r].pc = "engine" => joins
        BY <1>0, <1>5 DEF StageStart, Goto, RunState
      <3> QED BY <3>1, <3>2
    <2>4. run[r].resume => work'.joinSig = run[r].sig
      BY <1>5, <2>1 DEF StageStart, Write, Index, Seeded
    <2> QED BY <2>1, <2>2, <2>3, <2>4 DEF SigFits, OneProcess
  <1>6. ASSUME NEW r \in Runs, NEW calls \in {"full", "cut"}, NEW timedOut \in BOOLEAN,
               CallGraphCheckpoint(r, calls, timedOut)
        PROVE  SigFits'
    <2>1. run[r].pc = "engine" /\ run'[r].sig = run[r].sig
          /\ db'.joinSig = work.joinSig /\ work'.joinSig = work.joinSig
      BY <1>0, <1>6 DEF CallGraphCheckpoint, Commit, Goto, RunState, Index
    <2> QED BY <2>1 DEF SigFits, OneProcess, ResumeInv
  <1>7. ASSUME NEW r \in Runs, NEW k \in Files, JoinCheckpoint(r, k) PROVE SigFits'
    <2>1. run[r].pc = "join" /\ run'[r].sig = run[r].sig
          /\ db'.joinSig = work.joinSig /\ work'.joinSig = work.joinSig
      BY <1>0, <1>7 DEF JoinCheckpoint, Commit, Goto, RunState, Index, Provisional
    <2> QED BY <2>1 DEF SigFits, OneProcess, ResumeInv
  <1>8. ASSUME NEW r \in Runs, NEW kept \in SUBSET run[r].joined,
               ProgressCheckpoint(r, kept)
        PROVE  SigFits'
    <2>1. run[r].pc = "join" /\ run[r].html
      BY <1>8 DEF ProgressCheckpoint, Reporting
    <2> QED BY <2>1 DEF ResumeInv, RunsFit, ResumeFits
  <1>9. ASSUME NEW r \in Runs, Reopen(r) PROVE SigFits'
    BY <1>9 DEF Reopen, SigFits, OneProcess, ResumeInv
  <1>10. ASSUME UNCHANGED <<run, work, db>> PROVE SigFits'
    BY <1>10 DEF SigFits, ResumeInv
  <1> QED BY <1>2, <1>3, <1>4, <1>5, <1>6, <1>7, <1>8, <1>9, <1>10
          DEF Next, Advance, Refuse, LockLost, Stop, Edit, vars

LEMMA ResumeStep ==
  ASSUME PlainRuns
  PROVE  ResumeInv /\ [Next]_vars => ResumeInv'
  <1> SUFFICES ASSUME ResumeInv, [Next]_vars PROVE ResumeInv'
    OBVIOUS
  <1>1. TypeInv'
    BY TypeInvStep DEF ResumeInv
  <1>2. RunsFit' /\ LockFits' /\ SeedFits' /\ RowsFit'
    BY EnvironmentResumes
  <1>3. SigFits'
    <2>1. CASE OneConfiguration
      <3>1. ASSUME NEW q \in Runs, run'[q].pc \in {"engine", "join"}
            PROVE  run'[q].sig \in EngineSigs
        BY <1>2, <3>1 DEF RunsFit, ResumeFits
      <3>2. /\ db'.joinSig \in EngineSigs \cup {NoSig}
            /\ work'.joinSig \in EngineSigs \cup {NoSig}
        BY <1>2 DEF RowsFit, Sound
      <3> QED BY <2>1, <3>1, <3>2 DEF SigFits, OneConfiguration
    <2>2. CASE OneProcess
      BY <2>2, OwnSignature
    <2> QED BY <2>1, <2>2 DEF PlainRuns
  <1> QED BY <1>1, <1>2, <1>3 DEF ResumeInv

LEMMA ResumeInit == Init => ResumeInv
  <1> SUFFICES ASSUME Init PROVE ResumeInv
    OBVIOUS
  <1>1. TypeInv /\ \A r \in Runs : run[r] = IdleRun
    BY TypeInvInit DEF Init
  <1>2. \A r \in Runs : run[r].pc = "idle"
    BY <1>1 DEF IdleRun
  <1>3. LockFits /\ SeedFits /\ SigFits
    BY <1>2 DEF LockFits, SeedFits, Seeded, SigFits, Holding, Scanned
  <1>4. RunsFit
    BY <1>1, IdleResumes DEF RunsFit
  <1>5. \A f \in Files : tree[f] \in {0, 1} /\ EmptyIndex.hashes[f] = 0
    BY DEF Init, EmptyIndex, Absent
  <1>6. RowsFit
    BY <1>5 DEF Init, RowsFit, Sound, ReadyRows, CheckpointFits, SignedFits, Owed, Current, EmptyIndex
  <1> QED BY <1>1, <1>3, <1>4, <1>6 DEF ResumeInv

\* What fitting rows mean for the committed index.
LEMMA FittingRows == RowsFit => CheckpointHoldsItsPrefix /\ SettledMissesNothing
  <1>1. RowsFit => CheckpointHoldsItsPrefix
    <2> SUFFICES ASSUME RowsFit, db.hashes = tree, db.joinSig # NoSig,
                        NEW f \in Present(tree), Place(tree, f) <= db.joinDone
                 PROVE  \E w \in db.flows : /\ w.kind = "full" /\ w.entry = f
                                            /\ w.src = tree /\ w.sig = db.joinSig
      BY DEF CheckpointHoldsItsPrefix
    <2> DEFINE w == [kind |-> "full", entry |-> f, src |-> tree, sig |-> db.joinSig]
    <2>1. w \in Prefix(tree, db.joinDone, db.joinSig)
      BY PlaceBounds DEF Prefix, JoinFlows
    <2>2. w \in db.flows
      BY <2>1 DEF RowsFit, ReadyRows, CheckpointFits, Owed, Current
    <2> QED BY <2>2
  <1>2. RowsFit => SettledMissesNothing
    BY DEF RowsFit, ReadyRows, SignedFits, Settled, SettledMissesNothing, Owed, Current
  <1> QED BY <1>1, <1>2

\* A committed join checkpoint comes with the flows of the entries it counts: a
\* crash between two checkpoints and a resume that skips the joined entries
\* lose none, however often they happen (service.py _index_repo, code_flows.py
\* materialize_call_graph_flows).
THEOREM ResumesLoseNothing ==
  ASSUME PlainRuns
  PROVE  Spec => []CheckpointHoldsItsPrefix
  <1>1. ResumeInv => CheckpointHoldsItsPrefix
    BY FittingRows DEF ResumeInv
  <1>2. ResumeInv /\ [Next]_vars => ResumeInv'
    BY ResumeStep
  <1> QED BY <1>1, <1>2, ResumeInit, PTL DEF Spec

\* A settled snapshot misses no flow of its files: the next index skips the
\* stage, so a flow that a resume lost would stay lost (service.py
\* should_index_flows).
THEOREM SettledIsComplete ==
  ASSUME PlainRuns
  PROVE  Spec => []SettledMissesNothing
  <1>1. ResumeInv => SettledMissesNothing
    BY FittingRows DEF ResumeInv
  <1>2. ResumeInv /\ [Next]_vars => ResumeInv'
    BY ResumeStep
  <1> QED BY <1>1, <1>2, ResumeInit, PTL DEF Spec

-----------------------------------------------------------------------------
(* With one process, the cursor of a resumed run is what is committed.     *)

ProgressFits ==
    \A r \in Runs :
       /\ run[r].pc = "begun" => work = db
       /\ run[r].pc \in {"hashed", "flows", "engine", "join"} /\ run[r].resume =>
             work.joinDone = run[r].cursor /\ db.joinDone = run[r].cursor
       /\ run[r].pc = "final" /\ run[r].resume => db.joinDone <= Entries(tree)

ProgressInv == ResumeInv /\ ProgressFits

\* The committed join stays as far as it was, or the snapshot is complete.
Further == db'.joinDone >= db.joinDone \/ db'.status = "complete"

LEMMA ProgressAdvance ==
  ASSUME PlainRuns, OneProcess, ProgressInv, NEW r \in Runs, Advance(r)
  PROVE  ProgressFits' /\ (run[r].resume => Further)
  <1> DEFINE s == run[r]
             Goal == ProgressFits' /\ (s.resume => Further)
             FitsNow ==
               /\ run'[r].pc = "begun" => work' = db'
               /\ run'[r].pc \in {"hashed", "flows", "engine", "join"} /\ run'[r].resume =>
                     work'.joinDone = run'[r].cursor /\ db'.joinDone = run'[r].cursor
               /\ run'[r].pc = "final" /\ run'[r].resume => db'.joinDone <= Entries(tree')
  <1>0. /\ run \in [Runs -> RunState] /\ s \in RunState /\ work \in Index /\ db \in Index
        /\ db.joinDone \in Nat /\ s.cursor \in Nat /\ s.resume \in BOOLEAN
    BY SizesAssumption DEF ProgressInv, ResumeInv, TypeInv, TypeOK, Index, RunState
  <1>1. ASSUME FitsNow PROVE ProgressFits'
    BY <1>1 DEF ProgressFits, OneProcess
  <1>2. UNCHANGED db => Further
    BY <1>0 DEF Further
  <1> HIDE DEF FitsNow
  <1>3. CASE Refuse(r) \/ LockLost(r)
    <2>1. run'[r].pc = "idle" /\ UNCHANGED db
      BY <1>0, <1>3 DEF Refuse, LockLost, Abandon, IdleRun
    <2> QED BY <1>1, <1>2, <2>1 DEF FitsNow
  <1>4. CASE Inventory(r)
    <2>1. /\ s.pc = "begun" /\ run'[r].pc = "hashed" /\ UNCHANGED <<work, db>>
          /\ run'[r].resume = s.resume
          /\ run'[r].cursor = IF s.resume THEN work.joinDone ELSE 0
      BY <1>0, <1>4 DEF Inventory, Goto, RunState
    <2>2. work = db
      BY <2>1 DEF ProgressInv, ProgressFits
    <2> QED BY <1>1, <1>2, <2>1, <2>2 DEF FitsNow
  <1>5. CASE Extract(r)
    <2>1. /\ s.pc = "hashed" /\ run'[r].pc \in {"flows", "unchanged"} /\ UNCHANGED db
          /\ run'[r].resume = s.resume /\ run'[r].cursor = s.cursor
          /\ work'.joinDone = work.joinDone
      BY <1>0, <1>5 DEF Extract, Goto, RunState, Write, Index
    <2> QED BY <1>1, <1>2, <2>1 DEF FitsNow, ProgressInv, ProgressFits
  <1>6. CASE Skip(r)
    <2>1. s.pc = "unchanged" /\ run'[r].pc = "idle"
      BY <1>0, <1>6 DEF Skip, Goto, IdleRun
    <2>2. s.resume = FALSE
      BY <2>1 DEF ProgressInv, ResumeInv, RunsFit, ResumeFits
    <2> QED BY <1>1, <2>1, <2>2 DEF FitsNow
  <1>7. CASE StageStart(r)
    <2>1. ResumeInv /\ ProgressFits /\ s.pc = "flows"
      BY <1>7 DEF ProgressInv, StageStart
    <2>2. s.resume => /\ Matches(s) /\ s.cursor <= Entries(tree)
                      /\ work.joinDone = s.cursor /\ db.joinDone = s.cursor
      <3>1. ASSUME s.resume
            PROVE  /\ work.joinSig = s.sig /\ s.sig \in EngineSigs
                   /\ s.cursor <= Entries(tree) /\ work.hashes = tree
                   /\ CheckpointFits(work)
        BY <2>1, <3>1 DEF ResumeInv, RunsFit, ResumeFits, SeedFits, Seeded
      <3>2. s.resume => Matches(s)
        BY <3>1, NamesAssumption DEF CheckpointFits, Matches, EngineSigs
      <3> QED BY <2>1, <3>1, <3>2 DEF ProgressFits
    <2>3. /\ s.resume => work'.joinDone = work.joinDone
          /\ UNCHANGED <<tree, edits, db>> /\ run'[r].resume = s.resume
          /\ run'[r].pc \in {"engine", "final"}
          /\ run'[r].pc = "engine" /\ s.resume => run'[r].cursor = s.cursor
      BY <1>0, <1>7, <2>1, <2>2, StageStartEffects
    <2> QED BY <1>1, <1>2, <2>2, <2>3 DEF FitsNow
  <1>8. ASSUME NEW calls \in {"full", "cut"}, NEW timedOut \in BOOLEAN,
               CallGraphCheckpoint(r, calls, timedOut)
        PROVE  Goal
    <2>1. /\ s.pc = "engine" /\ run'[r].pc = "join"
          /\ run'[r].resume = s.resume /\ run'[r].cursor = s.cursor
          /\ work'.joinDone = work.joinDone /\ db'.joinDone = work.joinDone
      BY <1>0, <1>8 DEF CallGraphCheckpoint, Goto, RunState, Commit, Index
    <2> QED BY <1>0, <1>1, <2>1 DEF FitsNow, ProgressInv, ProgressFits, Further
  <1>9. ASSUME NEW k \in Files, JoinCheckpoint(r, k) PROVE Goal
    <2>1. /\ s.pc = "join" /\ run'[r].pc = "join" /\ s.cursor < k
          /\ run'[r].resume = s.resume /\ run'[r].cursor = k
          /\ work'.joinDone = k /\ db'.joinDone = k /\ k \in Nat
      BY <1>0, <1>9, SizesAssumption
         DEF JoinCheckpoint, Goto, RunState, Commit, Index, Provisional, Files
    <2> QED BY <1>0, <1>1, <2>1 DEF FitsNow, ProgressInv, ProgressFits, Further
  <1>10. ASSUME NEW kept \in SUBSET run[r].joined, ProgressCheckpoint(r, kept) PROVE Goal
    <2>1. s.pc = "join" /\ s.html
      BY <1>10 DEF ProgressCheckpoint, Reporting
    <2> QED BY <2>1 DEF ProgressInv, ResumeInv, RunsFit, ResumeFits
  <1>11. CASE InputOutputCheckpoint(r)
    <2>1. /\ s.pc = "join" /\ run'[r].pc = "final" /\ s.cursor = Entries(s.view)
          /\ run'[r].resume = s.resume /\ db'.joinDone = Entries(s.view)
          /\ UNCHANGED <<tree, edits>>
      BY <1>0, <1>11 DEF InputOutputCheckpoint, Goto, RunState, Commit, Index
    <2>2. s.view = tree /\ Entries(tree) \in Nat
      BY <2>1, PresentFinite DEF ProgressInv, ResumeInv, RunsFit, ResumeFits
    <2> QED BY <1>0, <1>1, <2>1, <2>2 DEF FitsNow, ProgressInv, ProgressFits, Further
  <1>12. CASE Finish(r)
    <2>1. s.pc = "final" /\ run'[r].pc = "idle"
          /\ (s.timedOut = FALSE => db'.status = "complete")
      BY <1>0, <1>12 DEF Finish, Goto, IdleRun, Commit, Index
    <2>2. s.timedOut = FALSE
      BY <2>1 DEF ProgressInv, ResumeInv, RunsFit, ResumeFits
    <2> QED BY <1>1, <2>1, <2>2 DEF FitsNow, Further
  <1>13. CASE Reopen(r)
    <2>1. UNCHANGED <<tree, edits, db, run>> /\ work' = db /\ s.pc \in {"join", "final"}
      BY <1>13 DEF Reopen
    <2> QED BY <1>1, <1>2, <2>1 DEF FitsNow, ProgressInv, ProgressFits
  <1> QED BY <1>3, <1>4, <1>5, <1>6, <1>7, <1>8, <1>9, <1>10, <1>11, <1>12, <1>13
          DEF Advance

LEMMA ProgressStep ==
  ASSUME PlainRuns, OneProcess, ProgressInv, [Next]_vars
  PROVE  /\ ProgressInv'
         /\ (\E r \in Runs : lock = r /\ run[r].resume) => Further
  <1> DEFINE Goal == /\ ProgressFits'
                     /\ (\E r \in Runs : lock = r /\ run[r].resume) => Further
  <1>0. run \in [Runs -> RunState] /\ db \in Index /\ db.joinDone \in Nat
    BY SizesAssumption DEF ProgressInv, ResumeInv, TypeInv, TypeOK, Index
  <1>1. UNCHANGED db => Further
    BY <1>0 DEF Further
  <1>2. ASSUME NEW r \in Runs, NEW sig \in Signatures, NEW full \in BOOLEAN,
               NEW resume \in BOOLEAN, NEW html \in BOOLEAN,
               Begin(r, sig, full, resume, html)
        PROVE  Goal
    <2>1. run'[r].pc = "begun" /\ work' = db /\ UNCHANGED db
      BY <1>0, <1>2 DEF Begin, Goto, IdleRun
    <2> QED BY <1>1, <2>1 DEF ProgressFits, OneProcess
  <1>3. ASSUME NEW r \in Runs, Advance(r) PROVE Goal
    BY <1>3, ProgressAdvance DEF OneProcess
  <1>4. ASSUME NEW r \in Runs, Stop(r) PROVE Goal
    <2>1. run'[r].pc = "idle" /\ UNCHANGED db
      BY <1>0, <1>4 DEF Stop, Abandon, IdleRun
    <2> QED BY <1>1, <2>1 DEF ProgressFits, OneProcess
  <1>5. ASSUME NEW f \in Files, NEW v \in Versions, Edit(f, v) PROVE Goal
    <2>1. (\A q \in Runs : run[q].pc = "idle") /\ UNCHANGED <<run, db>>
      BY <1>5 DEF Edit, AtRest, PlainRuns
    <2> QED BY <1>1, <2>1 DEF ProgressFits
  <1>6. ASSUME UNCHANGED vars PROVE Goal
    BY <1>1, <1>6 DEF vars, ProgressInv, ProgressFits
  <1>7. Goal
    BY <1>2, <1>3, <1>4, <1>5, <1>6 DEF Next
  <1> QED BY <1>7, ResumeStep DEF ProgressInv

\* A resumed run never takes the committed join back: alone on the store, it
\* restarts no join it could continue, whatever was edited or interrupted
\* before it.
THEOREM ResumesAdvance ==
  ASSUME PlainRuns, OneProcess
  PROVE  Spec => ResumeKeepsProgress
  <1>1. Init => ProgressInv
    BY ResumeInit DEF ProgressInv, ProgressFits, Init, IdleRun
  <1>2. ProgressInv /\ [Next]_vars =>
          /\ ProgressInv'
          /\ [(\E r \in Runs : lock = r /\ run[r].resume) =>
                 db'.joinDone >= db.joinDone \/ db'.status = "complete"]_vars
    BY ProgressStep DEF Further
  <1> QED BY <1>1, <1>2, PTL DEF Spec, ResumeKeepsProgress

-----------------------------------------------------------------------------
(* What a calculation finds                                                *)

OneSignature == \A a, b \in Signatures : a = b

\* The edges an index run of this signature persists for tree t.
EdgesOf(t, sig) == [src |-> t, calls |-> "full", sig |-> sig]

\* The edges from which a calculation rebuilds the join of this signature.
Serves(e, sig, t) == IF sig = NoEngine THEN e = NoEdges
                                       ELSE Present(t) = {} \/ e = EdgesOf(t, sig)

\* What a process knows fits the tree.
Knows(s) ==
    /\ s.pc # "idle" => /\ s.sig \in Signatures
                        /\ \A f \in Files : s.view[f] \in {Unread, tree[f]}
    /\ s.pc \notin {"idle", "begun"} => s.hash = tree
    /\ s.pc \in {"engine", "join", "final"} => s.view = tree
    /\ s.pc \in {"engine", "join"} => s.sig # NoEngine

\* A process past the engine, whose deadline was not met, has left the edges
\* of its join.
RunEdges(s, e) ==
    s.pc \in {"join", "final"} /\ s.timedOut = FALSE /\ s.sig # NoEngine
       => Serves(e, s.sig, tree)

\* Before its stage, a process has written nothing; the stage takes the
\* signature away before it commits.
Written(s, w, d) == /\ s.pc \in {"begun", "hashed", "unchanged"} => w = d
                    /\ s.pc = "engine" => w.flowSig = NoSig

SignedServed(w, e) == w.flowSig # NoSig => Serves(e, w.flowSig, w.hashes)

FactsFit == db.facts = db.hashes /\ work.facts = work.hashes

\* The types of the composition: a calculation may have the lock.
CalculationTypes ==
    /\ tree \in Trees /\ edits \in 0..MaxEdits /\ troubles \in 0..MaxTroubles
    /\ db \in Index /\ work \in Index
    /\ run \in [Runs -> RunState] /\ ViewIsRead
    /\ lock \in Runs \cup {NoRun} \cup Calculators
    /\ edges.calls \in {"full", "cut"} /\ edges.sig \in Signatures \cup {NoSig}

EdgesFit ==
    /\ \A r \in Runs : /\ Knows(run[r])
                       /\ RunEdges(run[r], edges)
                       /\ Written(run[r], work, db)
    /\ LockFits /\ FactsFit
    /\ SignedServed(db, edges)

EdgeInv == CalculationTypes /\ EdgesFit

LEMMA RunTypes == EdgeInv /\ lock \notin Calculators => TypeInv
  BY DEF EdgeInv, CalculationTypes, TypeInv, TypeOK

\* A step of a process that has the lock, takes it or frees it.
LEMMA HolderKeepsEdges ==
  ASSUME EdgeInv, NEW r \in Runs, NEW s, Goto(r, s), UNCHANGED tree, Knows(s),
         lock \in {r, NoRun}, lock' \in {r, NoRun},
         s.pc \in Holding => lock' = r,
         s.pc \in Scanned => work'.hashes = tree,
         s.pc \in {"join", "final"} /\ lock' # r => db'.hashes = tree,
         db'.hashes \in {db.hashes, tree}, work'.hashes \in {work.hashes, db.hashes, tree},
         FactsFit', SignedServed(db', edges'), Written(s, work', db'),
         RunEdges(s, edges'),
         edges' = edges \/ \A q \in Runs : q # r => RunEdges(run[q], edges')
  PROVE  EdgesFit'
  <1>1. run' = [run EXCEPT ![r] = s] /\ run \in [Runs -> RunState]
    BY DEF Goto, EdgeInv, CalculationTypes
  <1>2. \A q \in Runs : run'[q] = IF q = r THEN s ELSE run[q]
    BY <1>1
  <1>3. \A q \in Runs : q # r => run[q].pc \notin Holding /\ lock # q /\ lock' # q
    BY NamesAssumption DEF EdgeInv, EdgesFit, LockFits
  <1>4. ASSUME NEW q \in Runs, q # r
        PROVE  /\ run'[q] = run[q] /\ Knows(run[q]) /\ RunEdges(run[q], edges')
               /\ run[q].pc \notin Holding
               /\ run[q].pc \in Scanned => work'.hashes = tree /\ db'.hashes = tree
    <2>1. Knows(run[q]) /\ RunEdges(run[q], edges')
      BY <1>4 DEF EdgeInv, EdgesFit
    <2>2. run[q].pc \in Scanned => work.hashes = tree /\ db.hashes = tree
      BY <1>3, <1>4 DEF EdgeInv, EdgesFit, LockFits, Scanned, Holding
    <2> QED BY <1>2, <1>3, <1>4, <2>1, <2>2
  <1>5. ASSUME NEW q \in Runs
        PROVE  Knows(run'[q]) /\ RunEdges(run'[q], edges') /\ Written(run'[q], work', db')
    <2>1. CASE q = r
      BY <1>2, <2>1
    <2>2. CASE q # r
      BY <1>4, <2>2 DEF Written, Holding
    <2> QED BY <2>1, <2>2
  <1>6. LockFits'
    <2>1. ASSUME NEW q \in Runs
          PROVE  /\ run'[q].pc \in Holding => lock' = q
                 /\ run'[q].pc \in Scanned => work'.hashes = tree
                 /\ run'[q].pc \in {"join", "final"} /\ lock' # q => db'.hashes = tree
      <3>1. CASE q = r
        BY <1>2, <3>1
      <3>2. CASE q # r
        BY <1>4, <3>2 DEF Scanned
      <3> QED BY <3>1, <3>2
    <2> QED BY <2>1 DEF LockFits
  <1> QED BY <1>5, <1>6 DEF EdgesFit, Knows, RunEdges, Written, SignedServed

\* A process ends; whoever else has the lock keeps it.
LEMMA AbandonKeepsEdges ==
  ASSUME EdgeInv, NEW r \in Runs, Abandon(r), UNCHANGED <<tree, edges>>
  PROVE  EdgesFit'
  <1>1. Goto(r, IdleRun) /\ IdleRun.pc = "idle" /\ UNCHANGED db
    BY DEF Abandon, Goto, IdleRun
  <1>2. Knows(IdleRun) /\ RunEdges(IdleRun, edges)
        /\ \A w, d : Written(IdleRun, w, d)
    BY <1>1 DEF Knows, RunEdges, Written
  <1>3. CASE lock = r
    <2>1. lock' = NoRun /\ work' = db
      BY <1>3 DEF Abandon
    <2> QED BY <1>1, <1>2, <1>3, <2>1, HolderKeepsEdges
            DEF Scanned, Holding, EdgeInv, EdgesFit, FactsFit, SignedServed
  <1>4. CASE lock # r
    <2>1. UNCHANGED <<lock, work>>
      BY <1>4 DEF Abandon
    <2>2. \A q \in Runs : run'[q] = IF q = r THEN IdleRun ELSE run[q]
      BY <1>1 DEF Goto, EdgeInv, CalculationTypes
    <2>3. \A q \in Runs : /\ Knows(run'[q]) /\ RunEdges(run'[q], edges)
                          /\ Written(run'[q], work, db)
      BY <1>2, <2>2 DEF EdgeInv, EdgesFit
    <2>4. LockFits'
      BY <1>1, <2>1, <2>2 DEF EdgeInv, EdgesFit, LockFits, Holding, Scanned
    <2> QED BY <1>1, <2>1, <2>3, <2>4
            DEF EdgeInv, EdgesFit, FactsFit, SignedServed, Knows, RunEdges, Written
  <1> QED BY <1>3, <1>4

-----------------------------------------------------------------------------
(* The steps of an index run                                               *)

LEMMA InventoryKeepsEdges ==
  ASSUME EdgeInv, NEW r \in Runs, Inventory(r), UNCHANGED edges
  PROVE  EdgesFit'
  <1> DEFINE s == run[r]
             t == [s EXCEPT !.pc = "hashed", !.hash = tree,
                            !.joined = IF s.resume THEN work.flows ELSE {},
                            !.cursor = IF s.resume THEN work.joinDone ELSE 0]
  <1>1. s \in RunState /\ s.pc = "begun" /\ Goto(r, t)
        /\ UNCHANGED <<tree, lock, db, work>>
    BY DEF Inventory, EdgeInv, CalculationTypes
  <1>2. lock = r /\ Knows(s) /\ work = db
    BY <1>1 DEF EdgeInv, EdgesFit, LockFits, Holding, Written
  <1>3. t.pc = "hashed" /\ t.hash = tree /\ t.sig = s.sig /\ t.view = s.view
    BY <1>1 DEF RunState
  <1> HIDE DEF t
  <1>4. Knows(t) /\ RunEdges(t, edges') /\ Written(t, work', db')
    BY <1>1, <1>2, <1>3 DEF Knows, RunEdges, Written
  <1> QED BY <1>1, <1>2, <1>3, <1>4, HolderKeepsEdges
          DEF Scanned, EdgeInv, EdgesFit, FactsFit, SignedServed

\* The scan leaves the hashes and the facts of the tree, and changes nothing
\* where the stage is not needed.
LEMMA ExtractRows ==
  ASSUME EdgeInv, NEW r \in Runs, run[r].pc = "hashed"
  PROVE  /\ NewHashes(run[r]) = tree /\ NewFacts(run[r]) = tree
         /\ ~StageNeeded(run[r]) => work.hashes = tree /\ work.facts = tree
  <1> DEFINE s == run[r]
  <1>1. /\ tree \in Trees /\ work.hashes \in Trees /\ work.facts = work.hashes
        /\ s.hash = tree /\ \A f \in Files : s.view[f] \in {Unread, tree[f]}
    BY DEF EdgeInv, EdgesFit, CalculationTypes, Index, FactsFit, Knows
  <1>2. ASSUME NEW f \in Files PROVE NewHashes(s)[f] = tree[f] /\ NewFacts(s)[f] = tree[f]
    <2>1. CASE f \in Changed(s)
      BY <1>1, <2>1 DEF NewHashes, NewFacts, Read
    <2>2. CASE f \notin Changed(s) /\ f \in Deleted(s)
      BY <1>1, <2>2 DEF NewHashes, NewFacts, Deleted
    <2>3. CASE f \notin Changed(s) /\ f \notin Deleted(s)
      BY <1>1, <2>3 DEF NewHashes, NewFacts, Changed, Deleted, Present
    <2> QED BY <2>1, <2>2, <2>3
  <1>3. NewHashes(s) = tree /\ NewFacts(s) = tree
    BY <1>1, <1>2 DEF NewHashes, NewFacts, Trees
  <1>4. ASSUME ~StageNeeded(s) PROVE work.hashes = tree
    <2>1. Changed(s) = {} /\ Deleted(s) = {}
      BY <1>4 DEF StageNeeded
    <2> QED BY <1>1, <1>3, <2>1 DEF NewHashes, Trees
  <1> QED BY <1>1, <1>3, <1>4

LEMMA ExtractKeepsEdges ==
  ASSUME EdgeInv, NEW r \in Runs, Extract(r), UNCHANGED edges
  PROVE  EdgesFit'
  <1> DEFINE s == run[r]
             v == [f \in Files |-> IF f \in Changed(s) THEN Read(s, f) ELSE s.view[f]]
             t == [s EXCEPT !.pc = IF StageNeeded(s) THEN "flows" ELSE "unchanged",
                            !.view = v]
             w == [work EXCEPT !.hashes = NewHashes(s), !.facts = NewFacts(s)]
  <1>1. s \in RunState /\ s.pc = "hashed" /\ work \in Index
    BY DEF Extract, EdgeInv, CalculationTypes
  <1>2. Goto(r, t) /\ work' = w /\ UNCHANGED <<tree, lock, db>>
    BY DEF Extract, Write
  <1>3. lock = r /\ Knows(s) /\ work = db /\ FactsFit
    BY <1>1 DEF EdgeInv, EdgesFit, LockFits, Holding, Written
  <1>4. \A f \in Files : v[f] \in {Unread, tree[f]}
    BY <1>1, <1>3 DEF Read, Knows
  <1>5. /\ w.hashes = tree /\ w.facts = tree
        /\ ~StageNeeded(s) => w = work
    <2>1. [work EXCEPT !.hashes = work.hashes, !.facts = work.facts] = work
      BY <1>1 DEF Index
    <2> QED BY <1>1, <2>1, ExtractRows DEF Index
  <1> HIDE DEF v, w
  <1>6. /\ t.pc = IF StageNeeded(s) THEN "flows" ELSE "unchanged"
        /\ t.hash = s.hash /\ t.sig = s.sig /\ t.view = v
    BY <1>1 DEF RunState
  <1> HIDE DEF t
  <1>7. Knows(t) /\ RunEdges(t, edges') /\ Written(t, work', db')
    BY <1>1, <1>2, <1>3, <1>4, <1>5, <1>6 DEF Knows, RunEdges, Written
  <1> QED BY <1>1, <1>2, <1>3, <1>5, <1>6, <1>7, HolderKeepsEdges
          DEF EdgeInv, EdgesFit, FactsFit, SignedServed

LEMMA StageStartKeepsEdges ==
  ASSUME EdgeInv, TypeInv, NEW r \in Runs, StageStart(r), UNCHANGED edges
  PROVE  EdgesFit'
  <1> DEFINE s == run[r]
             seen == [f \in Files |-> IF s.hash[f] = 0 THEN 0 ELSE Read(s, f)]
             t == run'[r]
  <1>1. /\ s \in RunState /\ work \in Index /\ tree \in Trees
        /\ s.pc = "flows" /\ Knows(s) /\ work.hashes = tree /\ lock = r
    BY DEF StageStart, EdgeInv, EdgesFit, CalculationTypes, LockFits, Holding, Scanned
  <1>2. /\ s.hash = tree /\ s.sig \in Signatures
        /\ \A f \in Files : s.view[f] \in {Unread, tree[f]}
    BY <1>1 DEF Knows
  <1>3. seen = tree
    BY <1>1, <1>2 DEF Read, Trees
  <1>4. Goto(r, t) /\ UNCHANGED <<tree, db, lock>>
        /\ work'.hashes = work.hashes /\ work'.facts = work.facts
    BY StageStartRows DEF Goto, TypeInv, TypeOK
  <1>5. work'.flowSig = NoSig
    <2>1. InProgress(s) \in Index /\ InProgress(s).flowSig = NoSig
      BY <1>1, InProgressType DEF InProgress, Index
    <2> QED BY <2>1 DEF StageStart, Write, Index
  <1>6. /\ t.pc = IF s.sig # NoEngine /\ Present(tree) # {} THEN "engine" ELSE "final"
        /\ t.view = tree /\ t.hash = tree /\ t.sig = s.sig
    BY <1>1, <1>2, <1>3 DEF StageStart, Goto, EdgeInv, CalculationTypes, RunState
  <1> HIDE DEF t
  <1>7. Knows(t) /\ RunEdges(t, edges') /\ Written(t, work', db')
    BY <1>2, <1>5, <1>6 DEF Knows, RunEdges, Written, Serves
  <1> QED BY <1>1, <1>4, <1>6, <1>7, HolderKeepsEdges
          DEF Scanned, Holding, EdgeInv, EdgesFit, FactsFit, SignedServed

\* Runs that overlap persist the same edges.
SameEdges == OneProcess \/ (OneSignature /\ AllowTimeout = FALSE)

LEMMA PersistKeepsEdges ==
  ASSUME SameEdges, EdgeInv, NEW r \in Runs, PersistEdges(r)
  PROVE  EdgesFit'
  <1> DEFINE s == run[r]
  <1>1. PICK calls \in {"full", "cut"}, timedOut \in BOOLEAN :
           CallGraphCheckpoint(r, calls, timedOut)
    BY DEF PersistEdges
  <1> DEFINE w == [work EXCEPT !.callGraph = IF timedOut THEN "partial" ELSE "complete"]
             t == [s EXCEPT !.pc = "join", !.calls = calls, !.timedOut = timedOut]
  <1>2. /\ s \in RunState /\ work \in Index /\ s.pc = "engine"
        /\ Goto(r, t) /\ Commit(w) /\ UNCHANGED tree
        /\ timedOut = FALSE => calls = "full"
        /\ timedOut => AllowTimeout
    BY <1>1 DEF CallGraphCheckpoint, EdgeInv, CalculationTypes
  <1>3. /\ lock = r /\ Knows(s) /\ work.flowSig = NoSig /\ work.hashes = tree
        /\ s.view = tree /\ s.sig # NoEngine /\ s.sig \in Signatures
    BY <1>2 DEF EdgeInv, EdgesFit, LockFits, Holding, Scanned, Written, Knows
  <1>4. w.hashes = tree /\ w.facts = work.facts /\ w.flowSig = NoSig
    BY <1>2, <1>3 DEF Index
  <1>5. /\ t.pc = "join" /\ t.hash = s.hash /\ t.sig = s.sig /\ t.view = s.view
        /\ t.timedOut = timedOut /\ t.calls = calls
    BY <1>2 DEF RunState
  <1>6. run'[r] = t
    BY <1>2 DEF Goto, EdgeInv, CalculationTypes
  <1>7. edges' = [src |-> tree, calls |-> calls, sig |-> s.sig]
    BY <1>3, <1>5, <1>6 DEF PersistEdges
  <1> HIDE DEF t, w
  <1>8. RunEdges(t, edges')
    BY <1>2, <1>5, <1>7 DEF RunEdges, Serves, EdgesOf
  <1>9. ASSUME NEW q \in Runs, q # r PROVE RunEdges(run[q], edges')
    <2>1. OneSignature /\ timedOut = FALSE
      BY <1>2, <1>9 DEF SameEdges, OneProcess
    <2>2. run[q].pc # "idle" => run[q].sig = s.sig
      BY <1>3, <2>1 DEF OneSignature, EdgeInv, EdgesFit, Knows
    <2> QED BY <1>2, <1>7, <2>1, <2>2 DEF RunEdges, Serves, EdgesOf
  <1>10. Knows(t) /\ Written(t, work', db')
    BY <1>2, <1>3, <1>5 DEF Knows, Written
  <1>11. FactsFit' /\ SignedServed(db', edges') /\ db'.hashes = tree /\ work'.hashes = tree
         /\ lock' = NoRun
    BY <1>2, <1>3, <1>4 DEF Commit, FactsFit, SignedServed, EdgeInv, EdgesFit
  <1>12. t.pc \notin Holding
    BY <1>5 DEF Holding
  <1> QED BY <1>2, <1>3, <1>8, <1>9, <1>10, <1>11, <1>12, HolderKeepsEdges

\* A commit of rows without a signature over the files of the tree.
LEMMA UnsignedKeepsEdges ==
  ASSUME EdgeInv, NEW r \in Runs, NEW s, NEW w, Goto(r, s), Commit(w),
         UNCHANGED <<tree, edges>>, lock = r, run[r].pc = "join",
         s.pc \in {"join", "final"}, Knows(s), s.sig = run[r].sig,
         s.timedOut = run[r].timedOut,
         w.flowSig = NoSig, w.hashes = work.hashes, w.facts = work.facts
  PROVE  EdgesFit'
  <1>1. work.hashes = tree /\ RunEdges(run[r], edges)
    BY DEF EdgeInv, EdgesFit, LockFits, Scanned
  <1>2. /\ db' = w /\ work' = w /\ lock' = NoRun
    BY DEF Commit
  <1>3. FactsFit' /\ SignedServed(db', edges') /\ Written(s, work', db')
    BY <1>2 DEF FactsFit, SignedServed, Written, EdgeInv, EdgesFit
  <1>4. RunEdges(s, edges')
    BY <1>1 DEF RunEdges
  <1>5. s.pc \notin Holding
    BY DEF Holding
  <1> QED BY <1>1, <1>2, <1>3, <1>4, <1>5, HolderKeepsEdges

LEMMA JoinKeepsEdges ==
  ASSUME EdgeInv, NEW r \in Runs, UNCHANGED edges,
         (\E k \in Files : JoinCheckpoint(r, k)) \/ InputOutputCheckpoint(r)
  PROVE  EdgesFit'
  <1> DEFINE s == run[r]
  <1>1. s \in RunState /\ work \in Index /\ (s.pc = "join" => Knows(s))
    BY DEF EdgeInv, EdgesFit, CalculationTypes
  <1>2. CASE InputOutputCheckpoint(r)
    <2> DEFINE w == [work EXCEPT
                       !.flows = AstFlows(s.view) \cup s.joined,
                       !.flowSig = NoSig,
                       !.joinDone = Entries(s.view),
                       !.inputOutput = IF s.timedOut THEN "partial" ELSE "complete"]
               t == [s EXCEPT !.pc = "final"]
    <2>1. s.pc = "join" /\ lock = r /\ Goto(r, t) /\ Commit(w) /\ UNCHANGED tree
      BY <1>2 DEF InputOutputCheckpoint
    <2>2. /\ t.pc = "final" /\ t.hash = s.hash /\ t.sig = s.sig /\ t.view = s.view
          /\ t.timedOut = s.timedOut
          /\ w.flowSig = NoSig /\ w.hashes = work.hashes /\ w.facts = work.facts
      BY <1>1 DEF RunState, Index
    <2> HIDE DEF t, w
    <2>3. Knows(t)
      BY <1>1, <2>1, <2>2 DEF Knows
    <2> QED BY <2>1, <2>2, <2>3, UnsignedKeepsEdges
  <1>3. ASSUME NEW k \in Files, JoinCheckpoint(r, k) PROVE EdgesFit'
    <2> DEFINE joined == s.joined \cup JoinFlows(s.view, s.cursor, k, s.sig, s.calls)
               w == [Provisional(AstFlows(s.view) \cup joined) EXCEPT !.joinDone = k]
               t == [s EXCEPT !.joined = joined, !.cursor = k]
    <2>1. s.pc = "join" /\ lock = r /\ Goto(r, t) /\ Commit(w) /\ UNCHANGED tree
      BY <1>3 DEF JoinCheckpoint
    <2> HIDE DEF joined
    <2>2. /\ t.pc = "join" /\ t.hash = s.hash /\ t.sig = s.sig /\ t.view = s.view
          /\ t.timedOut = s.timedOut
          /\ w.flowSig = NoSig /\ w.hashes = work.hashes /\ w.facts = work.facts
      BY <1>1, <2>1 DEF RunState, Index, Provisional
    <2> HIDE DEF t, w
    <2>3. Knows(t)
      BY <1>1, <2>1, <2>2 DEF Knows
    <2> QED BY <2>1, <2>2, <2>3, UnsignedKeepsEdges
  <1> QED BY <1>2, <1>3

\* A run that ends signs what it leaves edges for.
LEMMA FinishKeepsEdges ==
  ASSUME SameEdges, EdgeInv, NEW r \in Runs, FinishRun(r)
  PROVE  EdgesFit'
  <1> DEFINE s == run[r]
             w == [work EXCEPT
                     !.flows    = AstFlows(s.view) \cup s.joined,
                     !.flowSig  = IF s.timedOut THEN NoSig ELSE s.sig,
                     !.status   = IF s.timedOut THEN "partial" ELSE "complete",
                     !.joinSig  = NoSig,
                     !.joinDone = 0]
  <1>1. /\ s \in RunState /\ work \in Index /\ s.pc = "final" /\ lock = r
        /\ Goto(r, IdleRun) /\ Commit(w) /\ UNCHANGED tree
        /\ edges' = IF s.sig = NoEngine THEN NoEdges ELSE edges
    BY DEF FinishRun, Finish, EdgeInv, CalculationTypes
  <1>2. /\ work.hashes = tree /\ work.facts = tree /\ RunEdges(s, edges)
        /\ s.sig \in Signatures /\ s.timedOut \in BOOLEAN
    BY <1>1 DEF EdgeInv, EdgesFit, LockFits, Scanned, FactsFit, Knows, RunState
  <1>3. /\ w.hashes = tree /\ w.facts = tree
        /\ w.flowSig = IF s.timedOut THEN NoSig ELSE s.sig
    BY <1>1, <1>2 DEF Index
  <1> HIDE DEF w
  <1>4. db' = w /\ work' = w /\ lock' = NoRun
    BY <1>1 DEF Commit
  <1>5. SignedServed(db', edges')
    BY <1>1, <1>2, <1>3, <1>4 DEF SignedServed, RunEdges, Serves
  <1>6. ASSUME NEW q \in Runs, q # r, edges' # edges PROVE RunEdges(run[q], edges')
    <2>1. s.sig = NoEngine /\ OneSignature
      BY <1>1, <1>6 DEF SameEdges, OneProcess
    <2>2. run[q].pc # "idle" => run[q].sig = NoEngine
      BY <1>2, <2>1 DEF OneSignature, EdgeInv, EdgesFit, Knows
    <2> QED BY <2>2 DEF RunEdges
  <1>7. IdleRun.pc = "idle" /\ FactsFit'
    BY <1>3, <1>4 DEF IdleRun, FactsFit
  <1>8. Knows(IdleRun) /\ RunEdges(IdleRun, edges') /\ Written(IdleRun, work', db')
    BY <1>7 DEF Knows, RunEdges, Written
  <1> QED BY <1>1, <1>3, <1>4, <1>5, <1>6, <1>7, <1>8, HolderKeepsEdges
          DEF Holding, Scanned

\* The other steps of a run.
LEMMA RunKeepsEdges ==
  ASSUME EdgeInv, NEW r \in Runs, UNCHANGED edges,
         \/ Skip(r) \/ Reopen(r)
         \/ \E sig \in Signatures, full, resume \in BOOLEAN :
               Begin(r, sig, full, resume, FALSE)
  PROVE  EdgesFit'
  <1>0. run \in [Runs -> RunState] /\ FactsFit /\ SignedServed(db, edges)
        /\ Knows(run[r]) /\ RunEdges(run[r], edges)
    BY DEF EdgeInv, EdgesFit, CalculationTypes
  <1>1. CASE Skip(r)
    <2>1. /\ run[r].pc = "unchanged" /\ Goto(r, IdleRun) /\ UNCHANGED tree
          /\ db' = work /\ work' = work /\ lock' = NoRun /\ lock = r /\ work = db
      BY <1>1 DEF Skip, Commit, EdgeInv, EdgesFit, LockFits, Holding, Written
    <2>2. /\ IdleRun.pc = "idle" /\ Knows(IdleRun) /\ RunEdges(IdleRun, edges')
          /\ Written(IdleRun, work', db')
      BY DEF IdleRun, Knows, RunEdges, Written
    <2> QED BY <1>0, <2>1, <2>2, HolderKeepsEdges
            DEF Holding, Scanned, FactsFit, SignedServed
  <1>2. CASE Reopen(r)
    <2>1. /\ run[r].pc \in {"join", "final"} /\ lock = NoRun /\ lock' = r /\ work' = db
          /\ UNCHANGED <<tree, db, run>> /\ db.hashes = tree
      BY <1>2, NamesAssumption DEF Reopen, EdgeInv, EdgesFit, LockFits
    <2>2. Goto(r, run[r]) /\ run[r].pc \notin Holding /\ Written(run[r], work', db')
      BY <1>0, <2>1 DEF Goto, Holding, Written
    <2> QED BY <1>0, <2>1, <2>2, HolderKeepsEdges DEF FactsFit, SignedServed
  <1>3. ASSUME NEW sig \in Signatures, NEW full \in BOOLEAN, NEW resume \in BOOLEAN,
               Begin(r, sig, full, resume, FALSE)
        PROVE  EdgesFit'
    <2>1. PICK cached \in IF ParseBeforeInventory THEN SUBSET Present(tree) ELSE {{}} :
             Goto(r, [IdleRun EXCEPT
                        !.pc = "begun", !.sig = sig, !.full = full,
                        !.resume = resume, !.html = FALSE,
                        !.view = [f \in Files |-> IF f \in cached THEN tree[f]
                                                                  ELSE Unread]])
      BY <1>3 DEF Begin
    <2> DEFINE t == [IdleRun EXCEPT
                       !.pc = "begun", !.sig = sig, !.full = full,
                       !.resume = resume, !.html = FALSE,
                       !.view = [f \in Files |-> IF f \in cached THEN tree[f]
                                                                 ELSE Unread]]
    <2>2. /\ t.pc = "begun" /\ t.sig = sig
          /\ \A f \in Files : t.view[f] \in {Unread, tree[f]}
      BY DEF IdleRun
    <2>3. Goto(r, t)
      BY <2>1
    <2> HIDE DEF t
    <2>4. lock = NoRun /\ lock' = r /\ work' = db /\ UNCHANGED <<tree, db>>
      BY <1>3 DEF Begin
    <2>5. Knows(t) /\ RunEdges(t, edges') /\ Written(t, work', db')
      BY <2>2, <2>4 DEF Knows, RunEdges, Written
    <2> QED BY <1>0, <2>2, <2>3, <2>4, <2>5, HolderKeepsEdges
            DEF Scanned, FactsFit, SignedServed
  <1> QED BY <1>1, <1>2, <1>3

-----------------------------------------------------------------------------
(* Every step of the composition                                           *)

LEMMA IndexStepIsNext == IndexStep => Next
  BY DEF IndexStep, Next, Advance, PersistEdges, FinishRun

\* A calculation that has the lock leaves an index run nothing but to end.
LEMMA Blocked ==
  ASSUME EdgeInv, lock \in Calculators, IndexStep
  PROVE  /\ UNCHANGED <<lock, db, work, edges, calculations>>
         /\ \/ \E r \in Runs : (LockLost(r) \/ Stop(r)) /\ Abandon(r)
                               /\ UNCHANGED <<tree, edits>>
            \/ \E f \in Files, v \in Versions : Edit(f, v)
  <1>1. lock \notin Runs /\ lock # NoRun
    BY CalculationAssumption
  <1>2. \A r \in Runs : run[r].pc \notin Holding
    BY <1>1 DEF EdgeInv, EdgesFit, LockFits
  <1>3. ASSUME NEW r \in Runs
        PROVE  /\ ~PersistEdges(r) /\ ~FinishRun(r) /\ ~Inventory(r) /\ ~Refuse(r)
               /\ ~Extract(r) /\ ~Skip(r) /\ ~StageStart(r)
               /\ \A k \in Files : ~JoinCheckpoint(r, k)
               /\ ~InputOutputCheckpoint(r) /\ ~Reopen(r)
               /\ \A sig \in Signatures, full, resume \in BOOLEAN :
                     ~Begin(r, sig, full, resume, FALSE)
    BY <1>1, <1>2
       DEF PersistEdges, CallGraphCheckpoint, FinishRun, Finish, Inventory, Refuse,
           Extract, Skip, StageStart, JoinCheckpoint, InputOutputCheckpoint, Reopen,
           Begin, Holding
  <1>4. ASSUME NEW r \in Runs, LockLost(r) \/ Stop(r)
        PROVE  /\ (LockLost(r) \/ Stop(r)) /\ Abandon(r) /\ UNCHANGED <<tree, edits>>
               /\ UNCHANGED <<lock, db, work>>
    BY <1>1, <1>4 DEF LockLost, Stop, Abandon
  <1>5. ASSUME NEW f \in Files, NEW v \in Versions, Edit(f, v)
        PROVE  UNCHANGED <<lock, db, work>>
    BY <1>5 DEF Edit
  <1> QED BY <1>3, <1>4, <1>5 DEF IndexStep

\* The types of a step that a calculation does not block.
LEMMA IndexTypes ==
  ASSUME EdgeInv, lock \notin Calculators, IndexStep
  PROVE  CalculationTypes'
  <1>1. TypeInv /\ TypeInv'
    BY RunTypes, IndexStepIsNext, TypeInvStep
  <1>2. edges'.calls \in {"full", "cut"} /\ edges'.sig \in Signatures \cup {NoSig}
    <2>1. ASSUME NEW r \in Runs, PersistEdges(r)
          PROVE  edges'.calls \in {"full", "cut"} /\ edges'.sig \in Signatures \cup {NoSig}
      <3>1. run[r] \in RunState /\ run'[r] \in RunState
        BY <1>1 DEF TypeInv, TypeOK
      <3> QED BY <2>1, <3>1 DEF PersistEdges, RunState
    <2>2. ASSUME edges' = edges \/ edges' = NoEdges
          PROVE  edges'.calls \in {"full", "cut"} /\ edges'.sig \in Signatures \cup {NoSig}
      BY <2>2 DEF NoEdges, EdgeInv, CalculationTypes
    <2>3. (\E r \in Runs : PersistEdges(r)) \/ edges' = edges \/ edges' = NoEdges
      BY DEF IndexStep, FinishRun
    <2> QED BY <2>1, <2>2, <2>3
  <1> QED BY <1>1, <1>2 DEF CalculationTypes, TypeInv, TypeOK

LEMMA BlockedTypes ==
  ASSUME EdgeInv, lock \in Calculators, IndexStep
  PROVE  CalculationTypes'
  <1>1. UNCHANGED <<lock, db, work, edges>>
    BY Blocked
  <1>2. ASSUME NEW r \in Runs, LockLost(r) \/ Stop(r), Abandon(r),
               UNCHANGED <<tree, edits>>
        PROVE  CalculationTypes'
    <2>1. run' = [run EXCEPT ![r] = IdleRun] /\ run \in [Runs -> RunState]
      BY <1>2 DEF Abandon, EdgeInv, CalculationTypes
    <2>2. run' \in [Runs -> RunState]
      BY <2>1, IdleRunType
    <2>3. ViewIsRead'
      BY <2>1 DEF ViewIsRead, IdleRun, EdgeInv, CalculationTypes
    <2>4. troubles' \in 0..MaxTroubles
      BY <1>2, SizesAssumption DEF LockLost, Stop, EdgeInv, CalculationTypes
    <2> QED BY <1>1, <1>2, <2>2, <2>3, <2>4 DEF CalculationTypes, EdgeInv
  <1>3. ASSUME NEW f \in Files, NEW v \in Versions, Edit(f, v) PROVE CalculationTypes'
    <2>1. /\ tree \in Trees /\ tree' = [tree EXCEPT ![f] = v] /\ edits' = edits + 1
          /\ edits \in 0..MaxEdits /\ edits < MaxEdits /\ UNCHANGED <<troubles, run>>
      BY <1>3 DEF Edit, EdgeInv, CalculationTypes
    <2>2. tree' \in Trees /\ edits' \in 0..MaxEdits
      BY <2>1, SizesAssumption DEF Trees
    <2> QED BY <1>1, <2>1, <2>2 DEF CalculationTypes, EdgeInv, ViewIsRead
  <1> QED BY <1>2, <1>3, Blocked

LEMMA EditKeepsEdges ==
  ASSUME EditsDuringRuns = FALSE, EdgeInv, NEW f \in Files, NEW v \in Versions,
         Edit(f, v), UNCHANGED edges
  PROVE  EdgesFit'
  <1>1. (\A r \in Runs : run[r].pc = "idle") /\ UNCHANGED <<lock, db, work, run>>
    BY DEF Edit, AtRest
  <1> QED BY <1>1 DEF EdgeInv, EdgesFit, Knows, RunEdges, Written, LockFits, Holding,
                      Scanned, FactsFit, SignedServed

LEMMA IndexKeepsEdges ==
  ASSUME EditsDuringRuns = FALSE, SameEdges, EdgeInv, IndexStep
  PROVE  EdgeInv'
  <1>1. CalculationTypes'
    BY IndexTypes, BlockedTypes
  <1>2. CASE lock \in Calculators
    BY <1>2, Blocked, AbandonKeepsEdges, EditKeepsEdges, <1>1 DEF EdgeInv
  <1>3. CASE lock \notin Calculators
    <2>1. TypeInv
      BY <1>3, RunTypes
    <2>2. ASSUME NEW r \in Runs, PersistEdges(r) \/ FinishRun(r) PROVE EdgesFit'
      BY <2>2, PersistKeepsEdges, FinishKeepsEdges
    <2>3. ASSUME NEW r \in Runs, UNCHANGED edges, Inventory(r) \/ Extract(r) \/ StageStart(r)
          PROVE  EdgesFit'
      BY <2>1, <2>3, InventoryKeepsEdges, ExtractKeepsEdges, StageStartKeepsEdges
    <2>4. ASSUME NEW r \in Runs, UNCHANGED edges, Refuse(r) \/ LockLost(r) \/ Stop(r)
          PROVE  EdgesFit'
      BY <2>4, AbandonKeepsEdges DEF Refuse, LockLost, Stop
    <2>5. ASSUME NEW r \in Runs, UNCHANGED edges,
                 \/ \E k \in Files : JoinCheckpoint(r, k)
                 \/ InputOutputCheckpoint(r)
          PROVE  EdgesFit'
      BY <2>5, JoinKeepsEdges
    <2>6. ASSUME NEW r \in Runs, UNCHANGED edges,
                 \/ Skip(r) \/ Reopen(r)
                 \/ \E sig \in Signatures, full, resume \in BOOLEAN :
                       Begin(r, sig, full, resume, FALSE)
          PROVE  EdgesFit'
      BY <2>6, RunKeepsEdges
    <2>7. ASSUME NEW f \in Files, NEW v \in Versions, Edit(f, v), UNCHANGED edges
          PROVE  EdgesFit'
      BY <2>7, EditKeepsEdges
    <2>8. EdgesFit'
      BY <2>2, <2>3, <2>4, <2>5, <2>6, <2>7 DEF IndexStep
    <2> QED BY <1>1, <2>8 DEF EdgeInv
  <1> QED BY <1>2, <1>3

-----------------------------------------------------------------------------
(* The steps of a calculation                                              *)

\* The flows that a calculation of these modules with these limits commits.
NewFlows(modules, sig) == Retained(modules) \cup Calculated(Rebuilt(sig), modules)

LEMMA OnDiskType ==
  ASSUME tree \in Trees, NEW t
  PROVE  OnDisk(t) \in Trees
  BY VersionsAreNaturals DEF OnDisk, Trees

LEMMA NewFlowsType ==
  ASSUME CalculationTypes, NEW modules, NEW sig \in Signatures \cup {NoSig}
  PROVE  NewFlows(modules, sig) \subseteq Flow
  <1>1. AstFlows(OnDisk(db.facts)) \subseteq Flow
    BY OnDiskType, AstFlowsType DEF CalculationTypes
  <1>2. \A f \in Files : [kind |-> edges.calls, entry |-> f, src |-> OnDisk(edges.src),
                          sig |-> sig] \in Flow
    BY OnDiskType DEF CalculationTypes, Flow
  <1>3. Rebuilt(sig) \subseteq Flow
    BY <1>1, <1>2 DEF Rebuilt, Present
  <1>4. Retained(modules) \subseteq Flow
    BY DEF Retained, CalculationTypes, Index
  <1> QED BY <1>3, <1>4 DEF NewFlows, Calculated

\* While a calculation has the lock, no run is in a transaction.
LEMMA NoneHolding ==
  ASSUME LockFits, NEW c \in Calculators, lock = c
  PROVE  /\ \A r \in Runs : lock # r /\ run[r].pc \notin Holding
         /\ \A r \in Runs : run[r].pc \in Scanned => work.hashes = tree /\ db.hashes = tree
         /\ lock # NoRun
  BY CalculationAssumption DEF LockFits, Holding, Scanned

LEMMA CalculateEffects ==
  ASSUME CalculationTypes, NEW c \in Calculators, NEW modules,
         NEW sig \in Signatures \cup {NoSig}, Calculate(c, modules, sig)
  PROVE  /\ lock = c /\ lock' = NoRun /\ work' = db'
         /\ UNCHANGED <<tree, edits, troubles, run, edges, calculations>>
         /\ db' \in Index /\ db'.flows = NewFlows(modules, sig)
         /\ db'.hashes = db.hashes /\ db'.facts = db.facts /\ db'.status = db.status
         /\ db'.flowSig = db.flowSig /\ db'.joinSig = db.joinSig
         /\ db'.joinDone = db.joinDone /\ db'.joinMethods = db.joinMethods
  <1>1. db \in Index /\ db' = [db EXCEPT !.flows = NewFlows(modules, sig)]
    BY DEF Calculate, NewFlows, CalculationTypes
  <1>2. NewFlows(modules, sig) \subseteq Flow
    BY NewFlowsType
  <1> QED BY <1>1, <1>2 DEF Calculate, Index

LEMMA CalculationKeepsEdges ==
  ASSUME EdgeInv, CalculationStep
  PROVE  EdgeInv'
  <1>1. ASSUME NEW c \in Calculators, OpenCalculation(c) PROVE EdgeInv'
    <2>1. /\ lock = NoRun /\ lock' = c
          /\ UNCHANGED <<tree, edits, troubles, db, work, run, edges>>
      BY <1>1 DEF OpenCalculation
    <2>2. \A r \in Runs : lock # r /\ lock' # r
      BY <2>1, NamesAssumption, CalculationAssumption
    <2>3. LockFits'
      BY <2>1, <2>2 DEF EdgeInv, EdgesFit, LockFits
    <2> QED BY <2>1, <2>3
            DEF EdgeInv, EdgesFit, CalculationTypes, ViewIsRead, Knows, RunEdges, Written,
                FactsFit, SignedServed
  <1>2. ASSUME NEW c \in Calculators, AbandonCalculation(c) PROVE EdgeInv'
    <2>1. /\ lock = c /\ lock' = NoRun
          /\ UNCHANGED <<tree, edits, troubles, db, work, run, edges, calculations>>
      BY <1>2 DEF AbandonCalculation
    <2>2. LockFits'
      BY <2>1, NoneHolding DEF EdgeInv, EdgesFit, LockFits, Scanned
    <2> QED BY <2>1, <2>2
            DEF EdgeInv, EdgesFit, CalculationTypes, ViewIsRead, Knows, RunEdges, Written,
                FactsFit, SignedServed
  <1>3. ASSUME NEW c \in Calculators, NEW modules \in Scopes,
               NEW sig \in Signatures \cup {NoSig}, Calculate(c, modules, sig)
        PROVE  EdgeInv'
    <2>1. /\ lock = c /\ lock' = NoRun /\ work' = db'
          /\ UNCHANGED <<tree, edits, troubles, run, edges>>
          /\ db' \in Index /\ db'.hashes = db.hashes /\ db'.facts = db.facts
          /\ db'.flowSig = db.flowSig
      BY <1>3, CalculateEffects DEF EdgeInv
    <2>2. /\ \A r \in Runs : run[r].pc \notin Holding
          /\ \A r \in Runs : run[r].pc \in Scanned => db.hashes = tree
      BY <2>1, NoneHolding DEF EdgeInv, EdgesFit
    <2>3. LockFits'
      BY <2>1, <2>2 DEF LockFits, Scanned
    <2>4. \A r \in Runs : Written(run[r], work', db')
      BY <2>2 DEF Written, Holding
    <2>5. CalculationTypes'
      BY <2>1 DEF EdgeInv, CalculationTypes, ViewIsRead
    <2>6. FactsFit' /\ SignedServed(db', edges')
      BY <2>1 DEF EdgeInv, EdgesFit, FactsFit, SignedServed
    <2>7. \A r \in Runs : Knows(run[r])' /\ RunEdges(run[r], edges)'
      BY <2>1 DEF EdgeInv, EdgesFit, Knows, RunEdges
    <2> QED BY <2>1, <2>3, <2>4, <2>5, <2>6, <2>7 DEF EdgeInv, EdgesFit
  <1> QED BY <1>1, <1>2, <1>3 DEF CalculationStep

LEMMA EdgeInit == CalculationInit => EdgeInv
  <1> SUFFICES ASSUME CalculationInit PROVE EdgeInv
    OBVIOUS
  <1>1. Init /\ edges = NoEdges /\ TypeInv /\ \A r \in Runs : run[r] = IdleRun
    BY TypeInvInit DEF CalculationInit, Init
  <1>2. \A r \in Runs : run[r].pc = "idle"
    BY <1>1 DEF IdleRun
  <1>3. CalculationTypes
    BY <1>1 DEF CalculationTypes, TypeInv, TypeOK, NoEdges
  <1>4. \A r \in Runs : Knows(run[r]) /\ RunEdges(run[r], edges) /\ Written(run[r], work, db)
    BY <1>2 DEF Knows, RunEdges, Written
  <1>5. LockFits /\ FactsFit /\ SignedServed(db, edges)
    BY <1>1, <1>2 DEF Init, LockFits, Holding, Scanned, FactsFit, SignedServed, EmptyIndex
  <1> QED BY <1>3, <1>4, <1>5 DEF EdgeInv, EdgesFit

LEMMA EdgeStep ==
  ASSUME EditsDuringRuns = FALSE, SameEdges
  PROVE  EdgeInv /\ [CalculationNext]_calculationVars => EdgeInv'
  <1> SUFFICES ASSUME EdgeInv, [CalculationNext]_calculationVars PROVE EdgeInv'
    OBVIOUS
  <1>1. CASE UNCHANGED calculationVars
    BY <1>1 DEF calculationVars, vars, EdgeInv, CalculationTypes, ViewIsRead, EdgesFit,
                LockFits, Knows, RunEdges, Written, FactsFit, SignedServed
  <1> QED BY <1>1, IndexKeepsEdges, CalculationKeepsEdges DEF CalculationNext

-----------------------------------------------------------------------------
(* A calculation gives the flows of an index run                           *)

LEMMA CurrentOnDisk ==
  ASSUME NEW t \in Trees, tree \in Trees, \A f \in Present(t) : tree[f] = t[f]
  PROVE  OnDisk(t) = t
  <1>1. \A f \in Files : OnDisk(t)[f] = t[f]
    BY DEF OnDisk, Present
  <1> QED BY <1>1 DEF OnDisk, Trees

\* The flows rebuilt from the edges of this join, over current files, are
\* those of a complete run.
LEMMA RebuiltIsExpected ==
  ASSUME CalculationTypes, db.facts = db.hashes, NEW sig \in Signatures,
         Serves(edges, sig, db.hashes), \A f \in Present(db.hashes) : tree[f] = db.hashes[f]
  PROVE  Rebuilt(edges.sig) = Expected(db.hashes, sig)
  <1> DEFINE t == db.hashes
  <1>1. t \in Trees /\ tree \in Trees
    BY DEF CalculationTypes, Index
  <1>2. OnDisk(t) = t
    BY <1>1, CurrentOnDisk
  <1>3. Rebuilt(edges.sig) = AstFlows(t) \cup
          {[kind |-> edges.calls, entry |-> f, src |-> OnDisk(edges.src),
            sig |-> edges.sig] : f \in Present(t) \cap Present(edges.src)}
    BY <1>2 DEF Rebuilt
  <1>4. CASE sig = NoEngine
    <2>1. Present(edges.src) = {}
      BY <1>4 DEF Serves, NoEdges, Absent, Present
    <2> QED BY <1>3, <1>4, <2>1 DEF Expected
  <1>5. CASE sig # NoEngine /\ Present(t) = {}
    BY <1>3, <1>5 DEF Expected
  <1>6. CASE sig # NoEngine /\ edges = EdgesOf(t, sig)
    <2>1. edges.src = t /\ edges.calls = "full" /\ edges.sig = sig
      BY <1>6 DEF EdgesOf
    <2> QED BY <1>2, <1>3, <1>6, <2>1 DEF Expected
  <1> QED BY <1>4, <1>5, <1>6 DEF Serves

\* A calculation of every module keeps nothing and finds every flow anew.
LEMMA WholeCalculation ==
  ASSUME CalculationTypes, NEW sig
  PROVE  NewFlows(Files, sig) = Rebuilt(sig)
  <1>1. Retained(Files) = {}
    BY DEF Retained, CalculationTypes, Index, Flow
  <1>2. \A w \in Rebuilt(sig) : w.entry \in Files
    BY DEF Rebuilt, AstFlows, Present
  <1> QED BY <1>1, <1>2 DEF NewFlows, Calculated

\* A calculation over a settled index persists the flow set that an index run
\* persists for the tree, whatever was interrupted, resumed or calculated
\* before (call_graph_stage.py persist_call_graph, flow_calculation.py
\* calculate_persisted_flows).  Its limits are those of the run, no file changes
\* while a run is active, and runs that overlap persist the same edges.
THEOREM CalculationsAgreeWithRuns ==
  ASSUME EditsDuringRuns = FALSE, SameEdges, OtherLimits = FALSE
  PROVE  CalculationSpec => CalculationGivesIndexFlows
  <1>1. ASSUME EdgeInv, NEW c \in Calculators, NEW sig \in Signatures \cup {NoSig},
               Settled, Calculate(c, Files, sig)
        PROVE  db'.flows = Expected(tree, db.flowSig)
    <2>1. db.flowSig \in Signatures /\ db.hashes = tree /\ db.facts = db.hashes
          /\ Serves(edges, db.flowSig, db.hashes) /\ CalculationTypes
      BY <1>1 DEF Settled, EdgeInv, EdgesFit, CalculationTypes, Index, FactsFit, SignedServed
    <2>2. sig = edges.sig
      BY <1>1 DEF Calculate, Limits
    <2>3. db'.flows = NewFlows(Files, edges.sig)
      BY <1>1, <2>1, <2>2, CalculateEffects
    <2>4. Rebuilt(edges.sig) = Expected(tree, db.flowSig)
      BY <2>1, RebuiltIsExpected
    <2> QED BY <2>1, <2>3, <2>4, WholeCalculation
  <1>2. EdgeInv /\ [CalculationNext]_calculationVars =>
          /\ EdgeInv'
          /\ [\A c \in Calculators, sig \in Signatures \cup {NoSig} :
                Settled /\ Calculate(c, Files, sig)
                   => db'.flows = Expected(tree, db.flowSig)]_calculationVars
    BY <1>1, EdgeStep
  <1> QED BY <1>2, EdgeInit, PTL DEF CalculationSpec, CalculationGivesIndexFlows

-----------------------------------------------------------------------------
(* Runs and calculations lose nothing together                             *)

\* A committed join checkpoint comes with the edges of its join.
JoinEdges == db.joinSig # NoSig => Serves(edges, db.joinSig, db.hashes)

CalculationInv ==
    EdgeInv /\ RunsFit /\ SeedFits /\ SigFits /\ RowsFit /\ JoinEdges

\* The circumstances of the theorems: no file gets an earlier content back,
\* and a calculation has the limits of the runs.
PlainCalculations ==
    /\ PlainRuns /\ SameEdges
    /\ Reverts = FALSE /\ OtherLimits = FALSE

LEMMA CalculationResumes ==
  ASSUME CalculationInv, lock \notin Calculators
  PROVE  ResumeInv
  BY RunTypes DEF CalculationInv, EdgeInv, EdgesFit, ResumeInv

\* A checkpoint of a run leaves the rows of its signature with its edges.
LEMMA CheckpointEdges ==
  ASSUME PlainRuns, CalculationInv, NEW r \in Runs,
         \/ PersistEdges(r)
         \/ UNCHANGED edges /\ \E k \in Files : JoinCheckpoint(r, k)
         \/ UNCHANGED edges /\ InputOutputCheckpoint(r)
  PROVE  JoinEdges'
  <1> DEFINE s == run[r]
  <1>1. /\ run \in [Runs -> RunState] /\ s \in RunState /\ work \in Index
        /\ s.pc \in {"engine", "join"} /\ lock = r
    BY DEF CalculationInv, EdgeInv, CalculationTypes, EdgesFit, LockFits, Holding,
           PersistEdges, CallGraphCheckpoint, JoinCheckpoint, InputOutputCheckpoint
  <1>2. /\ s.view = tree /\ s.timedOut = FALSE /\ s.sig # NoEngine
        /\ work.hashes = tree /\ work.joinSig \in {s.sig, NoSig}
    BY <1>1 DEF CalculationInv, RunsFit, ResumeFits, SigFits, EdgeInv, EdgesFit, LockFits,
                Scanned, EngineSigs
  <1>3. db'.joinSig = work.joinSig /\ db'.hashes = work.hashes /\ UNCHANGED tree
    BY <1>1 DEF PersistEdges, CallGraphCheckpoint, JoinCheckpoint, InputOutputCheckpoint,
                Commit, Provisional, Index
  <1>4. CASE PersistEdges(r)
    <2>1. PICK calls \in {"full", "cut"}, timedOut \in BOOLEAN :
             CallGraphCheckpoint(r, calls, timedOut)
      BY <1>4 DEF PersistEdges
    <2>2. calls = "full" /\ Goto(r, [s EXCEPT !.pc = "join", !.calls = calls,
                                              !.timedOut = timedOut])
      BY <2>1 DEF CallGraphCheckpoint, PlainRuns
    <2>3. run'[r].calls = "full"
      BY <1>1, <2>2 DEF Goto, RunState
    <2>4. edges' = EdgesOf(tree, s.sig)
      BY <1>2, <1>4, <2>3 DEF PersistEdges, EdgesOf
    <2> QED BY <1>2, <1>3, <2>4 DEF JoinEdges, Serves
  <1>5. CASE UNCHANGED edges /\ s.pc = "join"
    <2>1. Serves(edges, s.sig, tree)
      BY <1>2, <1>5 DEF CalculationInv, EdgeInv, EdgesFit, RunEdges
    <2> QED BY <1>2, <1>3, <1>5, <2>1 DEF JoinEdges
  <1> QED BY <1>4, <1>5 DEF JoinCheckpoint, InputOutputCheckpoint

LEMMA IndexKeepsJoinEdges ==
  ASSUME PlainRuns, CalculationInv, IndexStep
  PROVE  JoinEdges'
  <1>1. CASE UNCHANGED <<db, edges>>
    BY <1>1 DEF CalculationInv, JoinEdges
  <1>2. ASSUME NEW r \in Runs, UNCHANGED edges, Skip(r) PROVE JoinEdges'
    <2>1. db' = work /\ work = db
      BY <1>2 DEF Skip, Commit, CalculationInv, EdgeInv, EdgesFit, Written
    <2> QED BY <1>1, <1>2, <2>1
  <1>3. ASSUME NEW r \in Runs, FinishRun(r) PROVE JoinEdges'
    <2>1. work \in Index
      BY DEF CalculationInv, EdgeInv, CalculationTypes
    <2>2. db'.joinSig = NoSig
      BY <1>3, <2>1 DEF FinishRun, Finish, Commit, Index
    <2> QED BY <2>2 DEF JoinEdges
  <1>4. ASSUME NEW r \in Runs, UNCHANGED edges,
               \/ Inventory(r) \/ Refuse(r) \/ Extract(r) \/ StageStart(r) \/ Reopen(r)
               \/ LockLost(r) \/ Stop(r)
               \/ \E sig \in Signatures, full, resume \in BOOLEAN :
                     Begin(r, sig, full, resume, FALSE)
        PROVE  JoinEdges'
    <2>1. UNCHANGED db
      BY <1>4 DEF Inventory, Refuse, Extract, StageStart, Reopen, LockLost, Stop, Begin,
                  Abandon, Write
    <2> QED BY <1>1, <1>4, <2>1
  <1>5. ASSUME NEW f \in Files, NEW v \in Versions, Edit(f, v), UNCHANGED edges
        PROVE  JoinEdges'
    BY <1>1, <1>5 DEF Edit
  <1> QED BY <1>2, <1>3, <1>4, <1>5, CheckpointEdges DEF IndexStep

\* Steps beside a calculation that leave the rows and the processes' phases,
\* or end one process.
LEMMA BlockedKeepsRows ==
  ASSUME PlainRuns, CalculationInv, lock \in Calculators, IndexStep
  PROVE  RunsFit' /\ SeedFits' /\ SigFits' /\ RowsFit'
  <1> DEFINE Goal == RunsFit' /\ SeedFits' /\ SigFits' /\ RowsFit'
  <1>1. UNCHANGED <<lock, db, work, edges>>
    BY Blocked DEF CalculationInv
  <1>2. /\ run \in [Runs -> RunState] /\ tree \in Trees /\ edits \in 0..MaxEdits
        /\ db \in Index /\ work \in Index
        /\ RunsFit /\ SeedFits /\ SigFits /\ RowsFit
    BY DEF CalculationInv, EdgeInv, CalculationTypes
  <1>3. ~Unready /\ ~Unready'
    BY <1>1, CalculationAssumption DEF Unready
  <1>4. ASSUME NEW r \in Runs, Abandon(r), UNCHANGED <<tree, edits>> PROVE Goal
    <2>1. \A q \in Runs : run'[q] = IF q = r THEN IdleRun ELSE run[q]
      BY <1>2, <1>4 DEF Abandon
    <2>2. IdleRun.pc = "idle" /\ ResumeFits(IdleRun)
      BY IdleResumes DEF IdleRun
    <2>3. \A q \in Runs : ResumeFits(run'[q])
      BY <1>2, <2>1, <2>2 DEF RunsFit
    <2>4. RunsFit'
      BY <1>4, <2>3 DEF RunsFit, ResumeFits
    <2>5. SeedFits' /\ SigFits'
      BY <1>1, <1>2, <1>4, <2>1, <2>2
         DEF SeedFits, Seeded, SigFits, CheckpointFits, Owed, Current
    <2>6. RowsFit'
      BY <1>1, <1>2, <1>3, <1>4
         DEF RowsFit, Sound, ReadyRows, CheckpointFits, SignedFits, Owed, Current
    <2> QED BY <2>4, <2>5, <2>6
  <1>5. ASSUME NEW f \in Files, NEW v \in Versions, Edit(f, v) PROVE Goal
    <2>1. (\A q \in Runs : run[q].pc = "idle") /\ UNCHANGED run
      BY <1>5 DEF Edit, AtRest, PlainRuns
    <2>2. RunsFit' /\ SeedFits' /\ SigFits'
      BY <2>1 DEF RunsFit, ResumeFits, SeedFits, Seeded, SigFits
    <2>3. Sound(db) /\ Sound(work) /\ \A g \in Files : tree[g] <= edits + 1
      BY <1>2 DEF RowsFit
    <2>4. \A g \in Files : tree'[g] <= edits' + 1
      BY <1>2, <1>5, <2>3, EditedFiles
    <2>5. Sound(db)' /\ Sound(work)'
      BY <1>1, <1>2, <1>5, <2>3, EditedIndex DEF Sound
    <2>6. (Owed(db)' => Owed(db)) /\ (Owed(work)' => Owed(work))
      BY <1>1, <1>2, <1>5, <2>3, EditedIndex DEF Owed, Current
    <2>7. RowsFit'
      BY <1>1, <1>2, <1>3, <2>4, <2>5, <2>6
         DEF RowsFit, ReadyRows, CheckpointFits, SignedFits
    <2> QED BY <2>2, <2>7
  <1> QED BY <1>4, <1>5, Blocked DEF CalculationInv

\* A calculation with the edges of this join keeps the flows it has of it.
LEMMA KeptOrRebuilt ==
  ASSUME CalculationTypes, db.facts = db.hashes, NEW sig \in Signatures,
         Serves(edges, sig, db.hashes), \A f \in Present(db.hashes) : tree[f] = db.hashes[f],
         NEW modules, NEW X, X \subseteq db.flows, X \subseteq Expected(db.hashes, sig)
  PROVE  X \subseteq NewFlows(modules, edges.sig)
  <1> SUFFICES ASSUME NEW w \in X PROVE w \in NewFlows(modules, edges.sig)
    OBVIOUS
  <1>1. w.entry \in Present(db.facts)
    BY DEF Expected, AstFlows
  <1>2. w \in Rebuilt(edges.sig)
    BY RebuiltIsExpected
  <1> QED BY <1>1, <1>2 DEF NewFlows, Retained, Calculated

LEMMA PrefixIsExpected ==
  ASSUME NEW t, NEW n, NEW sig \in EngineSigs
  PROVE  Prefix(t, n, sig) \subseteq Expected(t, sig)
  BY DEF Prefix, JoinFlows, Expected, EngineSigs

\* A calculation keeps what a checkpoint or a signature promises.
LEMMA CalculateKeepsRows ==
  ASSUME PlainCalculations, CalculationInv, NEW c \in Calculators, NEW modules,
         NEW sig \in Signatures \cup {NoSig}, Calculate(c, modules, sig)
  PROVE  ReadyRows(db')
  <1>1. /\ db'.flows = NewFlows(modules, edges.sig) /\ db'.hashes = db.hashes
        /\ db'.status = db.status /\ db'.flowSig = db.flowSig /\ db'.joinSig = db.joinSig
        /\ db'.joinDone = db.joinDone /\ db'.joinMethods = db.joinMethods
    <2>1. sig = edges.sig
      BY DEF Calculate, Limits, PlainCalculations
    <2> QED BY <2>1, CalculateEffects DEF CalculationInv, EdgeInv
  <1>2. /\ CalculationTypes /\ db.facts = db.hashes /\ ReadyRows(db)
        /\ SignedServed(db, edges) /\ JoinEdges
        /\ db.joinSig \in EngineSigs \cup {NoSig} /\ db.flowSig \in Signatures \cup {NoSig}
    BY DEF CalculationInv, EdgeInv, EdgesFit, FactsFit, RowsFit, Sound, CalculationTypes,
           Index
  <1>3. ASSUME Owed(db)
        PROVE  /\ \A f \in Present(db.hashes) : tree[f] = db.hashes[f]
               /\ Owed(db)
    BY <1>3 DEF Owed, Current, PlainCalculations
  <1>4. ASSUME db.joinSig # NoSig, Owed(db)
        PROVE  Prefix(db.hashes, db.joinDone, db.joinSig) \subseteq db'.flows
    <2>1. db.joinSig \in EngineSigs /\ db.joinSig \in Signatures
          /\ Serves(edges, db.joinSig, db.hashes)
      BY <1>2, <1>4 DEF JoinEdges, EngineSigs
    <2>2. Prefix(db.hashes, db.joinDone, db.joinSig) \subseteq db.flows
      BY <1>2, <1>4 DEF ReadyRows, CheckpointFits
    <2> QED BY <1>1, <1>2, <1>3, <1>4, <2>1, <2>2, KeptOrRebuilt, PrefixIsExpected
  <1>5. ASSUME db.flowSig # NoSig, Owed(db)
        PROVE  Expected(db.hashes, db.flowSig) \subseteq db'.flows
    <2>1. db.flowSig \in Signatures /\ Serves(edges, db.flowSig, db.hashes)
      BY <1>2, <1>5 DEF SignedServed
    <2>2. Expected(db.hashes, db.flowSig) \subseteq db.flows
      BY <1>2, <1>5 DEF ReadyRows, SignedFits
    <2> QED BY <1>1, <1>2, <1>3, <1>5, <2>1, <2>2, KeptOrRebuilt
  <1>6. Owed(db') => Owed(db)
    BY <1>1 DEF Owed, Current
  <1> QED BY <1>1, <1>2, <1>4, <1>5, <1>6 DEF ReadyRows, CheckpointFits, SignedFits

LEMMA CalculationStepKeepsRows ==
  ASSUME PlainCalculations, CalculationInv, CalculationStep
  PROVE  RunsFit' /\ SeedFits' /\ SigFits' /\ RowsFit' /\ JoinEdges'
  <1> DEFINE Goal == RunsFit' /\ SeedFits' /\ SigFits' /\ RowsFit' /\ JoinEdges'
  <1>1. ASSUME NEW c \in Calculators, OpenCalculation(c) \/ AbandonCalculation(c)
        PROVE  Goal
    <2>1. lock \in {NoRun, c} /\ lock' \in {NoRun, c}
          /\ UNCHANGED <<tree, edits, db, work, run, edges>>
      BY <1>1 DEF OpenCalculation, AbandonCalculation
    <2>2. ~Unready /\ ~Unready'
      BY <2>1, NamesAssumption, CalculationAssumption DEF Unready
    <2> QED BY <2>1, <2>2
            DEF CalculationInv, RunsFit, ResumeFits, SeedFits, Seeded, SigFits, RowsFit,
                Sound, ReadyRows, CheckpointFits, SignedFits, Owed, Current, JoinEdges
  <1>2. ASSUME NEW c \in Calculators, NEW modules \in Scopes,
               NEW sig \in Signatures \cup {NoSig}, Calculate(c, modules, sig)
        PROVE  Goal
    <2>1. /\ lock = c /\ lock' = NoRun /\ work' = db'
          /\ UNCHANGED <<tree, edits, run, edges>>
          /\ db'.hashes = db.hashes /\ db'.facts = db.facts /\ db'.joinSig = db.joinSig
      BY <1>2, CalculateEffects DEF CalculationInv, EdgeInv
    <2>2. \A r \in Runs : run[r].pc \notin Holding
      BY <2>1, NoneHolding DEF CalculationInv, EdgeInv, EdgesFit
    <2>3. RunsFit' /\ JoinEdges'
      BY <2>1 DEF CalculationInv, RunsFit, ResumeFits, JoinEdges
    <2>4. SeedFits' /\ SigFits'
      BY <2>1, <2>2 DEF CalculationInv, SeedFits, Seeded, SigFits, Holding
    <2>5. ReadyRows(db')
      BY <1>2, CalculateKeepsRows
    <2>6. RowsFit'
      BY <2>1, <2>5 DEF CalculationInv, RowsFit, Sound, ReadyRows, CheckpointFits,
                        SignedFits, Owed, Current
    <2> QED BY <2>3, <2>4, <2>6
  <1> QED BY <1>1, <1>2 DEF CalculationStep

LEMMA CalculationInvInit == CalculationInit => CalculationInv
  BY EdgeInit, ResumeInit
     DEF CalculationInit, CalculationInv, ResumeInv, JoinEdges, Init, EmptyIndex

LEMMA CalculationInvStep ==
  ASSUME PlainCalculations
  PROVE  CalculationInv /\ [CalculationNext]_calculationVars => CalculationInv'
  <1> SUFFICES ASSUME CalculationInv, [CalculationNext]_calculationVars
               PROVE  CalculationInv'
    OBVIOUS
  <1>1. EdgeInv'
    BY EdgeStep DEF CalculationInv, PlainCalculations, PlainRuns
  <1>2. CASE UNCHANGED calculationVars
    BY <1>1, <1>2
       DEF calculationVars, vars, CalculationInv, RunsFit, ResumeFits, SeedFits, Seeded,
           SigFits, RowsFit, Sound, ReadyRows, CheckpointFits, SignedFits, Owed, Current,
           Unready, JoinEdges
  <1>3. CASE IndexStep /\ lock \in Calculators
    BY <1>1, <1>3, BlockedKeepsRows, IndexKeepsJoinEdges DEF CalculationInv, PlainCalculations
  <1>4. CASE IndexStep /\ lock \notin Calculators
    <2>1. ResumeInv'
      BY <1>4, CalculationResumes, IndexStepIsNext, ResumeStep DEF PlainCalculations
    <2> QED BY <1>1, <1>4, <2>1, IndexKeepsJoinEdges
            DEF CalculationInv, ResumeInv, PlainCalculations
  <1>5. CASE CalculationStep
    BY <1>1, <1>5, CalculationStepKeepsRows DEF CalculationInv
  <1> QED BY <1>2, <1>3, <1>4, <1>5 DEF CalculationNext

\* Calculations between the checkpoints of index runs, of one module or of all,
\* take no flow from a settled index, nor one that a join checkpoint counts:
\* the resume that follows still loses none (flow_calculation.py
\* calculate_persisted_flows).
THEOREM CalculationsLoseNothing ==
  ASSUME PlainCalculations
  PROVE  CalculationSpec => [](CheckpointHoldsItsPrefix /\ SettledMissesNothing)
  <1>1. CalculationInv => CheckpointHoldsItsPrefix /\ SettledMissesNothing
    BY FittingRows DEF CalculationInv
  <1>2. CalculationInv /\ [CalculationNext]_calculationVars => CalculationInv'
    BY CalculationInvStep
  <1> QED BY <1>1, <1>2, CalculationInvInit, PTL DEF CalculationSpec

LEMMA CalculationKeepsProgress ==
  ASSUME PlainCalculations, OneProcess, CalculationInv, ProgressFits, CalculationNext
  PROVE  /\ ProgressFits'
         /\ (\E r \in Runs : lock = r /\ run[r].resume) => Further
  <1> DEFINE Goal == /\ ProgressFits'
                     /\ (\E r \in Runs : lock = r /\ run[r].resume) => Further
  <1>1. CASE IndexStep /\ lock \notin Calculators
    <2>1. ProgressInv
      BY <1>1, CalculationResumes DEF ProgressInv
    <2> QED BY <1>1, <2>1, IndexStepIsNext, ProgressStep DEF PlainCalculations, ProgressInv
  <1>2. CASE IndexStep /\ lock \in Calculators
    <2>1. UNCHANGED <<lock, db, work>> /\ \A r \in Runs : lock # r
      BY <1>2, Blocked, CalculationAssumption DEF CalculationInv
    <2>2. ASSUME NEW r \in Runs, Abandon(r), UNCHANGED tree PROVE ProgressFits'
      <3>1. run'[r] = IdleRun
        BY <2>2 DEF Abandon, CalculationInv, EdgeInv, CalculationTypes
      <3> QED BY <3>1 DEF ProgressFits, OneProcess, IdleRun
    <2>3. ASSUME NEW f \in Files, NEW v \in Versions, Edit(f, v) PROVE ProgressFits'
      <3>1. (\A q \in Runs : run[q].pc = "idle") /\ UNCHANGED run
        BY <2>3 DEF Edit, AtRest, PlainCalculations, PlainRuns
      <3> QED BY <3>1 DEF ProgressFits
    <2> QED BY <1>2, <2>1, <2>2, <2>3, Blocked DEF CalculationInv
  <1>3. ASSUME NEW c \in Calculators, OpenCalculation(c) \/ AbandonCalculation(c)
        PROVE  Goal
    <2>1. lock \in {NoRun, c} /\ UNCHANGED <<tree, db, work, run>>
      BY <1>3 DEF OpenCalculation, AbandonCalculation
    <2>2. \A r \in Runs : lock # r
      BY <2>1, NamesAssumption, CalculationAssumption
    <2> QED BY <2>1, <2>2 DEF ProgressFits
  <1>4. ASSUME NEW c \in Calculators, NEW modules \in Scopes,
               NEW sig \in Signatures \cup {NoSig}, Calculate(c, modules, sig)
        PROVE  Goal
    <2>1. /\ lock = c /\ work' = db' /\ UNCHANGED <<tree, run>>
          /\ db'.joinDone = db.joinDone
      BY <1>4, CalculateEffects DEF CalculationInv, EdgeInv
    <2>2. \A r \in Runs : lock # r /\ run[r].pc \notin Holding
      BY <2>1, NoneHolding DEF CalculationInv, EdgeInv, EdgesFit
    <2> QED BY <2>1, <2>2 DEF ProgressFits, Holding
  <1> QED BY <1>1, <1>2, <1>3, <1>4 DEF CalculationNext, CalculationStep

\* Beside calculations, too, a resumed run alone on the store never takes the
\* committed join back: a calculation between two checkpoints moves no cursor.
THEOREM CalculationsKeepProgress ==
  ASSUME PlainCalculations, OneProcess
  PROVE  CalculationSpec => ResumeKeepsProgress
  <1>1. CalculationInit => CalculationInv /\ ProgressFits
    <2>1. CalculationInit => ProgressFits
      BY DEF CalculationInit, Init, ProgressFits, IdleRun
    <2> QED BY <2>1, CalculationInvInit
  <1>2. CalculationInv /\ ProgressFits /\ [CalculationNext]_calculationVars =>
          /\ CalculationInv' /\ ProgressFits'
          /\ [(\E r \in Runs : lock = r /\ run[r].resume) =>
                 db'.joinDone >= db.joinDone \/ db'.status = "complete"]_vars
    <2> SUFFICES ASSUME CalculationInv, ProgressFits, [CalculationNext]_calculationVars
                 PROVE  /\ CalculationInv' /\ ProgressFits'
                        /\ [(\E r \in Runs : lock = r /\ run[r].resume) =>
                              db'.joinDone >= db.joinDone \/ db'.status = "complete"]_vars
      OBVIOUS
    <2>1. CASE UNCHANGED calculationVars
      BY <2>1, CalculationInvStep DEF calculationVars, vars, ProgressFits
    <2>2. CASE CalculationNext
      BY <2>2, CalculationInvStep, CalculationKeepsProgress DEF Further
    <2> QED BY <2>1, <2>2
  <1> QED BY <1>1, <1>2, PTL DEF CalculationSpec, ResumeKeepsProgress

=============================================================================
