------------------------------ MODULE IndexRun ------------------------------
(***************************************************************************)
(* `systemlens index` on one repository: the incremental run that reads    *)
(* the source tree, keeps the SQLite index current and publishes the flow  *)
(* snapshot through committed checkpoints.                                 *)
(*                                                                         *)
(* A run is one process.  Its database transaction (`work`) is committed   *)
(* at every checkpoint, which releases SQLite's write lock for an instant, *)
(* and at its end.  Between those points a crash loses what the            *)
(* transaction wrote, and another command sees only `db`.                  *)
(*                                                                         *)
(* Data abstraction.  A file's content is a version number, 0 when the     *)
(* file is absent.  Each file declares one input method, so the files are  *)
(* the entries of the join, in path order.  An interprocedural flow        *)
(* depends on every file the engine saw; a flow of the AST pass depends on *)
(* its own file.  A flow signature (engine, hop limit, edge confidence)    *)
(* is a value of Signatures.                                               *)
(***************************************************************************)
EXTENDS Integers, FiniteSets

CONSTANTS
    Runs,                 \* processes that may run `systemlens index`
    NoRun,                \* nobody holds the write lock
    NFiles,               \* number of source files of the repository
    Signatures,           \* flow signatures a run may be configured with
    NoEngine,             \* the member of Signatures of `engine: none`
    NoSig,                \* a signature row that is not in index_meta
    MaxEdits,             \* bound: edits of the source tree
    MaxTroubles,          \* bound: crashes, errors and engine timeouts
    Projects,             \* projects a progress export reports one by one
    EditsDuringRuns,      \* may a file change while a run is active?
    Reverts,              \* may a file get an earlier content back?
    ParseBeforeInventory, \* is module discovery on ("properties" enabled)?
    AllowResume,          \* --resume-call-graph-join
    AllowTimeout,         \* may the engine reach its deadline?
    AllowProgressHtml     \* --progress-html (call_graph_progress is set)

ASSUME SizesAssumption == /\ NFiles \in Nat /\ MaxEdits \in Nat
                          /\ MaxTroubles \in Nat /\ Projects \in Nat \ {0}
ASSUME NamesAssumption == NoRun \notin Runs /\ NoSig \notin Signatures
ASSUME OptionsAssumption ==
    {EditsDuringRuns, Reverts, ParseBeforeInventory,
     AllowResume, AllowTimeout, AllowProgressHtml} \subseteq BOOLEAN

Files    == 1..NFiles
Versions == 0..(MaxEdits + 1)
Trees    == [Files -> Versions]
Unread   == -1             \* the run has not read the file yet

Present(t) == {f \in Files : t[f] # 0}

-----------------------------------------------------------------------------
(* Flows.  `src` is what the flow was computed from.                       *)

Flow == [kind : {"ast", "full", "cut"}, entry : Files, src : Trees,
         sig : Signatures \cup {NoSig}]

\* The flows of the AST pass over a tree: each reads its own file only.
AstFlows(t) ==
    {[kind |-> "ast", entry |-> f, sig |-> NoSig,
      src |-> [g \in Files |-> IF g = f THEN t[f] ELSE 0]] : f \in Present(t)}

\* The place of an input method in the join.
Place(t, f) == Cardinality({g \in Present(t) : g <= f})

\* Mutants: the join skips the entry after its cursor; a batch ends before
\* the last entry it counts.
JoinFlowsSkipFirst(t, done, upto, sig, calls) ==
    {[kind |-> calls, entry |-> f, src |-> t, sig |-> sig] :
        f \in {g \in Present(t) : done + 1 < Place(t, g) /\ Place(t, g) <= upto}}
JoinFlowsDropLast(t, done, upto, sig, calls) ==
    {[kind |-> calls, entry |-> f, src |-> t, sig |-> sig] :
        f \in {g \in Present(t) : done < Place(t, g) /\ Place(t, g) < upto}}

\* The flows of the entries after the first `done`, up to entry `upto`.
\* From a call set cut by the engine's deadline they are "cut" flows.
JoinFlows(t, done, upto, sig, calls) ==
    {[kind |-> calls, entry |-> f, src |-> t, sig |-> sig] :
        f \in {g \in Present(t) : done < Place(t, g) /\ Place(t, g) <= upto}}

Entries(t) == Cardinality(Present(t))

\* The input methods the join walks, by identity and line range: an edit
\* inside a body (version 1 to 2, 3 to 4) keeps them, another one moves them.
MethodsSignature(t) == [f \in Files |-> (t[f] + 1) \div 2]

-----------------------------------------------------------------------------
VARIABLES
    tree,      \* the source files on disk
    edits,     \* edits so far
    troubles,  \* crashes, errors and timeouts so far
    lock,      \* the process that holds SQLite's write lock
    db,        \* the committed index
    work,      \* the index as the open transaction sees it
    run        \* the local state of each process

vars == <<tree, edits, troubles, lock, db, work, run>>

Statuses == {"none", "partial", "complete"}

Index == [hashes      : Trees,                        \* table files
          facts       : Trees,                        \* endpoints: content read
          flows       : SUBSET Flow,                  \* table code_flows
          status      : Statuses,                     \* code_flow_snapshot_status
          flowSig     : Signatures \cup {NoSig},      \* code_flow_signature
          joinSig     : Signatures \cup {NoSig},      \* META_JOIN_SIGNATURE
          joinDone    : 0..NFiles,                    \* ..._COMPLETED_ENTRIES
          joinMethods : [Files -> Versions],          \* ..._METHODS_SIGNATURE
          callGraph   : Statuses,                     \* META_CALL_GRAPH_STATUS
          inputOutput : Statuses]                     \* META_INPUT_OUTPUT_STATUS

Absent == [f \in Files |-> 0]

EmptyIndex == [hashes |-> Absent, facts |-> Absent, flows |-> {},
               status |-> "none", flowSig |-> NoSig, joinSig |-> NoSig,
               joinDone |-> 0, joinMethods |-> Absent,
               callGraph |-> "none", inputOutput |-> "none"]

Phases == {"idle", "begun", "hashed", "unchanged", "flows", "engine",
           "join", "final"}

RunState == [pc : Phases, sig : Signatures \cup {NoSig},
             full : BOOLEAN, resume : BOOLEAN, html : BOOLEAN,
             hash     : Trees,                         \* current_hashes
             view     : [Files -> Versions \cup {Unread}], \* parse cache
             joined   : SUBSET Flow,                   \* flows of the join
             cursor   : 0..NFiles,                     \* entries joined
             calls    : {"full", "cut"},               \* engine's call set
             timedOut : BOOLEAN,
             page     : 0..Projects]                   \* projects reported

IdleRun == [pc |-> "idle", sig |-> NoSig, full |-> FALSE, resume |-> FALSE,
            html |-> FALSE, hash |-> Absent, view |-> [f \in Files |-> Unread],
            joined |-> {}, cursor |-> 0, calls |-> "full", timedOut |-> FALSE,
            page |-> 0]

Init == /\ tree \in [Files -> {0, 1}]
        /\ edits = 0 /\ troubles = 0
        /\ lock = NoRun
        /\ db = EmptyIndex /\ work = EmptyIndex
        /\ run = [r \in Runs |-> IdleRun]

AtRest == \A r \in Runs : run[r].pc = "idle"

-----------------------------------------------------------------------------
(* Transactions                                                            *)

\* The transaction goes on with content w.
Write(w) == work' = w /\ UNCHANGED <<db, lock>>

\* commit: w becomes the committed index and the write lock is free.
Commit(w) == db' = w /\ work' = w /\ lock' = NoRun

\* Mutant: the store commits when an error closes it.
AbandonCommits(r) ==
    /\ run'  = [run EXCEPT ![r] = IdleRun]
    /\ lock' = IF lock = r THEN NoRun ELSE lock
    /\ db'   = IF lock = r THEN work ELSE db
    /\ UNCHANGED work

\* The process ends without a commit: its transaction rolls back.
Abandon(r) ==
    /\ run'  = [run EXCEPT ![r] = IdleRun]
    /\ lock' = IF lock = r THEN NoRun ELSE lock
    /\ work' = IF lock = r THEN db ELSE work
    /\ UNCHANGED db

Goto(r, s) == run' = [run EXCEPT ![r] = s]

\* A checkpoint has committed and BEGIN IMMEDIATE takes the lock again, which
\* it does within the busy timeout once nobody holds it.
Reopen(r) ==
    /\ run[r].pc \in {"join", "final"} /\ lock = NoRun
    /\ lock' = r /\ work' = db
    /\ UNCHANGED <<tree, edits, troubles, db, run>>

\* Another writer kept the lock for the whole busy timeout: StoreLockedError.
LockLost(r) ==
    /\ run[r].pc \in {"join", "final"} /\ lock \notin {NoRun, r}
    /\ Abandon(r)
    /\ UNCHANGED <<tree, edits, troubles>>

-----------------------------------------------------------------------------
(* One run, step by step                                                   *)

\* The run takes the write lock and clears the analysis caches.  Module
\* discovery, when it is on, then parses Java files through the shared parse
\* cache, which keeps any number of them.
Begin(r, sig, full, resume, html) ==
    /\ run[r].pc = "idle" /\ lock = NoRun
    /\ resume => AllowResume
    /\ html => AllowProgressHtml
    /\ \E cached \in IF ParseBeforeInventory THEN SUBSET Present(tree) ELSE {{}} :
          Goto(r, [IdleRun EXCEPT
                     !.pc = "begun", !.sig = sig, !.full = full,
                     !.resume = resume, !.html = html,
                     !.view = [f \in Files |-> IF f \in cached THEN tree[f]
                                                               ELSE Unread]])
    /\ lock' = r /\ work' = db
    /\ UNCHANGED <<tree, edits, troubles, db>>

\* Mutant: a resume accepts changed files.
ResumeAcceptedOverEdits(s) ==
    ~s.full /\ work.status = "partial" /\ work.joinSig = s.sig

\* A resume needs the inventory of the checkpoint and a join checkpoint of
\* the same signature.
ResumeAccepted(s) ==
    /\ ~s.full /\ tree = work.hashes
    /\ work.status = "partial"
    /\ work.joinSig = s.sig

\* Hash every file; an accepted resume loads the checkpoint.
Inventory(r) ==
    LET s == run[r] IN
    /\ s.pc = "begun"
    /\ s.resume => ResumeAccepted(s)
    /\ Goto(r, [s EXCEPT
                  !.pc = "hashed", !.hash = tree,
                  !.joined = IF s.resume THEN work.flows ELSE {},
                  !.cursor = IF s.resume THEN work.joinDone ELSE 0])
    /\ UNCHANGED <<tree, edits, troubles, lock, db, work>>

\* A resume that does not fit raises ValueError before anything is written.
Refuse(r) ==
    /\ run[r].pc = "begun" /\ run[r].resume /\ ~ResumeAccepted(run[r])
    /\ Abandon(r)
    /\ UNCHANGED <<tree, edits, troubles>>

\* Mutant: a file that module discovery did not parse is not read.
ReadCacheOnly(s, f) == s.view[f]

\* What the run reads of file f now: the cached parse, else the disk.
Read(s, f) == IF s.view[f] # Unread THEN s.view[f] ELSE tree[f]

Changed(s) == {f \in Present(s.hash) : s.full \/ s.hash[f] # work.hashes[f]}
Deleted(s) == {f \in Present(work.hashes) : s.hash[f] = 0}

\* Mutants: a deletion alone does not rerun the stage; an interrupted stage is
\* not retried.
StageNeededNotForDeletion(s) == \/ s.full \/ Changed(s) # {}
                                \/ work.flowSig # s.sig
                                \/ work.status = "partial"
StageNeededForFilesOnly(s) == s.full \/ Changed(s) # {} \/ Deleted(s) # {}

StageNeeded(s) == \/ s.full \/ Changed(s) # {} \/ Deleted(s) # {}
                  \/ work.flowSig # s.sig
                  \/ work.status = "partial"

\* Mutant: every hash is taken again when the rows are written.
HashesAtWrite(s) == tree

\* The file table: deleted files leave it, scanned ones get the hash that the
\* inventory took before the scan.
NewHashes(s) == [f \in Files |-> IF f \in Changed(s) \cup Deleted(s)
                                 THEN s.hash[f] ELSE work.hashes[f]]

\* Mutant: a deleted file keeps its endpoints.
FactsNotPurged(s) == [f \in Files |-> IF f \in Changed(s) THEN Read(s, f)
                                                          ELSE work.facts[f]]

\* The endpoint rows: purged with the file, replaced by a scan.
NewFacts(s) == [f \in Files |-> IF f \in Changed(s) THEN Read(s, f)
                                ELSE IF f \in Deleted(s) THEN 0
                                ELSE work.facts[f]]

\* Purge the deleted files, extract the facts of the changed ones and record
\* the hashes of both.
Extract(r) ==
    LET s == run[r] IN
    /\ s.pc = "hashed"
    /\ Write([work EXCEPT !.hashes = NewHashes(s), !.facts = NewFacts(s)])
    /\ Goto(r, [s EXCEPT
                  !.pc = IF StageNeeded(s) THEN "flows" ELSE "unchanged",
                  !.view = [f \in Files |-> IF f \in Changed(s) THEN Read(s, f)
                                                                ELSE @[f]]])
    /\ UNCHANGED <<tree, edits, troubles>>

\* The flow stage is not needed: the run commits and ends.
Skip(r) ==
    /\ run[r].pc = "unchanged"
    /\ Commit(work) /\ Goto(r, IdleRun)
    /\ UNCHANGED <<tree, edits, troubles>>

\* Mutants: the signature survives the start of the stage; so do the flows of
\* deleted files.
InProgressStillSigned(s) ==
    [work EXCEPT !.status = "partial",
                 !.flows = {w \in @ : Present(w.src) \subseteq Present(s.hash)}]
InProgressKeepsFlows(s) == [work EXCEPT !.flowSig = NoSig, !.status = "partial"]

\* The snapshot becomes an explicitly partial one and loses the flows that
\* name a file the inventory does not have.
InProgress(s) ==
    [work EXCEPT !.flowSig = NoSig, !.status = "partial",
                 !.flows = {w \in @ : Present(w.src) \subseteq Present(s.hash)}]

\* The flow stage marks the snapshot as in progress, resets the call graph
\* and prepares the join, from its start or from the checkpoint.
StageStart(r) ==
    LET s       == run[r]
        seen    == [f \in Files |-> IF s.hash[f] = 0 THEN 0 ELSE Read(s, f)]
        joins   == s.sig # NoEngine /\ Present(seen) # {}
        matches == /\ work.joinMethods = MethodsSignature(seen)
                   /\ s.cursor <= Entries(seen)
        resumes == s.resume /\ matches
        restart == s.resume /\ ~matches
        starts  == joins /\ ~s.resume
    IN
    /\ s.pc = "flows"
    /\ Write([InProgress(s) EXCEPT
                !.callGraph   = "none",
                !.inputOutput = "none",
                !.joinMethods = IF resumes THEN @ ELSE MethodsSignature(seen),
                !.joinDone    = IF restart \/ starts THEN 0 ELSE @,
                !.joinSig     = IF starts THEN s.sig ELSE @])
    /\ Goto(r, [s EXCEPT
                  !.pc     = IF joins THEN "engine" ELSE "final",
                  !.view   = seen,
                  !.joined = IF joins /\ resumes THEN @ ELSE {},
                  !.cursor = IF joins /\ resumes THEN @ ELSE 0])
    /\ UNCHANGED <<tree, edits, troubles>>

\* The engine answers, or reaches its deadline with some or all of the calls;
\* the call graph is checkpointed.  The flow rows are still those that
\* StageStart left.
CallGraphCheckpoint(r, calls, timedOut) ==
    /\ run[r].pc = "engine"
    /\ calls = "cut" => timedOut
    /\ timedOut => AllowTimeout /\ troubles < MaxTroubles
    /\ troubles' = IF timedOut THEN troubles + 1 ELSE troubles
    /\ Commit([work EXCEPT !.callGraph = IF timedOut THEN "partial" ELSE "complete"])
    /\ Goto(r, [run[r] EXCEPT !.pc = "join", !.calls = calls,
                              !.timedOut = timedOut])
    /\ UNCHANGED <<tree, edits>>

\* Rows and flags every later checkpoint of the stage commits.
Provisional(flows) == [work EXCEPT !.flows = flows, !.flowSig = NoSig,
                                   !.status = "partial"]

\* A batch of the join ends at entry k.
JoinCheckpoint(r, k) ==
    LET s      == run[r]
        joined == s.joined \cup JoinFlows(s.view, s.cursor, k, s.sig, s.calls)
    IN
    /\ s.pc = "join" /\ lock = r
    /\ s.cursor < k /\ k <= Entries(s.view)
    /\ Commit([Provisional(AstFlows(s.view) \cup joined) EXCEPT !.joinDone = k])
    /\ Goto(r, [s EXCEPT !.joined = joined, !.cursor = k])
    /\ UNCHANGED <<tree, edits, troubles>>

\* Does the run still have a project to report to the progress export?
Reporting(s) == s.html /\ ~s.timedOut /\ s.page < Projects

\* The progress export of one project keeps the flows whose calls belong to
\* the projects reported so far, all of them at the last one.
ProgressCheckpoint(r, kept) ==
    LET s == run[r] IN
    /\ s.pc = "join" /\ lock = r /\ s.cursor = Entries(s.view)
    /\ Reporting(s)
    /\ s.page + 1 = Projects => kept = s.joined
    /\ Commit(Provisional(AstFlows(s.view) \cup kept))
    /\ Goto(r, [s EXCEPT !.page = @ + 1])
    /\ UNCHANGED <<tree, edits, troubles>>

\* The join is over: the input-output flows are checkpointed.
InputOutputCheckpoint(r) ==
    LET s == run[r] IN
    /\ s.pc = "join" /\ lock = r /\ s.cursor = Entries(s.view)
    /\ ~Reporting(s)
    /\ Commit([work EXCEPT
                 !.flows = AstFlows(s.view) \cup s.joined,
                 !.flowSig = NoSig,
                 !.joinDone = Entries(s.view),
                 !.inputOutput = IF s.timedOut THEN "partial" ELSE "complete"])
    /\ Goto(r, [s EXCEPT !.pc = "final"])
    /\ UNCHANGED <<tree, edits, troubles>>

\* Final reconciliation: the snapshot is complete, or stays partial and not
\* resumable after a timeout; the run's transaction commits.
Finish(r) ==
    LET s == run[r] IN
    /\ s.pc = "final" /\ lock = r
    /\ Commit([work EXCEPT
                 !.flows    = AstFlows(s.view) \cup s.joined,
                 !.flowSig  = IF s.timedOut THEN NoSig ELSE s.sig,
                 !.status   = IF s.timedOut THEN "partial" ELSE "complete",
                 !.joinSig  = NoSig,
                 !.joinDone = 0])
    /\ Goto(r, IdleRun)
    /\ UNCHANGED <<tree, edits, troubles>>

-----------------------------------------------------------------------------
(* The environment                                                         *)

\* The process dies, or an error of the engine, of the file system or of the
\* progress export ends it.
Stop(r) ==
    /\ run[r].pc # "idle" /\ troubles < MaxTroubles
    /\ Abandon(r)
    /\ troubles' = troubles + 1
    /\ UNCHANGED <<tree, edits>>

\* A file is created, deleted, gets a new content or an earlier one back.
Edit(f, v) ==
    /\ edits < MaxEdits
    /\ EditsDuringRuns \/ AtRest
    /\ v # tree[f]
    /\ v \in {0, edits + 2} \cup (IF Reverts THEN 1..(edits + 1) ELSE {})
    /\ tree' = [tree EXCEPT ![f] = v]
    /\ edits' = edits + 1
    /\ UNCHANGED <<troubles, lock, db, work, run>>

\* The steps a live process takes by itself.
Advance(r) ==
    \/ Inventory(r) \/ Refuse(r) \/ Extract(r) \/ Skip(r) \/ StageStart(r)
    \/ \E calls \in {"full", "cut"}, timedOut \in BOOLEAN :
          CallGraphCheckpoint(r, calls, timedOut)
    \/ \E k \in Files : JoinCheckpoint(r, k)
    \/ \E kept \in SUBSET run[r].joined : ProgressCheckpoint(r, kept)
    \/ InputOutputCheckpoint(r) \/ Finish(r)
    \/ Reopen(r) \/ LockLost(r)

Next ==
    \/ \E r \in Runs :
          \/ \E sig \in Signatures, full, resume, html \in BOOLEAN :
                Begin(r, sig, full, resume, html)
          \/ Advance(r)
          \/ Stop(r)
    \/ \E f \in Files, v \in Versions : Edit(f, v)

Spec == Init /\ [][Next]_vars

\* A started process keeps running until it ends or is stopped, and whoever
\* uses the index runs a plain `systemlens index` again and again.
PlainIndex(r) == \E sig \in Signatures : Begin(r, sig, FALSE, FALSE, FALSE)

Fairness == \A r \in Runs : WF_vars(Advance(r)) /\ SF_vars(PlainIndex(r))

FairSpec == Spec /\ Fairness

-----------------------------------------------------------------------------
(* Properties                                                              *)

\* Every variable keeps its type.
TypeOK == /\ tree \in Trees
          /\ edits \in 0..MaxEdits
          /\ troubles \in 0..MaxTroubles
          /\ lock \in Runs \cup {NoRun}
          /\ db \in Index /\ work \in Index
          /\ run \in [Runs -> RunState]

\* A flow snapshot with a signature is a finished one: the signature, which
\* makes the next index skip the flow stage, is never committed together with
\* a partial status or a join checkpoint (service.py should_index_flows,
\* sqlite.py commit_checkpoint).
SignedSnapshotIsFinished ==
    db.flowSig # NoSig => /\ db.status = "complete"
                          /\ db.joinSig = NoSig /\ db.joinDone = 0

\* The incremental index reads a file again when its hash differs, so a hash
\* that matches the file must mean facts that match it, whatever crashed or
\* was interleaved before (incrementality.md: a normal run parses added or
\* changed files).
FactsAreCurrent ==
    \A f \in Files : db.hashes[f] = tree[f] => db.facts[f] = tree[f]

\* What a complete run without a checkpoint publishes for tree t.
Expected(t, sig) ==
    AstFlows(t) \cup IF sig = NoEngine THEN {}
                     ELSE {[kind |-> "full", entry |-> f, src |-> t, sig |-> sig] :
                              f \in Present(t)}

\* The next plain index skips the flow stage: the snapshot is signed and
\* its inventory is the tree.
Settled == db.flowSig # NoSig /\ db.hashes = tree

\* A settled snapshot has no flow that this tree and this engine
\* configuration do not give: nothing of an earlier tree, nothing of a cut
\* call set survives the checkpoints, crashes and resumes before it.
SettledHasNothingStale ==
    Settled => db.flows \subseteq Expected(tree, db.flowSig)

\* A settled snapshot misses no flow: a crash between two checkpoints, then a
\* resume that skips the joined entries, loses none.
SettledMissesNothing ==
    Settled => Expected(tree, db.flowSig) \subseteq db.flows

\* No committed flow, provisional ones included, goes through a file the
\* committed inventory does not have (_mark_flow_snapshot_in_progress: flows
\* that name a deleted file cannot survive a crash).
NoDeletedFileInFlows ==
    \A w \in db.flows : Present(w.src) \subseteq Present(db.hashes)

\* A join checkpoint of the current tree that says n entries are done comes
\* with the flows of the first n entries: the resume skips them.
CheckpointHoldsItsPrefix ==
    (db.status = "partial" /\ db.hashes = tree /\ db.joinSig # NoSig) =>
        \A f \in Present(tree) : Place(tree, f) <= db.joinDone =>
            \E w \in db.flows : /\ w.kind = "full" /\ w.entry = f
                                /\ w.src = tree /\ w.sig = db.joinSig

\* An engine timeout leaves no join checkpoint: once the timed-out process is
\* gone, no index holds both a resumable join that started and flows of a
\* call set the deadline cut (call_graph_stage.py, comment after the timeout).
NoCutFlowIsResumable ==
    (AtRest /\ db.joinSig # NoSig /\ db.joinDone > 0) =>
        \A w \in db.flows : w.kind # "cut"

\* A resumed run never takes the committed join back.
ResumeKeepsProgress ==
    [][(\E r \in Runs : lock = r /\ run[r].resume) =>
          db'.joinDone >= db.joinDone \/ db'.status = "complete"]_vars

\* A run whose inventory another writer has replaced at a checkpoint never
\* publishes its own flows as the complete snapshot of the new inventory.
StaleRunNeverPublishes ==
    [][\A r \in Runs :
          Finish(r) /\ db'.status = "complete" => run[r].hash = db'.hashes]_vars

\* Every checkpoint publishes an explicitly partial snapshot.
CheckpointsArePartial ==
    [][\A r \in Runs :
          run[r].pc \in {"engine", "join"} /\ run'[r].pc \in {"join", "final"}
             /\ db' # db
          => db'.status = "partial"]_vars

\* The rows some pass over tree t may compute.
Computable(t) ==
    AstFlows(t) \cup {[kind |-> k, entry |-> f, src |-> t, sig |-> c] :
                        k \in {"full", "cut"}, f \in Present(t),
                        c \in Signatures \ {NoEngine}}
WithinTree(w, t) == Present(w.src) \subseteq Present(t)

Published == INSTANCE PublishedSnapshot WITH
    Empty <- Absent, Complete <- Expected, Computed <- Computable,
    Within <- WithinTree, inventory <- db.hashes, flows <- db.flows,
    status <- db.status, sig <- db.flowSig

\* The committed index implements the promise made to its readers.
PublishesSnapshots == Published!Spec

\* Whatever was interrupted, plain indexing leads again and again to a
\* settled snapshot of the files as they are.
AlwaysSettlesAgain == []<>Settled

=============================================================================
