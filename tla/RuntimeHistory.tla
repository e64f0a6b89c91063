--------------------------- MODULE RuntimeHistory ---------------------------
(***************************************************************************)
(* Runtime observations: `systemlens observe` commands that collect one    *)
(* window of a source and store it, each source keeping its newest         *)
(* collections, and an `observe report --compare-previous` that reads the  *)
(* store meanwhile.                                                        *)
(*                                                                         *)
(* A collection is queried without the lock; its clock is read once, at    *)
(* the start, so collections may be stored in another order than theirs.   *)
(* The report opens no read transaction: each of its SELECT statements     *)
(* sees the last commit.                                                   *)
(*                                                                         *)
(* Data abstraction.  The rows of one collection are one row per table, a  *)
(* batch number standing for what the backend answered.  A collection is   *)
(* identified by its source, its window (its end is the time stamp) and    *)
(* its interval.                                                           *)
(***************************************************************************)
EXTENDS Integers, FiniteSets

CONSTANTS
    Sources,         \* backends: Elastic APM, Prometheus
    Grouping,        \* those that group errors
    Observers,       \* processes that run `systemlens observe`
    NoOne,           \* nobody holds the write lock
    Intervals,       \* aggregation intervals
    Keep,            \* RUNTIME_HISTORY_DEPTH
    MaxTime,         \* bound: last second of the clock
    MaxBatches,      \* bound: collections started
    Reports          \* is a report read?

ASSUME KeepAssumption == Keep \in Nat \ {0}
ASSUME SetsAssumption == /\ Grouping \subseteq Sources
                         /\ Intervals \subseteq Nat
                         /\ NoOne \notin Observers
ASSUME BoundsAssumption == MaxTime \in Nat /\ MaxBatches \in Nat
                           /\ Reports \in BOOLEAN

Times   == 0..MaxTime
Batches == 1..MaxBatches
Ids     == [source : Sources, stamp : Times, interval : Intervals]

\* Rows written before the history existed carry no collection.
Legacy == 0
NoId(s) == [source |-> s, stamp |-> -1, interval |-> 0]

Rows == [id : Ids \cup {NoId(s) : s \in Sources}, batch : Batches \cup {Legacy}]
Collections == [id : Ids, batch : Batches]

VARIABLES
    now,      \* the clock
    batches,  \* collections started so far
    lock,     \* the observer that holds SQLite's write lock
    db,       \* the committed tables
    work,     \* the tables as the open transaction sees them
    job,      \* the local state of each observer
    report    \* what the report has read, and its next statement

vars == <<now, batches, lock, db, work, job, report>>

Tables == [collections : SUBSET Collections,     \* runtime_collections
           observations : SUBSET Rows,           \* runtime_observations
           errors : SUBSET Rows]                 \* runtime_error_groups

IdleJob == [pc |-> "idle", id |-> NoId(NoOne), batch |-> Legacy]

Jobs == [pc : {"collected", "write", "prune"}, id : Ids, batch : Batches]
        \cup {IdleJob}

Statements == {"latest for observations", "observations",
               "latest for errors", "errors", "latest", "history",
               "previous rows", "done"}

ReportState == [pc : Statements,
                ids : SUBSET Ids,                \* newest, as read last
                observations : SUBSET Rows, errors : SUBSET Rows,
                collections : SUBSET Collections, history : SUBSET Collections,
                previous : SUBSET [source : Sources, rows : SUBSET Rows]]

LegacyRows(S) == {[id |-> NoId(s), batch |-> Legacy] : s \in S}

NoReport == [pc |-> IF Reports THEN "latest for observations" ELSE "done",
             ids |-> {}, observations |-> {}, errors |-> {},
             collections |-> {}, history |-> {}, previous |-> {}]

\* An index of an older version may hold legacy rows of some sources.
Init == /\ now = 0 /\ batches = 0 /\ lock = NoOne
        /\ \E old \in SUBSET Sources :
              db = [collections |-> {}, observations |-> LegacyRows(old),
                    errors |-> LegacyRows(old \cap Grouping)]
        /\ work = db
        /\ job = [o \in Observers |-> IdleJob]
        /\ report = NoReport

-----------------------------------------------------------------------------
(* One collection                                                          *)

Tick == /\ now < MaxTime /\ now' = now + 1
        /\ UNCHANGED <<batches, lock, db, work, job, report>>

\* The backend is queried for the window that ends now.
Collect(o, s, i) ==
    /\ job[o].pc = "idle" /\ batches < MaxBatches
    /\ batches' = batches + 1
    /\ job' = [job EXCEPT ![o] =
                 [pc |-> "collected", batch |-> batches + 1,
                  id |-> [source |-> s, stamp |-> now, interval |-> i]]]
    /\ UNCHANGED <<now, lock, db, work, report>>

\* store.transaction(): BEGIN IMMEDIATE.
Begin(o) ==
    /\ job[o].pc = "collected" /\ lock = NoOne
    /\ lock' = o /\ work' = db
    /\ job' = [job EXCEPT ![o].pc = "write"]
    /\ UNCHANGED <<now, batches, db, report>>

\* Mutant: rows without a collection stay.
ClearedOwn(rows, id) == {r \in rows : r.id # id}

\* The rows of that identifier leave, and the legacy rows of its source.
Cleared(rows, id) == {r \in rows : r.id # id /\ r.id # NoId(id.source)}

\* The record goes over the one of the same identifier; the rows replace its
\* rows in both tables.
Stored(t, id, batch) ==
    LET row == [id |-> id, batch |-> batch] IN
    [collections  |-> {c \in t.collections : c.id # id} \cup {row},
     observations |-> Cleared(t.observations, id) \cup {row},
     errors       |-> Cleared(t.errors, id) \cup
                         (IF id.source \in Grouping THEN {row} ELSE {})]

WriteRows(o) ==
    /\ job[o].pc = "write"
    /\ work' = Stored(work, job[o].id, job[o].batch)
    /\ job' = [job EXCEPT ![o].pc = "prune"]
    /\ UNCHANGED <<now, batches, lock, db, report>>

\* ORDER BY collected_at DESC, id DESC: is id a before id b?  Identifiers are
\* hashes; the order of two with one time stamp is that of their intervals.
Newer(a, b) == \/ a.stamp > b.stamp
               \/ a.stamp = b.stamp /\ a.interval > b.interval

\* Mutants: the newest are what the offset drops; the depth counts every
\* source; one more is kept; rows of one table stay.
StaleOldestFirst(w, s) ==
    {c \in w.collections : c.id.source = s /\
        Cardinality({d \in w.collections : d.id.source = s /\ Newer(c.id, d.id)})
            >= Keep}
StaleOfAll(w, s) ==
    {c \in w.collections : c.id.source = s /\
        Cardinality({d \in w.collections : Newer(d.id, c.id)}) >= Keep}
StaleAfterOneMore(w, s) ==
    {c \in w.collections : c.id.source = s /\
        Cardinality({d \in w.collections : d.id.source = s /\ Newer(d.id, c.id)})
            > Keep}
WithoutKeepingErrors(w, stale) ==
    [collections  |-> w.collections \ stale,
     observations |-> {r \in w.observations : \A c \in stale : r.id # c.id},
     errors       |-> w.errors]

\* The collections of source s after the newest Keep.
Stale(w, s) ==
    {c \in w.collections : c.id.source = s /\
        Cardinality({d \in w.collections : d.id.source = s /\ Newer(d.id, c.id)})
            >= Keep}

\* Their records and their rows leave.
Without(w, stale) ==
    [collections  |-> w.collections \ stale,
     observations |-> {r \in w.observations : \A c \in stale : r.id # c.id},
     errors       |-> {r \in w.errors : \A c \in stale : r.id # c.id}]

\* Prune the history of the source, and commit.
PruneAndCommit(o) ==
    LET w == Without(work, Stale(work, job[o].id.source)) IN
    /\ job[o].pc = "prune"
    /\ db' = w /\ work' = w /\ lock' = NoOne
    /\ job' = [job EXCEPT ![o] = IdleJob]
    /\ UNCHANGED <<now, batches, report>>

\* The backend fails, the lock stays busy for the whole timeout, or the
\* process dies: nothing of the collection is stored.
Fail(o) ==
    /\ job[o].pc # "idle"
    /\ job' = [job EXCEPT ![o] = IdleJob]
    /\ lock' = IF lock = o THEN NoOne ELSE lock
    /\ work' = IF lock = o THEN db ELSE work
    /\ UNCHANGED <<now, batches, db, report>>

-----------------------------------------------------------------------------
(* The report: its SELECT statements, each over the last commit            *)

\* latest_runtime_collections: the newest collection of each source.
Latest(t) == {c \in t.collections :
                 \A d \in t.collections :
                    d.id.source = c.id.source => ~Newer(d.id, c.id)}

\* Mutant: they are taken from the rows, which may have none.
LatestIdsOfRows(t) == {r.id : r \in t.observations}

LatestIds(t) == {c.id : c \in Latest(t)}

\* _runtime_rows: the rows of the newest collections, and the legacy rows of
\* a source that has none.
Current(rows, ids) ==
    {r \in rows : r.id \in ids \/
        (r.batch = Legacy /\ \A i \in ids : i.source # r.id.source)}

Select(pc, r) ==
    /\ report.pc = pc /\ report' = r
    /\ UNCHANGED <<now, batches, lock, db, work, job>>

LatestForObservations ==
    Select("latest for observations",
           [report EXCEPT !.pc = "observations", !.ids = LatestIds(db)])

ReadObservations ==
    Select("observations",
           [report EXCEPT !.pc = "latest for errors",
                          !.observations = Current(db.observations, report.ids)])

LatestForErrors ==
    Select("latest for errors",
           [report EXCEPT !.pc = "errors", !.ids = LatestIds(db)])

ReadErrors ==
    Select("errors", [report EXCEPT !.pc = "latest",
                                    !.errors = Current(db.errors, report.ids)])

ReadLatest ==
    Select("latest", [report EXCEPT !.pc = "history", !.collections = Latest(db)])

ReadHistory ==
    Select("history", [report EXCEPT !.pc = "previous rows",
                                     !.history = db.collections])

\* The collection a source's current one is compared with: the newest older
\* one of the same interval.
Previous(history, s) ==
    LET of      == {c \in history : c.id.source = s}
        current == {c \in of : \A d \in of : ~Newer(d.id, c.id)}
        older   == {c \in of \ current : \A d \in current :
                       c.id.interval = d.id.interval}
    IN  {c \in older : \A d \in older : ~Newer(d.id, c.id)}

\* The rows of the history, one statement per collection; those of the
\* collections compared with count.
ReadPrevious(s) ==
    /\ \A r \in report.previous : r.source # s
    /\ Select("previous rows",
         [report EXCEPT !.previous = @ \cup
            {[source |-> s,
              rows |-> {r \in db.observations :
                           \E c \in Previous(report.history, s) : r.id = c.id}]}])

Answer ==
    /\ \A s \in Sources : \E r \in report.previous : r.source = s
    /\ Select("previous rows", [report EXCEPT !.pc = "done"])

ReportStep ==
    \/ LatestForObservations \/ ReadObservations \/ LatestForErrors
    \/ ReadErrors \/ ReadLatest \/ ReadHistory
    \/ (\E s \in Sources : ReadPrevious(s)) \/ Answer

ObserveStep(o) ==
    \/ \E s \in Sources, i \in Intervals : Collect(o, s, i)
    \/ Begin(o) \/ WriteRows(o) \/ PruneAndCommit(o) \/ Fail(o)

Next == Tick \/ ReportStep \/ \E o \in Observers : ObserveStep(o)

Spec == Init /\ [][Next]_vars

-----------------------------------------------------------------------------
(* Properties                                                              *)

\* Every variable keeps its type.
TypeOK ==
    /\ now \in Times /\ batches \in 0..MaxBatches
    /\ lock \in Observers \cup {NoOne}
    /\ db \in Tables /\ work \in Tables
    /\ job \in [Observers -> Jobs]
    /\ report \in ReportState

\* At every commit the two row tables hold exactly the rows of the recorded
\* collections, each of the same answer as its record, and legacy rows only of
\* a source that has no collection yet (add_runtime_collection: "a report never
\* mixes a partial history").
Whole(t) ==
    /\ t.collections \subseteq t.observations
    /\ \A c \in t.collections : c.id.source \in Grouping <=> c \in t.errors
    /\ \A r \in t.observations \cup t.errors :
          \/ r \in t.collections
          \/ /\ r = [id |-> NoId(r.id.source), batch |-> Legacy]
             /\ \A c \in t.collections : c.id.source # r.id.source
    /\ \A c, d \in t.collections : c.id = d.id => c = d

HistoryIsWhole == Whole(db)

\* A source keeps RUNTIME_HISTORY_DEPTH collections.
StoredIds(t, s) == {c.id : c \in {c \in t.collections : c.id.source = s}}
DepthIsBounded == \A s \in Sources : Cardinality(StoredIds(db, s)) <= Keep

\* In whatever order collections are stored, one leaves the history, or is not
\* taken into it, only when Keep newer ones of its source are there: a late
\* old collection never pushes a newer one out (add_runtime_collection).
OnlyTheOldestLeave ==
    [][\A i \in {c.id : c \in db.collections}
               \cup {job[o].id : o \in {o \in Observers : job[o].pc = "prune"
                                                         /\ db' # db}} :
          i \in StoredIds(db', i.source) \/
          Cardinality({j \in StoredIds(db', i.source) : Newer(j, i)}) >= Keep]_vars

\* Is nothing of rows of a collection newer than those of later, of its source?
NotAfter(rows, later) == \A r \in rows, l \in later :
                            r.id.source = l.id.source => ~Newer(r.id, l.id)

\* The parts of a report, read one after the other between the commits of
\* observers, only go forward in time: no errors older than the observations,
\* no record older than its rows (_emit_runtime_report, _runtime_rows).
PartsOnlyAdvance ==
    /\ report.pc \in {"latest", "history", "previous rows", "done"} =>
          NotAfter(report.observations, report.errors)
    /\ report.pc \in {"history", "previous rows", "done"} =>
          NotAfter(report.observations \cup report.errors, report.collections)

\* docs/spec-fonc/cli.md: "against the previous collection of the same source":
\* the rows a report compares its observations with are of an older collection.
ComparesWithOlder ==
    report.pc = "done" =>
        \A p \in report.previous : \A r \in p.rows, n \in report.observations :
            (n.id.source = p.source /\ n.batch # Legacy) => Newer(n.id, r.id)

\* docs/spec-tech/indexing.md: "Concurrent readers see the latest committed
\* snapshot": the errors and the records are those of the observations.
ReportIsOfOneSnapshot ==
    report.pc = "done" =>
        \A r \in report.observations \cup report.errors :
            r.batch # Legacy => r.id \in {c.id : c \in report.collections}
=============================================================================
