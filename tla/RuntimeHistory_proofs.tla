----------------------- MODULE RuntimeHistory_proofs -----------------------
(***************************************************************************)
(* What RuntimeHistory promises whatever the sources, the observers, the   *)
(* depth of the history and the bounds: the row tables and the records     *)
(* always agree, a source keeps its newest collections and no more, and a  *)
(* report only goes forward in time.                                       *)
(***************************************************************************)
EXTENDS RuntimeHistory, FiniteSetTheorems, WellFoundedInduction, TLAPS

\* The tables a transaction builds are whole before and after its pruning, and
\* only the holder of the lock is inside one.
Transactions ==
    \A o \in Observers :
        /\ job[o].pc \in {"write", "prune"} <=> lock = o
        /\ job[o].pc = "write" => work = db
        /\ job[o].pc = "prune" => Whole(work)

IInv == TypeOK /\ Whole(db) /\ Transactions

\* Storing a collection keeps the tables' types.
LEMMA StoredTyped ==
    ASSUME NEW t \in Tables, NEW id \in Ids, NEW b \in Batches
    PROVE  Stored(t, id, b) \in Tables
BY SMTT(60) DEF Tables, Stored, Cleared, Rows, Collections

\* Storing a collection keeps the tables whole.
LEMMA StoredWhole ==
    ASSUME NEW t \in Tables, NEW id \in Ids, NEW b \in Batches, Whole(t)
    PROVE  Whole(Stored(t, id, b))
<1> DEFINE row == [id |-> id, batch |-> b]
           u   == Stored(t, id, b)
<1>1. /\ u.collections = {c \in t.collections : c.id # id} \cup {row}
      /\ u.observations = Cleared(t.observations, id) \cup {row}
      /\ u.errors = Cleared(t.errors, id) \cup
                       (IF id.source \in Grouping THEN {row} ELSE {})
  BY DEF Stored
<1>2. row.id = id /\ row.batch = b /\ row \in Collections
  BY DEF Collections
<1>3. t.collections \subseteq Collections /\ t.observations \subseteq Rows
      /\ t.errors \subseteq Rows
  BY DEF Tables
<1>4. \A c \in t.collections : c.id # NoId(id.source)
  BY <1>3 DEF Collections, Ids, NoId, Times
<1>5. u.collections \subseteq u.observations
  BY <1>1, <1>4 DEF Cleared, Whole
<1>6. \A c \in u.collections : c.id.source \in Grouping <=> c \in u.errors
  BY <1>1, <1>2, <1>4 DEF Cleared, Whole
<1>7. ASSUME NEW r \in u.observations \cup u.errors, r \notin u.collections
      PROVE  /\ r = [id |-> NoId(r.id.source), batch |-> Legacy]
             /\ \A c \in u.collections : c.id.source # r.id.source
  <2>1. r \in t.observations \cup t.errors /\ r.id # id /\ r.id # NoId(id.source)
    BY <1>1, <1>7 DEF Cleared
  <2>2. r \notin t.collections
    BY <1>1, <1>7, <2>1
  <2>3. /\ r = [id |-> NoId(r.id.source), batch |-> Legacy]
        /\ \A c \in t.collections : c.id.source # r.id.source
    BY <2>1, <2>2 DEF Whole
  <2>4. r.id = NoId(r.id.source)
    BY <2>3
  <2>5. r.id.source # id.source
    BY <2>1, <2>4
  <2> QED
    BY <1>1, <1>2, <2>3, <2>5
<1>8. \A c, d \in u.collections : c.id = d.id => c = d
  BY <1>1, <1>2 DEF Whole
<1> QED
  BY <1>5, <1>6, <1>7, <1>8 DEF Whole

\* Pruning keeps the tables' types, and keeps them whole.
LEMMA WithoutTyped ==
    ASSUME NEW t \in Tables, NEW stale
    PROVE  Without(t, stale) \in Tables
BY DEF Tables, Without

LEMMA WithoutWhole ==
    ASSUME NEW t \in Tables, NEW stale \in SUBSET t.collections, Whole(t)
    PROVE  Whole(Without(t, stale))
<1> DEFINE u == Without(t, stale)
<1>1. /\ u.collections = t.collections \ stale
      /\ u.observations = {r \in t.observations : \A c \in stale : r.id # c.id}
      /\ u.errors = {r \in t.errors : \A c \in stale : r.id # c.id}
  BY DEF Without
<1>2. \A c, d \in t.collections : c.id = d.id => c = d
  BY DEF Whole
<1>3. u.collections \subseteq u.observations
  BY <1>1, <1>2 DEF Whole
<1>4. \A c \in u.collections : c.id.source \in Grouping <=> c \in u.errors
  BY <1>1, <1>2 DEF Whole
<1>5. \A r \in u.observations \cup u.errors :
          \/ r \in u.collections
          \/ /\ r = [id |-> NoId(r.id.source), batch |-> Legacy]
             /\ \A c \in u.collections : c.id.source # r.id.source
  BY <1>1 DEF Whole
<1>6. \A c, d \in u.collections : c.id = d.id => c = d
  BY <1>1, <1>2
<1> QED
  BY <1>3, <1>4, <1>5, <1>6 DEF Whole

-----------------------------------------------------------------------------
(* The invariant                                                           *)

LEMMA InitIInv == Init => IInv
<1> SUFFICES ASSUME Init PROVE IInv
  OBVIOUS
<1>1. PICK old \in SUBSET Sources :
         db = [collections |-> {}, observations |-> LegacyRows(old),
               errors |-> LegacyRows(old \cap Grouping)]
  BY DEF Init
<1>2. LegacyRows(old) \subseteq Rows /\ LegacyRows(old \cap Grouping) \subseteq Rows
  BY DEF LegacyRows, Rows, NoId, Legacy
<1>3. db \in Tables /\ work \in Tables
  BY <1>1, <1>2 DEF Init, Tables
<1>4. \A r \in LegacyRows(old) : r = [id |-> NoId(r.id.source), batch |-> Legacy]
  BY DEF LegacyRows, NoId
<1>5. Whole(db)
  BY <1>1, <1>4 DEF Whole, LegacyRows
<1>6. NoReport \in ReportState
  BY BoundsAssumption DEF NoReport, ReportState, Statements
<1>7. job \in [Observers -> Jobs]
  BY DEF Init, Jobs
<1>8. now \in Times /\ batches \in 0..MaxBatches
  BY BoundsAssumption DEF Init, Times
<1>9. TypeOK
  BY <1>3, <1>6, <1>7, <1>8 DEF Init, TypeOK
<1>10. Transactions
  BY SetsAssumption DEF Init, Transactions, IdleJob
<1> QED
  BY <1>5, <1>9, <1>10 DEF IInv

\* The report never writes.
LEMMA ReportKeepsIInv ==
    ASSUME IInv, ReportStep PROVE IInv'
<1> USE DEF Select
<1>1. UNCHANGED <<now, batches, lock, db, work, job>>
  BY DEF ReportStep, LatestForObservations, ReadObservations, LatestForErrors,
         ReadErrors, ReadLatest, ReadHistory, ReadPrevious, Answer
<1>2. Latest(db) \subseteq Collections /\ db.collections \subseteq Collections
  BY DEF IInv, TypeOK, Tables, Latest
<1>3. LatestIds(db) \subseteq Ids
  BY <1>2 DEF LatestIds, Collections
<1>4. /\ \A ids : Current(db.observations, ids) \subseteq Rows
      /\ \A ids : Current(db.errors, ids) \subseteq Rows
  BY DEF IInv, TypeOK, Tables, Current
<1>5. \A s \in Sources :
         [source |-> s,
          rows |-> {r \in db.observations :
                       \E c \in Previous(report.history, s) : r.id = c.id}]
            \in [source : Sources, rows : SUBSET Rows]
  BY DEF IInv, TypeOK, Tables
<1>6. report' \in ReportState
  <2>0. report \in ReportState
    BY DEF IInv, TypeOK
  <2> USE DEF ReportState, Statements
  <2>1. CASE LatestForObservations
    BY <2>0, <1>3, <2>1 DEF LatestForObservations
  <2>2. CASE ReadObservations
    BY <2>0, <1>4, <2>2 DEF ReadObservations
  <2>3. CASE LatestForErrors
    BY <2>0, <1>3, <2>3 DEF LatestForErrors
  <2>4. CASE ReadErrors
    BY <2>0, <1>4, <2>4 DEF ReadErrors
  <2>5. CASE ReadLatest
    BY <2>0, <1>2, <2>5 DEF ReadLatest
  <2>6. CASE ReadHistory
    BY <2>0, <1>2, <2>6 DEF ReadHistory
  <2>7. ASSUME NEW s \in Sources, ReadPrevious(s) PROVE report' \in ReportState
    BY <2>0, <1>5, <2>7 DEF ReadPrevious
  <2>8. CASE Answer
    BY <2>0, <2>8 DEF Answer
  <2> QED
    BY <2>1, <2>2, <2>3, <2>4, <2>5, <2>6, <2>7, <2>8 DEF ReportStep
<1>7. TypeOK'
  BY <1>1, <1>6 DEF IInv, TypeOK
<1> QED
  BY <1>1, <1>7 DEF IInv, Transactions

LEMMA ObserveKeepsIInv ==
    ASSUME IInv, NEW o \in Observers, ObserveStep(o) PROVE IInv'
<1> USE SetsAssumption
<1>0. /\ TypeOK /\ Whole(db) /\ Transactions
      /\ job \in [Observers -> Jobs] /\ db \in Tables /\ work \in Tables
  BY DEF IInv, TypeOK
<1>1. ASSUME NEW s \in Sources, NEW i \in Intervals, Collect(o, s, i) PROVE IInv'
  <2>1. job'[o] \in Jobs
    BY <1>0, <1>1, BoundsAssumption DEF Collect, Jobs, Ids, Batches, TypeOK
  <2>2. TypeOK'
    BY <1>0, <1>1, <2>1, BoundsAssumption DEF Collect, TypeOK
  <2> QED
    BY <1>0, <1>1, <2>2 DEF IInv, Collect, Transactions
<1>2. CASE Begin(o)
  <2>1. job[o].pc = "collected" /\ job[o] \in Jobs
    BY <1>0, <1>2 DEF Begin
  <2>2. [job[o] EXCEPT !.pc = "write"] \in Jobs
    BY <2>1 DEF Jobs, IdleJob
  <2>3. TypeOK'
    BY <1>0, <1>2, <2>2 DEF Begin, TypeOK
  <2> QED
    BY <1>0, <1>2, <2>3 DEF IInv, Begin, Transactions
<1>3. CASE WriteRows(o)
  <2>1. /\ job[o].pc = "write" /\ job[o] \in Jobs
        /\ job[o].id \in Ids /\ job[o].batch \in Batches
    BY <1>0, <1>3 DEF WriteRows, Jobs, IdleJob
  <2>2. [job[o] EXCEPT !.pc = "prune"] \in Jobs
    BY <2>1 DEF Jobs, IdleJob
  <2>3. work' \in Tables
    BY <1>0, <1>3, <2>1, StoredTyped DEF WriteRows
  <2>4. TypeOK'
    BY <1>0, <1>3, <2>2, <2>3 DEF WriteRows, TypeOK
  <2>5. Whole(work')
    BY <1>0, <1>3, <2>1, StoredWhole DEF WriteRows, Transactions
  <2>6. Whole(work)'
    BY <2>5 DEF Whole
  <2>7. Whole(db)'
    BY <1>0, <1>3 DEF WriteRows, Whole
  <2>8. Transactions'
    BY <1>0, <1>3, <2>6 DEF WriteRows, Transactions
  <2> QED
    BY <2>4, <2>7, <2>8 DEF IInv
<1>4. CASE PruneAndCommit(o)
  <2> DEFINE stale == Stale(work, job[o].id.source)
  <2>1. Whole(work) /\ lock = o
    BY <1>0, <1>4 DEF PruneAndCommit, Transactions
  <2>2. stale \in SUBSET work.collections
    BY DEF Stale
  <2>3. db' = Without(work, stale) /\ work' = db'
    BY <1>4 DEF PruneAndCommit
  <2>4. db' \in Tables /\ Whole(db')
    BY <1>0, <2>1, <2>2, <2>3, WithoutTyped, WithoutWhole
  <2>5. Whole(db)'
    BY <2>4 DEF Whole
  <2>6. TypeOK'
    BY <1>0, <1>4, <2>3, <2>4 DEF PruneAndCommit, TypeOK, Jobs
  <2>7. Transactions'
    BY <1>0, <1>4, <2>1 DEF PruneAndCommit, Transactions, IdleJob
  <2> QED
    BY <2>5, <2>6, <2>7 DEF IInv
<1>5. CASE Fail(o)
  <2>1. TypeOK'
    BY <1>0, <1>5 DEF Fail, TypeOK, Jobs
  <2>2. Transactions'
    BY <1>0, <1>5 DEF Fail, Transactions, IdleJob
  <2> QED
    BY <1>0, <1>5, <2>1, <2>2 DEF IInv, Fail
<1> QED
  BY <1>1, <1>2, <1>3, <1>4, <1>5 DEF ObserveStep

LEMMA NextIInv == IInv /\ [Next]_vars => IInv'
<1> SUFFICES ASSUME IInv, [Next]_vars PROVE IInv'
  OBVIOUS
<1>1. CASE Tick
  BY <1>1, BoundsAssumption DEF IInv, TypeOK, Transactions, Tick, Times
<1>2. CASE ReportStep
  BY <1>2, ReportKeepsIInv
<1>3. ASSUME NEW o \in Observers, ObserveStep(o) PROVE IInv'
  BY <1>3, ObserveKeepsIInv
<1>4. CASE UNCHANGED vars
  BY <1>4 DEF vars, IInv, TypeOK, Transactions
<1> QED
  BY <1>1, <1>2, <1>3, <1>4 DEF Next

\* IInv holds in every reachable state.
THEOREM Inductive == Spec => []IInv
<1>1. Init => IInv
  BY InitIInv
<1>2. IInv /\ [Next]_vars => IInv'
  BY NextIInv
<1> QED
  BY <1>1, <1>2, PTL DEF Spec

\* Type correctness of the observe commands, the tables and the report.
THEOREM TypeCorrect == Spec => []TypeOK
<1>1. IInv => TypeOK
  BY DEF IInv
<1> QED
  BY <1>1, Inductive, PTL

\* Whatever the order of the commands, their failures and the pruning, the two
\* row tables hold exactly the rows of the recorded collections at every commit
\* (add_runtime_collection).
THEOREM WholeHistory == Spec => []HistoryIsWhole
<1>1. IInv => HistoryIsWhole
  BY DEF IInv, HistoryIsWhole
<1> QED
  BY <1>1, Inductive, PTL
-----------------------------------------------------------------------------
(* The order of the collections of one source                              *)

\* Newer is a strict order, total on the identifiers of a source.
LEMMA NewerIsAnOrder ==
    ASSUME NEW a \in Ids, NEW b \in Ids, NEW c \in Ids
    PROVE  /\ ~Newer(a, a)
           /\ Newer(a, b) => ~Newer(b, a)
           /\ Newer(a, b) /\ Newer(b, c) => Newer(a, c)
           /\ a.source = b.source /\ a # b => Newer(a, b) \/ Newer(b, a)
<1>1. /\ a.stamp \in Int /\ b.stamp \in Int /\ c.stamp \in Int
      /\ a.interval \in Int /\ b.interval \in Int /\ c.interval \in Int
  <2>1. /\ a.stamp \in Times /\ b.stamp \in Times /\ c.stamp \in Times
        /\ a.interval \in Intervals /\ b.interval \in Intervals
        /\ c.interval \in Intervals
    BY DEF Ids
  <2>2. \A x \in Times : x \in Int
    BY BoundsAssumption DEF Times
  <2>3. \A x \in Intervals : x \in Int
    <3>1. Intervals \subseteq Nat
      BY SetsAssumption
    <3> QED
      BY <3>1
  <2> QED
    BY <2>1, <2>2, <2>3, Zenon
<1>2. a.source = b.source /\ a.stamp = b.stamp /\ a.interval = b.interval => a = b
  BY DEF Ids
<1> QED
  BY <1>1, <1>2 DEF Newer

\* What is not older than what is not older is not older.
LEMMA NotOlderIsTransitive ==
    ASSUME NEW a \in Ids, NEW b \in Ids, NEW c \in Ids,
           a.source = b.source, b.source = c.source, ~Newer(a, b), ~Newer(b, c)
    PROVE  ~Newer(a, c)
BY NewerIsAnOrder

\* The collections of c's source that are newer than c, and how many.
Ahead(C, c) == {d \in C : d.id.source = c.id.source /\ Newer(d.id, c.id)}
Rank(C, c)  == Cardinality(Ahead(C, c))

LEMMA RankIsNatural ==
    ASSUME NEW C, IsFiniteSet(C), NEW c
    PROVE  IsFiniteSet(Ahead(C, c)) /\ Rank(C, c) \in Nat
<1>1. Ahead(C, c) \in SUBSET C
  BY DEF Ahead
<1> QED
  BY <1>1, FS_Subset, FS_CardinalityType DEF Rank

\* A newer collection has fewer ahead of it.
LEMMA NewerHasLessAhead ==
    ASSUME NEW C \in SUBSET Collections, IsFiniteSet(C), NEW c \in C, NEW d \in C,
           d.id.source = c.id.source, Newer(d.id, c.id)
    PROVE  Rank(C, d) < Rank(C, c)
<1>0. \A e \in C : e.id \in Ids
  BY DEF Collections
<1>1. Ahead(C, d) \cup {d} \in SUBSET Ahead(C, c)
  BY <1>0, NewerIsAnOrder DEF Ahead
<1>2. d \notin Ahead(C, d)
  BY <1>0, NewerIsAnOrder DEF Ahead
<1>3. /\ IsFiniteSet(Ahead(C, d)) /\ Rank(C, d) \in Nat
      /\ IsFiniteSet(Ahead(C, c)) /\ Rank(C, c) \in Nat
  BY RankIsNatural
<1>4. Cardinality(Ahead(C, d) \cup {d}) = Rank(C, d) + 1
  BY <1>2, <1>3, FS_AddElement DEF Rank
<1>5. Cardinality(Ahead(C, d) \cup {d}) <= Rank(C, c)
  BY <1>1, <1>3, FS_Subset DEF Rank
<1> QED
  BY <1>3, <1>4, <1>5

\* A measure into the naturals is least somewhere.
LEMMA LeastMeasure ==
    ASSUME NEW S, S # {}, NEW f \in [S -> Nat]
    PROVE  \E c \in S : \A d \in S : f[c] <= f[d]
<1> DEFINE less == {ss \in Nat \X Nat : ss[1] < ss[2]}
           values == {f[c] : c \in S}
<1>1. values \subseteq Nat /\ values # {}
  OBVIOUS
<1>2. IsWellFoundedOn(less, Nat)
  BY NatLessThanWellFounded DEF OpToRel
<1>3. PICK x \in values : \A y \in values : ~(<<y, x>> \in less)
  BY <1>1, <1>2, WFMin
<1>4. \A y \in values : x <= y
  <2>1. ASSUME NEW y \in values, y < x PROVE FALSE
    <3>1. <<y, x>> \in less
      BY <1>1, <2>1
    <3> QED
      BY <1>3, <3>1
  <2> QED
    BY <1>1, <2>1
<1> QED
  BY <1>4

\* A source that has collections has a newest one.
LEMMA NewestExists ==
    ASSUME NEW t \in Tables, IsFiniteSet(t.collections), NEW e \in t.collections
    PROVE  \E c \in Latest(t) : c.id.source = e.id.source
<1> DEFINE C == t.collections
           S == {c \in C : c.id.source = e.id.source}
           f == [c \in S |-> Rank(C, c)]
<1>1. C \in SUBSET Collections /\ e \in S
  BY DEF Tables
<1>2. f \in [S -> Nat]
  BY RankIsNatural
<1>3. PICK c \in S : \A d \in S : Rank(C, c) <= Rank(C, d)
  <2> HIDE DEF S
  <2>1. PICK c \in S : \A d \in S : f[c] <= f[d]
    BY <1>1, <1>2, LeastMeasure
  <2>2. \A d \in S : f[d] = Rank(C, d)
    OBVIOUS
  <2> QED
    BY <2>1, <2>2
<1>4. ASSUME NEW d \in C, d.id.source = c.id.source, Newer(d.id, c.id) PROVE FALSE
  <2>1. d \in S /\ Rank(C, d) < Rank(C, c)
    BY <1>1, <1>4, NewerHasLessAhead
  <2>2. Rank(C, d) \in Nat /\ Rank(C, c) \in Nat
    BY RankIsNatural
  <2> QED
    BY <1>3, <2>1, <2>2
<1> QED
  BY <1>3, <1>4 DEF Latest

-----------------------------------------------------------------------------
(* Pruning                                                                 *)

\* Stale, by rank.
LEMMA StaleByRank ==
    ASSUME NEW t, NEW s
    PROVE  Stale(t, s) = {c \in t.collections : c.id.source = s
                                                  /\ Rank(t.collections, c) >= Keep}
<1>1. ASSUME NEW c \in t.collections, c.id.source = s
      PROVE  {d \in t.collections : d.id.source = s /\ Newer(d.id, c.id)}
               = Ahead(t.collections, c)
  BY <1>1 DEF Ahead
<1> QED
  BY <1>1 DEF Stale, Rank

\* The identifiers of collections with identifiers of their own are as many.
LEMMA AsManyIds ==
    ASSUME NEW S, IsFiniteSet(S), \A c, d \in S : c.id = d.id => c = d
    PROVE  /\ IsFiniteSet({c.id : c \in S})
           /\ Cardinality({c.id : c \in S}) = Cardinality(S)
<1> DEFINE T == {c.id : c \in S}
           f == [c \in S |-> c.id]
<1>1. f \in Bijection(S, T)
  <2>1. f \in [S -> T] /\ \A c \in S : f[c] = c.id
    OBVIOUS
  <2>2. \A c, d \in S : f[c] = f[d] => c = d
    BY <2>1
  <2>3. \A x \in T : \E c \in S : f[c] = x
    BY <2>1
  <2> HIDE DEF f, T
  <2>4. f \in Injection(S, T)
    BY <2>1, <2>2 DEF Injection, IsInjective
  <2>5. f \in Surjection(S, T)
    BY <2>1, <2>3 DEF Surjection
  <2> QED
    BY <2>4, <2>5 DEF Bijection
<1> QED
  BY <1>1, FS_Bijection DEF ExistsBijection

\* What is kept of a source is no more than its depth.
LEMMA KeptAreFew ==
    ASSUME NEW t \in Tables, IsFiniteSet(t.collections), NEW s,
           NEW kept \in SUBSET t.collections,
           \A c \in kept : c.id.source = s /\ Rank(t.collections, c) < Keep,
           \A c, d \in t.collections : c.id = d.id => c = d
    PROVE  IsFiniteSet(kept) /\ Cardinality(kept) <= Keep
<1> DEFINE C == t.collections
<1>1. C \in SUBSET Collections /\ \A c \in C : c.id \in Ids
  BY DEF Tables, Collections
<1>2. IsFiniteSet(kept)
  BY <1>1, FS_Subset
<1>3. CASE kept = {}
  BY <1>2, <1>3, FS_EmptySet, KeepAssumption
<1>4. CASE kept # {}
  <2> DEFINE f == [c \in kept |-> Keep - 1 - Rank(C, c)]
  <2>1. \A c \in C : Rank(C, c) \in Nat
    BY RankIsNatural
  <2>2. f \in [kept -> Nat]
    BY <2>1, KeepAssumption
  <2>3. PICK c \in kept : \A d \in kept :
                 Keep - 1 - Rank(C, c) <= Keep - 1 - Rank(C, d)
    <3>1. PICK c \in kept : \A d \in kept : f[c] <= f[d]
      BY <1>4, <2>2, LeastMeasure
    <3>2. \A d \in kept : f[d] = Keep - 1 - Rank(C, d)
      OBVIOUS
    <3> QED
      BY <3>1, <3>2
  <2>4. ASSUME NEW d \in kept, d # c PROVE d \in Ahead(C, c)
    <3>1. d.id # c.id /\ d.id.source = c.id.source /\ d.id \in Ids /\ c.id \in Ids
      BY <1>1, <2>4
    <3>2. ASSUME Newer(c.id, d.id) PROVE FALSE
      <4>1. Rank(C, c) < Rank(C, d)
        BY <1>1, <3>1, <3>2, NewerHasLessAhead
      <4>2. Keep - 1 - Rank(C, c) <= Keep - 1 - Rank(C, d)
        BY <2>3, <2>4
      <4>3. Rank(C, c) \in Nat /\ Rank(C, d) \in Nat /\ Keep \in Nat
        BY <1>1, <2>1, <2>4, KeepAssumption
      <4> QED
        BY <4>1, <4>2, <4>3
    <3>3. Newer(d.id, c.id)
      BY <3>1, <3>2, NewerIsAnOrder
    <3> QED
      BY <1>1, <3>1, <3>3 DEF Ahead
  <2>5. kept \in SUBSET (Ahead(C, c) \cup {c})
    BY <2>4
  <2>6. IsFiniteSet(Ahead(C, c)) /\ Rank(C, c) \in Nat /\ Rank(C, c) < Keep
    BY RankIsNatural
  <2>7. /\ IsFiniteSet(Ahead(C, c) \cup {c})
        /\ Cardinality(Ahead(C, c) \cup {c}) \in {Rank(C, c), Rank(C, c) + 1}
    BY <2>6, FS_AddElement DEF Rank
  <2>8. Cardinality(kept) <= Cardinality(Ahead(C, c) \cup {c}) /\ Cardinality(kept) \in Nat
    BY <1>2, <2>5, <2>7, FS_Subset, FS_CardinalityType
  <2> QED
    BY <1>2, <2>6, <2>7, <2>8, KeepAssumption
<1> QED
  BY <1>3, <1>4

\* What leaves a source has a full depth of newer ones that stay.
LEMMA StaleIsBehindKept ==
    ASSUME NEW t \in Tables, IsFiniteSet(t.collections), NEW s, NEW c \in Stale(t, s),
           \A d, e \in t.collections : d.id = e.id => d = e
    PROVE  Cardinality({j \in StoredIds(Without(t, Stale(t, s)), s) : Newer(j, c.id)})
             >= Keep
<1> DEFINE C == t.collections
           S == Stale(t, s)
           f == [d \in S |-> Rank(C, d)]
           J == {j \in StoredIds(Without(t, S), s) : Newer(j, c.id)}
<1>1. C \in SUBSET Collections /\ \A d \in C : d.id \in Ids /\ Rank(C, d) \in Nat
  BY RankIsNatural DEF Tables, Collections
<1>2. S = {d \in C : d.id.source = s /\ Rank(C, d) >= Keep}
  BY StaleByRank
<1>3. PICK first \in S : \A d \in S : f[first] <= f[d]
  <2>1. f \in [S -> Nat]
    BY <1>1, <1>2
  <2> QED
    BY <2>1, LeastMeasure
<1>4. first \in C /\ c \in C /\ first.id.source = s /\ c.id.source = s
      /\ Rank(C, first) >= Keep /\ Rank(C, first) <= Rank(C, c)
  BY <1>2, <1>3
<1>5. first = c \/ Newer(first.id, c.id)
  <2>1. ASSUME Newer(c.id, first.id) PROVE FALSE
    <3>1. Rank(C, c) < Rank(C, first)
      BY <1>1, <1>4, <2>1, NewerHasLessAhead
    <3> QED
      BY <1>1, <1>4, <3>1
  <2> QED
    BY <1>1, <1>4, <2>1, NewerIsAnOrder
<1>6. ASSUME NEW d \in Ahead(C, first) PROVE d.id \in J
  <2>1. d \in C /\ d.id.source = s /\ Newer(d.id, first.id)
    BY <1>4, <1>6 DEF Ahead
  <2>2. Rank(C, d) < Rank(C, first)
    BY <1>1, <1>4, <2>1, NewerHasLessAhead
  <2>3. d \notin S
    BY <1>1, <1>3, <1>4, <2>1, <2>2
  <2>4. Newer(d.id, c.id)
    BY <1>1, <1>4, <1>5, <2>1, NewerIsAnOrder
  <2> QED
    BY <2>1, <2>3, <2>4 DEF StoredIds, Without
<1> DEFINE A == {d.id : d \in Ahead(C, first)}
<1>7. IsFiniteSet(Ahead(C, first)) /\ IsFiniteSet(A) /\ Cardinality(A) = Rank(C, first)
  <2>1. IsFiniteSet(Ahead(C, first)) /\ Ahead(C, first) \subseteq C
    BY RankIsNatural DEF Ahead
  <2> QED
    BY <2>1, AsManyIds DEF Rank
<1>8. A \in SUBSET J
  BY <1>6
<1>9. IsFiniteSet(J)
  <2> DEFINE I == {d.id : d \in C}
  <2>1. IsFiniteSet(I)
    BY AsManyIds
  <2>2. J \in SUBSET I
    BY DEF StoredIds, Without
  <2> QED
    BY <2>1, <2>2, FS_Subset
<1>10. Cardinality(A) <= Cardinality(J) /\ Cardinality(J) \in Nat
  BY <1>8, <1>9, FS_Subset, FS_CardinalityType
<1> QED
  BY <1>1, <1>4, <1>7, <1>10, KeepAssumption

-----------------------------------------------------------------------------
(* The depth of the history                                                *)

\* What a transaction has written is the commit it began with and its own
\* collection; the history is finite and no deeper than Keep.
DepthInv ==
    /\ IInv
    /\ IsFiniteSet(db.collections)
    /\ \A o \in Observers :
          job[o].pc = "prune" => work = Stored(db, job[o].id, job[o].batch)
    /\ DepthIsBounded

\* Storing adds one identifier and takes none away.
LEMMA StoredIdsGrow ==
    ASSUME NEW t \in Tables, IsFiniteSet(t.collections), NEW id \in Ids, NEW b
    PROVE  /\ IsFiniteSet(Stored(t, id, b).collections)
           /\ {c.id : c \in Stored(t, id, b).collections}
                = {c.id : c \in t.collections} \cup {id}
<1> DEFINE row == [id |-> id, batch |-> b]
           old == {c \in t.collections : c.id # id}
<1>1. Stored(t, id, b).collections = old \cup {row} /\ row.id = id
  BY DEF Stored
<1>2. IsFiniteSet(old)
  BY FS_Subset
<1>3. IsFiniteSet(old \cup {row})
  BY <1>2, FS_AddElement
<1> QED
  BY <1>1, <1>3

\* What a commit does to the history: it stays within its depth, and what
\* leaves or is not taken in has a full depth of newer ones that stay.
LEMMA CommitKeepsTheNewest ==
    ASSUME DepthInv, NEW o \in Observers, PruneAndCommit(o)
    PROVE  /\ IsFiniteSet(db.collections)' /\ DepthIsBounded'
           /\ {c.id : c \in db.collections} \cup {job[o].id}
                \subseteq {c.id : c \in work.collections}
           /\ \A i \in {c.id : c \in work.collections} :
                 \/ i \in StoredIds(db', i.source)
                 \/ Cardinality({j \in StoredIds(db', i.source) : Newer(j, i)})
                      >= Keep
<1> DEFINE s == job[o].id.source
           C == work.collections
           stale == Stale(work, s)
<1>0. job[o].pc = "prune" /\ db' = Without(work, stale) /\ db'.collections = C \ stale
  BY DEF PruneAndCommit, Without
<1>1. /\ work \in Tables /\ db \in Tables /\ job[o].id \in Ids
      /\ work = Stored(db, job[o].id, job[o].batch) /\ Whole(work)
      /\ IsFiniteSet(db.collections) /\ DepthIsBounded
  BY <1>0 DEF DepthInv, IInv, TypeOK, Transactions, Jobs, IdleJob
<1>2. IsFiniteSet(C) /\ {c.id : c \in C} = {c.id : c \in db.collections} \cup {job[o].id}
  BY <1>1, StoredIdsGrow
<1>3. /\ \A c \in C : c.id \in Ids /\ Rank(C, c) \in Nat
      /\ \A c, d \in C : c.id = d.id => c = d
  BY <1>1, <1>2, RankIsNatural DEF Tables, Collections, Whole
<1>4. IsFiniteSet(db'.collections)
  <2>1. C \ stale \in SUBSET C
    OBVIOUS
  <2> QED
    BY <1>0, <1>2, <2>1, FS_Subset
<1>5. stale = {c \in C : c.id.source = s /\ Rank(C, c) >= Keep}
  BY StaleByRank
<1>6. ASSUME NEW q \in Sources PROVE Cardinality(StoredIds(db', q)) <= Keep
  <2>1. CASE q = s
    <3> DEFINE kept == {c \in db'.collections : c.id.source = s}
    <3>1. kept \in SUBSET C /\ \A c \in kept : c.id.source = s /\ Rank(C, c) < Keep
      BY <1>0, <1>3, <1>5, KeepAssumption
    <3>2. IsFiniteSet(kept) /\ Cardinality(kept) <= Keep
      <4> HIDE DEF kept, s
      <4> QED
        BY <1>1, <1>2, <1>3, <3>1, KeptAreFew
    <3>3. \A c, d \in kept : c.id = d.id => c = d
      BY <1>3, <3>1
    <3>4. Cardinality({c.id : c \in kept}) = Cardinality(kept)
      BY <3>2, <3>3, AsManyIds
    <3> QED
      BY <2>1, <3>2, <3>4 DEF StoredIds
  <2>2. CASE q # s
    <3>1. StoredIds(db', q) = {i \in {c.id : c \in C} : i.source = q}
      BY <1>0, <2>2 DEF StoredIds, Stale
    <3>2. StoredIds(db, q) = {i \in {c.id : c \in db.collections} : i.source = q}
      BY DEF StoredIds
    <3>3. StoredIds(db', q) = StoredIds(db, q)
      BY <1>2, <2>2, <3>1, <3>2
    <3> QED
      BY <1>1, <3>3 DEF DepthIsBounded
  <2> QED
    BY <2>1, <2>2
<1>7. ASSUME NEW c \in C
      PROVE  \/ c.id \in StoredIds(db', c.id.source)
             \/ Cardinality({j \in StoredIds(db', c.id.source) : Newer(j, c.id)})
                  >= Keep
  <2>1. CASE c \in stale
    <3>1. c.id.source = s
      BY <2>1 DEF Stale
    <3> QED
      BY <1>0, <1>1, <1>2, <1>3, <2>1, <3>1, StaleIsBehindKept
  <2>2. CASE c \notin stale
    BY <1>0, <2>2 DEF StoredIds
  <2> QED
    BY <2>1, <2>2
<1>8. DepthIsBounded'
  BY <1>6 DEF DepthIsBounded, StoredIds
<1> QED
  BY <1>2, <1>4, <1>7, <1>8

LEMMA InitDepth == Init => DepthInv
<1> SUFFICES ASSUME Init PROVE DepthInv
  OBVIOUS
<1>1. IInv /\ db.collections = {} /\ \A o \in Observers : job[o].pc = "idle"
  <2>1. db.collections = {}
    BY DEF Init
  <2>2. \A o \in Observers : job[o].pc = "idle"
    BY DEF Init, IdleJob
  <2> QED
    BY <2>1, <2>2, InitIInv
<1>2. \A s \in Sources : StoredIds(db, s) = {}
  BY <1>1 DEF StoredIds
<1>3. DepthIsBounded
  BY <1>2, FS_EmptySet, KeepAssumption DEF DepthIsBounded
<1> QED
  BY <1>1, <1>3, FS_EmptySet DEF DepthInv

\* Only a commit changes the history.
LEMMA OnlyCommitsWrite ==
    ASSUME [Next]_vars
    PROVE  \/ db' = db
           \/ \E o \in Observers : PruneAndCommit(o)
BY DEF Next, ReportStep, LatestForObservations, ReadObservations, LatestForErrors,
       ReadErrors, ReadLatest, ReadHistory, ReadPrevious, Answer, Select, ObserveStep,
       Tick, Collect, Begin, WriteRows, Fail, vars

LEMMA NextDepth == DepthInv /\ [Next]_vars => DepthInv'
<1> SUFFICES ASSUME DepthInv, [Next]_vars PROVE DepthInv'
  OBVIOUS
<1>0. /\ IInv /\ IInv' /\ Transactions /\ job \in [Observers -> Jobs]
      /\ IsFiniteSet(db.collections) /\ DepthIsBounded
      /\ \A o \in Observers :
            job[o].pc = "prune" => work = Stored(db, job[o].id, job[o].batch)
  BY NextIInv DEF DepthInv, IInv, TypeOK
<1>1. ASSUME NEW o \in Observers, PruneAndCommit(o) PROVE DepthInv'
  <2>1. IsFiniteSet(db.collections)' /\ DepthIsBounded'
    BY <1>1, CommitKeepsTheNewest
  <2>2. \A q \in Observers : job'[q].pc # "prune"
    BY <1>0, <1>1 DEF PruneAndCommit, Transactions, IdleJob
  <2> QED
    BY <1>0, <2>1, <2>2 DEF DepthInv
<1>2. ASSUME db' = db,
             \A q \in Observers :
                job'[q].pc = "prune" => work' = Stored(db, job'[q].id, job'[q].batch)
      PROVE  DepthInv'
  BY <1>0, <1>2 DEF DepthInv, DepthIsBounded
<1>3. ASSUME NEW o \in Observers, Begin(o) \/ WriteRows(o) \/ Fail(o) PROVE DepthInv'
  <2>1. CASE Begin(o)
    <3>1. db' = db /\ \A q \in Observers : job'[q].pc # "prune"
      BY <1>0, <2>1, SetsAssumption DEF Begin, Transactions
    <3> QED
      BY <1>2, <3>1
  <2>2. CASE WriteRows(o)
    <3>1. /\ db' = db /\ work' = Stored(db, job[o].id, job[o].batch)
          /\ job'[o].id = job[o].id /\ job'[o].batch = job[o].batch
      BY <1>0, <2>2 DEF WriteRows, Transactions, Jobs, IdleJob
    <3>2. \A q \in Observers : job'[q].pc = "prune" => q = o
      BY <1>0, <2>2 DEF WriteRows, Transactions
    <3> QED
      BY <1>2, <3>1, <3>2
  <2>3. CASE Fail(o)
    <3>1. \A q \in Observers : job'[q].pc = "prune" =>
             q # o /\ job'[q] = job[q] /\ lock # o /\ work' = work
      BY <1>0, <2>3 DEF Fail, Transactions, IdleJob
    <3>2. db' = db
      BY <2>3 DEF Fail
    <3> QED
      BY <1>0, <1>2, <3>1, <3>2
  <2> QED
    BY <1>3, <2>1, <2>2, <2>3
<1>4. ASSUME NEW o \in Observers, NEW s \in Sources, NEW i \in Intervals,
             Collect(o, s, i)
      PROVE  DepthInv'
  <2>1. db' = db /\ work' = work
    BY <1>4 DEF Collect
  <2>2. \A q \in Observers : job'[q].pc = "prune" => job'[q] = job[q]
    BY <1>0, <1>4 DEF Collect
  <2> QED
    BY <1>0, <1>2, <2>1, <2>2
<1>5. CASE Tick \/ ReportStep \/ UNCHANGED vars
  <2>1. db' = db /\ work' = work /\ job' = job
    BY <1>5 DEF Tick, ReportStep, LatestForObservations, ReadObservations,
                LatestForErrors, ReadErrors, ReadLatest, ReadHistory, ReadPrevious,
                Answer, Select, vars
  <2> QED
    BY <1>0, <1>2, <2>1
<1> QED
  BY <1>1, <1>3, <1>4, <1>5 DEF Next, ObserveStep

LEMMA DepthHolds == Spec => []DepthInv
<1> QED
  BY InitDepth, NextDepth, PTL DEF Spec

\* However many observers store however many collections in whatever order, a
\* source never keeps more than RUNTIME_HISTORY_DEPTH of them
\* (add_runtime_collection).
THEOREM DepthIsKept == Spec => []DepthIsBounded
<1>1. DepthInv => DepthIsBounded
  BY DEF DepthInv
<1> QED
  BY <1>1, DepthHolds, PTL

\* A late old collection never pushes a newer one out: what leaves the history,
\* or is not taken into it, has Keep newer ones of its source that stay
\* (add_runtime_collection).
THEOREM NewestAreKept == Spec => OnlyTheOldestLeave
<1> DEFINE A == \A i \in {c.id : c \in db.collections}
               \cup {job[o].id : o \in {o \in Observers : job[o].pc = "prune"
                                                         /\ db' # db}} :
          i \in StoredIds(db', i.source) \/
          Cardinality({j \in StoredIds(db', i.source) : Newer(j, i)}) >= Keep
<1>1. DepthInv /\ [Next]_vars => [A]_vars
  <2> SUFFICES ASSUME DepthInv, [Next]_vars PROVE A
    OBVIOUS
  <2>1. CASE db' = db
    BY <2>1 DEF StoredIds
  <2>2. ASSUME NEW o \in Observers, PruneAndCommit(o) PROVE A
    <3>1. \A q \in Observers : job[q].pc = "prune" => q = o
      BY <2>2 DEF PruneAndCommit, DepthInv, IInv, Transactions
    <3> QED
      BY <2>2, <3>1, CommitKeepsTheNewest
  <2> QED
    BY <2>1, <2>2, OnlyCommitsWrite
<1> QED
  BY <1>1, DepthHolds, PTL DEF Spec, OnlyTheOldestLeave

-----------------------------------------------------------------------------
(* The report goes forward                                                 *)

\* The history has a collection of i's source that is not older than i.
Reached(t, i) == \E c \in t.collections : c.id.source = i.source /\ ~Newer(i, c.id)

\* Identifiers ids have one of i's source, and none that is older than i.
Follow(ids, i) == /\ \E j \in ids : j.source = i.source
                  /\ \A j \in ids : j.source = i.source => ~Newer(i, j)

\* Whatever the report has read, the history keeps something as new: pruning
\* drops a collection only behind newer ones.
AdvanceInv ==
    /\ DepthInv
    /\ \A i \in report.ids : Reached(db, i)
    /\ \A r \in report.observations \cup report.errors :
          r.id \in Ids => Reached(db, r.id)
    /\ report.pc = "errors" =>
          \A r \in report.observations : r.id \in Ids => Follow(report.ids, r.id)
    /\ PartsOnlyAdvance

\* A row without a collection is older than no other.
LEMMA LegacyIsOldest ==
    ASSUME NEW r \in Rows, NEW l \in Rows, r.id \notin Ids
    PROVE  ~Newer(r.id, l.id)
<1>1. r.id.stamp = -1 /\ r.id.interval = 0
  BY DEF Rows, NoId
<1>2. CASE l.id \in Ids
  <2>1. l.id.stamp \in Nat
    BY <1>2, BoundsAssumption DEF Ids, Times
  <2> QED
    BY <1>1, <2>1 DEF Newer
<1>3. CASE l.id \notin Ids
  <2>1. l.id.stamp = -1 /\ l.id.interval = 0
    BY <1>3 DEF Rows, NoId
  <2> QED
    BY <1>1, <2>1 DEF Newer
<1> QED
  BY <1>2, <1>3

\* The newest collections follow whatever the history has reached.
LEMMA LatestFollow ==
    ASSUME NEW t \in Tables, IsFiniteSet(t.collections), NEW i \in Ids, Reached(t, i)
    PROVE  Follow(LatestIds(t), i)
<1>1. PICK c \in t.collections : c.id.source = i.source /\ ~Newer(i, c.id)
  BY DEF Reached
<1>2. \A d \in t.collections : d.id \in Ids
  BY DEF Tables, Collections
<1>3. PICK e \in Latest(t) : e.id.source = i.source
  BY <1>1, NewestExists
<1>4. ASSUME NEW d \in Latest(t), d.id.source = i.source PROVE ~Newer(i, d.id)
  <2>1. d \in t.collections /\ ~Newer(c.id, d.id)
    BY <1>1, <1>4 DEF Latest
  <2> QED
    BY <1>1, <1>2, <1>4, <2>1, NotOlderIsTransitive
<1> QED
  BY <1>3, <1>4 DEF Follow, LatestIds

\* The newest collections are reached.
LEMMA LatestIsReached ==
    ASSUME NEW t \in Tables, NEW i \in LatestIds(t)
    PROVE  Reached(t, i)
<1>1. PICK c \in t.collections : c.id = i
  BY DEF LatestIds, Latest
<1>2. c.id \in Ids
  BY DEF Tables, Collections
<1> QED
  BY <1>1, <1>2, NewerIsAnOrder DEF Reached

\* The rows read with identifiers the history has reached are reached.
LEMMA RowsAreReached ==
    ASSUME NEW t \in Tables, Whole(t), NEW ids, \A i \in ids : Reached(t, i),
           NEW r \in Current(t.observations, ids) \cup Current(t.errors, ids),
           r.id \in Ids
    PROVE  r.id \in ids /\ Reached(t, r.id)
<1>1. r \in t.observations \cup t.errors /\ r \in Rows
  BY DEF Current, Tables
<1>2. CASE r.id \in ids
  BY <1>2
<1>3. CASE r.batch = Legacy
  <2>1. r \notin t.collections
    BY <1>3 DEF Tables, Collections, Batches, Legacy
  <2>2. r.id = NoId(r.id.source)
    <3>1. r = [id |-> NoId(r.id.source), batch |-> Legacy]
      BY <1>1, <2>1 DEF Whole
    <3> QED
      BY <3>1
  <2>3. r.id.stamp = -1
    BY <2>2 DEF NoId
  <2> QED
    BY <2>3, BoundsAssumption DEF Ids, Times
<1> QED
  BY <1>2, <1>3 DEF Current

\* A commit takes nothing away that was reached.
LEMMA CommitKeepsReached ==
    ASSUME DepthInv, db' \in Tables, NEW o \in Observers, PruneAndCommit(o),
           NEW i \in Ids, Reached(db, i)
    PROVE  Reached(db', i)
<1>1. PICK c \in db.collections : c.id.source = i.source /\ ~Newer(i, c.id)
  BY DEF Reached
<1>2. c.id \in Ids /\ \A d \in db'.collections : d.id \in Ids
  BY DEF DepthInv, IInv, TypeOK, Tables, Collections
<1>3. \/ c.id \in StoredIds(db', c.id.source)
      \/ Cardinality({j \in StoredIds(db', c.id.source) : Newer(j, c.id)}) >= Keep
  BY CommitKeepsTheNewest
<1>4. CASE c.id \in StoredIds(db', c.id.source)
  BY <1>1, <1>4 DEF StoredIds, Reached
<1>5. CASE Cardinality({j \in StoredIds(db', c.id.source) : Newer(j, c.id)}) >= Keep
  <2>1. {j \in StoredIds(db', c.id.source) : Newer(j, c.id)} # {}
    BY <1>5, FS_EmptySet, KeepAssumption
  <2>2. PICK d \in db'.collections :
           d.id.source = c.id.source /\ Newer(d.id, c.id)
    BY <2>1 DEF StoredIds
  <2>3. ~Newer(c.id, d.id)
    BY <1>2, <2>2, NewerIsAnOrder
  <2>4. ~Newer(i, d.id)
    BY <1>1, <1>2, <2>2, <2>3, NotOlderIsTransitive
  <2> QED
    BY <1>1, <2>2, <2>4 DEF Reached
<1> QED
  BY <1>3, <1>4, <1>5

\* The rows of a report are not after what is read next, when that follows
\* them.
LEMMA FollowedIsNotAfter ==
    ASSUME NEW rows \in SUBSET Rows, NEW ids, NEW later \in SUBSET Rows,
           \A r \in rows : r.id \in Ids => Follow(ids, r.id),
           \A l \in later :
              l.id \in ids \/ \A i \in ids : i.source # l.id.source
    PROVE  NotAfter(rows, later)
<1> SUFFICES ASSUME NEW r \in rows, NEW l \in later, r.id.source = l.id.source
             PROVE  ~Newer(r.id, l.id)
  BY DEF NotAfter
<1>1. CASE r.id \in Ids
  BY <1>1 DEF Follow
<1>2. CASE r.id \notin Ids
  BY <1>2, LegacyIsOldest
<1> QED
  BY <1>1, <1>2

\* What the report has read keeps its place through a step that leaves the
\* report alone.
LEMMA WritersKeepAdvance ==
    ASSUME AdvanceInv, [Next]_vars, report' = report PROVE AdvanceInv'
<1>1. DepthInv' /\ db' \in Tables
  BY NextDepth DEF AdvanceInv, DepthInv, IInv, TypeOK
<1>2. \A i \in Ids : Reached(db, i) => Reached(db', i)
  BY <1>1, OnlyCommitsWrite, CommitKeepsReached DEF AdvanceInv
<1>3. report.ids \subseteq Ids
  BY DEF AdvanceInv, DepthInv, IInv, TypeOK, ReportState
<1> QED
  BY <1>1, <1>2, <1>3 DEF AdvanceInv, PartsOnlyAdvance

LEMMA ReportKeepsAdvance ==
    ASSUME AdvanceInv, ReportStep PROVE AdvanceInv'
<1>0. /\ DepthInv /\ report \in ReportState /\ db \in Tables /\ Whole(db)
      /\ IsFiniteSet(db.collections)
      /\ report.observations \subseteq Rows /\ report.errors \subseteq Rows
  BY DEF AdvanceInv, DepthInv, IInv, TypeOK, ReportState
<1>1. DepthInv'
  BY NextDepth DEF AdvanceInv, Next
<1>2. db' = db
  BY DEF ReportStep, LatestForObservations, ReadObservations, LatestForErrors,
         ReadErrors, ReadLatest, ReadHistory, ReadPrevious, Answer, Select
<1>3. \A i \in LatestIds(db) : Reached(db, i)
  BY <1>0, LatestIsReached
<1>4. \A r \in report.observations \cup report.errors :
         r.id \in Ids => Follow(LatestIds(db), r.id)
  BY <1>0, LatestFollow DEF AdvanceInv
<1> USE DEF Select, ReportState
<1>5. CASE LatestForObservations
  <2>1. /\ report.pc = "latest for observations" /\ report'.pc = "observations"
        /\ report'.ids = LatestIds(db) /\ report'.observations = report.observations
        /\ report'.errors = report.errors
    BY <1>0, <1>5 DEF LatestForObservations
  <2> QED
    BY <1>1, <1>2, <1>3, <2>1 DEF AdvanceInv, PartsOnlyAdvance
<1>6. CASE ReadObservations
  <2>1. /\ report.pc = "observations" /\ report'.pc = "latest for errors"
        /\ report'.ids = report.ids
        /\ report'.observations = Current(db.observations, report.ids)
        /\ report'.errors = report.errors
    BY <1>0, <1>6 DEF ReadObservations
  <2>2. \A r \in report'.observations : r.id \in Ids => Reached(db, r.id)
    BY <1>0, <2>1, RowsAreReached DEF AdvanceInv
  <2> QED
    BY <1>1, <1>2, <2>1, <2>2 DEF AdvanceInv, PartsOnlyAdvance
<1>7. CASE LatestForErrors
  <2>1. /\ report.pc = "latest for errors" /\ report'.pc = "errors"
        /\ report'.ids = LatestIds(db) /\ report'.observations = report.observations
        /\ report'.errors = report.errors
    BY <1>0, <1>7 DEF LatestForErrors
  <2> QED
    BY <1>1, <1>2, <1>3, <1>4, <2>1 DEF AdvanceInv, PartsOnlyAdvance
<1>8. CASE ReadErrors
  <2>1. /\ report.pc = "errors" /\ report'.pc = "latest"
        /\ report'.ids = report.ids /\ report'.observations = report.observations
        /\ report'.errors = Current(db.errors, report.ids)
    BY <1>0, <1>8 DEF ReadErrors
  <2>2. \A r \in report'.errors : r.id \in Ids => Reached(db, r.id)
    BY <1>0, <2>1, RowsAreReached DEF AdvanceInv
  <2>3. report'.errors \in SUBSET Rows /\ \A l \in report'.errors :
           l.id \in report.ids \/ \A i \in report.ids : i.source # l.id.source
    BY <1>0, <2>1 DEF Current, Tables
  <2>4. NotAfter(report.observations, report'.errors)
    BY <1>0, <2>1, <2>3, FollowedIsNotAfter DEF AdvanceInv
  <2> QED
    BY <1>1, <1>2, <2>1, <2>2, <2>4 DEF AdvanceInv, PartsOnlyAdvance
<1>9. CASE ReadLatest
  <2>1. /\ report.pc = "latest" /\ report'.pc = "history"
        /\ report'.ids = report.ids /\ report'.observations = report.observations
        /\ report'.errors = report.errors /\ report'.collections = Latest(db)
    BY <1>0, <1>9 DEF ReadLatest
  <2>2. Latest(db) \in SUBSET Rows /\ \A l \in Latest(db) : l.id \in LatestIds(db)
    BY <1>0 DEF Latest, LatestIds, Tables, Collections, Rows
  <2>3. NotAfter(report.observations \cup report.errors, report'.collections)
    <3> DEFINE rows == report.observations \cup report.errors
               newest == Latest(db)
               ids == LatestIds(db)
    <3>1. rows \in SUBSET Rows /\ newest \in SUBSET Rows
      BY <1>0, <2>2
    <3>2. \A r \in rows : r.id \in Ids => Follow(ids, r.id)
      BY <1>4
    <3>3. \A l \in newest : l.id \in ids
      BY <2>2
    <3> HIDE DEF rows, newest, ids
    <3>4. NotAfter(rows, newest)
      BY <3>1, <3>2, <3>3, FollowedIsNotAfter
    <3> QED
      BY <2>1, <3>4 DEF rows, newest
  <2> QED
    BY <1>1, <1>2, <2>1, <2>3 DEF AdvanceInv, PartsOnlyAdvance
<1>10. CASE ReadHistory \/ (\E s \in Sources : ReadPrevious(s)) \/ Answer
  <2>1. /\ report.pc \in {"history", "previous rows"}
        /\ report'.pc \in {"previous rows", "done"}
        /\ report'.ids = report.ids /\ report'.observations = report.observations
        /\ report'.errors = report.errors /\ report'.collections = report.collections
    BY <1>0, <1>10 DEF ReadHistory, ReadPrevious, Answer
  <2> QED
    BY <1>1, <1>2, <2>1 DEF AdvanceInv, PartsOnlyAdvance
<1> QED
  BY <1>5, <1>6, <1>7, <1>8, <1>9, <1>10 DEF ReportStep

LEMMA InitAdvance == Init => AdvanceInv
<1> SUFFICES ASSUME Init PROVE AdvanceInv
  OBVIOUS
<1>1. /\ report.ids = {} /\ report.observations = {} /\ report.errors = {}
      /\ report.collections = {}
  BY DEF Init, NoReport
<1>2. DepthInv
  BY InitDepth
<1> QED
  BY <1>1, <1>2 DEF AdvanceInv, PartsOnlyAdvance, NotAfter

LEMMA NextAdvance == AdvanceInv /\ [Next]_vars => AdvanceInv'
<1> SUFFICES ASSUME AdvanceInv, [Next]_vars PROVE AdvanceInv'
  OBVIOUS
<1>1. CASE ReportStep
  BY <1>1, ReportKeepsAdvance
<1>2. CASE ~ReportStep
  <2>1. report' = report
    BY <1>2 DEF Next, ObserveStep, Tick, Collect, Begin, WriteRows, PruneAndCommit,
                Fail, vars
  <2> QED
    BY <2>1, WritersKeepAdvance
<1> QED
  BY <1>1, <1>2

\* Read statement by statement between the commits of observers, a report has
\* no errors older than its observations and no record older than its rows
\* (_emit_runtime_report, _runtime_rows).
THEOREM ReportsOnlyAdvance == Spec => []PartsOnlyAdvance
<1>1. AdvanceInv => PartsOnlyAdvance
  BY DEF AdvanceInv
<1> QED
  BY <1>1, InitAdvance, NextAdvance, PTL DEF Spec

=============================================================================
