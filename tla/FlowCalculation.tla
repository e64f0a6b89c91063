-------------------------- MODULE FlowCalculation --------------------------
(***************************************************************************)
(* `systemlens flows calculate` beside index runs on one store: it takes   *)
(* the write lock, which an index run frees at each checkpoint, rebuilds   *)
(* the flows of one module or of all from what the store then holds and    *)
(* from the Java files on disk, and commits.  It leaves every status,      *)
(* signature and join-checkpoint row as it is.                             *)
(*                                                                         *)
(* This module adds the command and the persisted call edges to the steps  *)
(* of IndexRun.  Each file is a module of its own.                         *)
(***************************************************************************)
EXTENDS IndexRun

CONSTANTS
    Calculators,      \* processes that may run `flows calculate`
    MaxCalculations,  \* bound: calculations
    OtherLimits       \* may the file configure other limits than the index run?

ASSUME CalculationAssumption ==
    /\ Calculators \cap (Runs \cup {NoRun}) = {}
    /\ MaxCalculations \in Nat /\ OtherLimits \in BOOLEAN

VARIABLES
    edges,         \* the committed call edges: the tree, calls and limits
    calculations   \* calculations so far

calculationVars == <<vars, edges, calculations>>

NoEdges == [src |-> Absent, calls |-> "full", sig |-> NoSig]

CalculationInit == Init /\ edges = NoEdges /\ calculations = 0

-----------------------------------------------------------------------------
(* The index runs                                                          *)

\* persist_call_graph commits the edges with the call-graph checkpoint.
PersistEdges(r) ==
    /\ \E calls \in {"full", "cut"}, timedOut \in BOOLEAN :
          CallGraphCheckpoint(r, calls, timedOut)
    /\ edges' = [src |-> run[r].view, calls |-> run'[r].calls, sig |-> run[r].sig]

\* The stage drops the edges at its start; a run without an engine commits
\* that at its end.
FinishRun(r) ==
    /\ Finish(r)
    /\ edges' = IF run[r].sig = NoEngine THEN NoEdges ELSE edges

IndexStep ==
    /\ \/ \E r \in Runs : \/ PersistEdges(r) \/ FinishRun(r)
                          \/ /\ \/ Inventory(r) \/ Refuse(r) \/ Extract(r)
                                \/ Skip(r) \/ StageStart(r)
                                \/ \E k \in Files : JoinCheckpoint(r, k)
                                \/ InputOutputCheckpoint(r) \/ Reopen(r)
                                \/ LockLost(r) \/ Stop(r)
                                \/ \E sig \in Signatures, full, resume \in BOOLEAN :
                                      Begin(r, sig, full, resume, FALSE)
                             /\ UNCHANGED edges
       \/ (\E f \in Files, v \in Versions : Edit(f, v)) /\ UNCHANGED edges
    /\ UNCHANGED calculations

-----------------------------------------------------------------------------
(* flows calculate                                                         *)

\* BEGIN IMMEDIATE, within the busy timeout.
OpenCalculation(c) ==
    /\ lock = NoRun /\ calculations < MaxCalculations
    /\ lock' = c /\ calculations' = calculations + 1
    /\ UNCHANGED <<tree, edits, troubles, db, work, run, edges>>

\* What the passes see of the files of tree t: the file as it is on disk.
OnDisk(t) == [f \in Files |-> IF t[f] = 0 THEN 0 ELSE tree[f]]

\* The same-method flows of the stored endpoints, and the flows that the join
\* finds from every entry of the stored methods over the stored edges.
Rebuilt(sig) ==
    AstFlows(OnDisk(db.facts)) \cup
    {[kind |-> edges.calls, entry |-> f, src |-> OnDisk(edges.src), sig |-> sig] :
        f \in Present(db.facts) \cap Present(edges.src)}

\* Mutant: with --module, the flows of the other modules are dropped too.
RetainedNone(modules) == {}

\* The flows of the other modules stay when their endpoints do.
Retained(modules) ==
    {w \in db.flows : w.entry \notin modules /\ w.entry \in Present(db.facts)}

\* The configured limits: those of the edges' index run, or other ones.
Limits == {edges.sig} \cup (IF OtherLimits THEN {NoSig} ELSE {})

\* Mutant: a module is rebuilt over the calls of its own files only.
OwnCalls(flows, modules) ==
    {IF w.kind = "ast" THEN w ELSE [w EXCEPT !.kind = "cut"] : w \in flows}

Calculated(flows, modules) == {w \in flows : w.entry \in modules}

Calculate(c, modules, sig) ==
    /\ lock = c /\ sig \in Limits
    /\ LET flows == Retained(modules) \cup Calculated(Rebuilt(sig), modules) IN
          db' = [db EXCEPT !.flows = flows]
    /\ work' = db' /\ lock' = NoRun
    /\ UNCHANGED <<tree, edits, troubles, run, edges, calculations>>

\* The command fails or dies before its commit.
AbandonCalculation(c) ==
    /\ lock = c /\ lock' = NoRun
    /\ UNCHANGED <<tree, edits, troubles, db, work, run, edges, calculations>>

Scopes == {Files} \cup {{f} : f \in Files}

CalculationStep ==
    \E c \in Calculators :
        \/ OpenCalculation(c) \/ AbandonCalculation(c)
        \/ \E modules \in Scopes, sig \in Signatures \cup {NoSig} :
              Calculate(c, modules, sig)

CalculationNext == IndexStep \/ CalculationStep

CalculationSpec == CalculationInit /\ [][CalculationNext]_calculationVars

-----------------------------------------------------------------------------
(* Properties                                                              *)

\* A calculation over a settled index persists the flow set that `index`
\* persists for the tree, whatever was interrupted, resumed or calculated
\* before (docs/spec-fonc/cli.md, flows calculate).
CalculationGivesIndexFlows ==
    [][\A c \in Calculators, sig \in Signatures \cup {NoSig} :
          Settled /\ Calculate(c, Files, sig)
             => db'.flows = Expected(tree, db.flowSig)]_calculationVars
=============================================================================
