----------------------------- MODULE MCIndexRun -----------------------------
(***************************************************************************)
(* TLC instances of IndexRun: names for the constants of the cfg files.    *)
(***************************************************************************)
EXTENDS IndexRun, TLC

CONSTANTS r1, r2, source, codeql

OneRun  == {r1}
TwoRuns == {r1, r2}

\* One engine, or an engine and a switch to `engine: none`.
OneEngine     == {source}
EngineOrNone  == {source, NoEngine}

AnyProcess == Permutations(Runs)
=============================================================================
