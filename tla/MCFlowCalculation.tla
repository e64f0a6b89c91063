------------------------- MODULE MCFlowCalculation -------------------------
(***************************************************************************)
(* TLC instances of FlowCalculation: names for the constants of the cfg    *)
(* files.                                                                  *)
(***************************************************************************)
EXTENDS FlowCalculation

CONSTANTS r1, r2, c1, source, codeql

OneRun        == {r1}
TwoRuns       == {r1, r2}
OneCalculator == {c1}
OneEngine     == {source}
EngineOrNone  == {source, NoEngine}
=============================================================================
