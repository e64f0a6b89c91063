-------------------------- MODULE MCEngineSession --------------------------
(***************************************************************************)
(* TLC instances of EngineSession: names for the constants of the cfg      *)
(* files.                                                                  *)
(***************************************************************************)
EXTENDS EngineSession

BothEngines == {"codeql", "joern"}
OnlyJoern   == {"joern"}
=============================================================================
