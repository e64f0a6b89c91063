--------------------------- MODULE MCEngineCache ---------------------------
(***************************************************************************)
(* TLC instances of EngineCache: names for the constants of the cfg files. *)
(***************************************************************************)
EXTENDS EngineCache, TLC

CONSTANTS i1, i2, c1, old, new, other

TwoIndexers == {i1, i2}
OneIndexer  == {i1}
OneComparer == {c1}
Nobody      == {}

ThreeSources == {old, new, other}
TwoSources   == {old, new}
SameRole     == Permutations(Indexers) \cup Permutations(Sources)
=============================================================================
