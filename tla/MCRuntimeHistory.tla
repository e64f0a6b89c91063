-------------------------- MODULE MCRuntimeHistory --------------------------
(***************************************************************************)
(* TLC instances of RuntimeHistory: names for the constants of the cfg     *)
(* files.                                                                  *)
(***************************************************************************)
EXTENDS RuntimeHistory, TLC

CONSTANTS elastic, prometheus, o1, o2

BothSources  == {elastic, prometheus}
OneSource    == {elastic}
TwoObservers == {o1, o2}

AnyObserver == Permutations(Observers)
=============================================================================
