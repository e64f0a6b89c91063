SPECIFICATION Spec
CONSTANT Programs <- Between
INVARIANT StaleReadIsDiagnosed
CHECK_DEADLOCK FALSE
