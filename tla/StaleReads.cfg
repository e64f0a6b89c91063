SPECIFICATION Spec
CONSTANT Programs <- Trees
INVARIANTS StaleReadIsDiagnosed RiskIsBehindPublication
CHECK_DEADLOCK FALSE
