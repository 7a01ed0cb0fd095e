SPECIFICATION MigrateSpec
INVARIANT NoStatementFails
INVARIANT FinishedComplete
