SPECIFICATION SchemaSpec
CONSTANTS
 StoringTables = {"screening_runs"}
INVARIANTS HeadMatchesModels
CHECK_DEADLOCK FALSE
