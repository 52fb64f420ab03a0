SPECIFICATION Spec
CONSTANT Levels = {"0", "2", "3"}
INVARIANTS FreshReads MappingIsCurrent OutputsAgree FailureIsTheReport
CHECK_DEADLOCK FALSE
