CONSTANT Jobs <- StreamJobs
SPECIFICATION Spec
INVARIANTS StreamIsTheText
CHECK_DEADLOCK FALSE
