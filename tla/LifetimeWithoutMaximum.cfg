CONSTANTS
    Configured <- WithoutMaximum
    MaxTime = 9
SPECIFICATION Spec
CHECK_DEADLOCK FALSE
INVARIANT AsConfigured
