\* The shortest interview in which a close lands while a renewal opens its stream.
SPECIFICATION SafetySpec
CONSTANT MaxStreams = 2
INVARIANT NoStreamOutlivesInterview
CHECK_DEADLOCK FALSE
