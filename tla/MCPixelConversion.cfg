CONSTANT Levels <- SomeLevels
SPECIFICATION Spec
INVARIANT GreysStayBright
CHECK_DEADLOCK FALSE
