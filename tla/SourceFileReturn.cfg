SPECIFICATION Spec
CONSTANT Sources <- ReturnSources
INVARIANT OptionalReturn
CHECK_DEADLOCK FALSE
