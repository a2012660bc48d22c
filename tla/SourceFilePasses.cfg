SPECIFICATION Spec
CONSTANT Sources <- AllSources
INVARIANT SlotsInFrame
INVARIANT CapturesFollowScopes
INVARIANT CapturesAreCells
INVARIANT NamesTellTypesApart
INVARIANT TerminatedFunctionsReturn
INVARIANT ResultsAsDeclared
INVARIANT AnnotatedIsGenerated
CHECK_DEADLOCK FALSE
