SPECIFICATION TransformerSpec
CONSTANT Job = {j1}
INVARIANT TypeOK
INVARIANT FoundBySeverity
INVARIANT SimulatedAsAsked
INVARIANT LostOnlyIfUnwritable
INVARIANT StatusAgreesWithQueue
CHECK_DEADLOCK FALSE
