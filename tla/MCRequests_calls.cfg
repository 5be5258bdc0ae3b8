SPECIFICATION FairSpec
CONSTANTS
    c1 = c1
    c2 = c2
    None = None
    Calls <- TwoCalls
    Ops <- SomeOps
    Parts <- SomeParts
    Rejections <- SomeRejections
    Failures <- SomeFailures
INVARIANT AnswerIsDraft
PROPERTIES KeepsCallContract CallsEnd
CHECK_DEADLOCK FALSE
