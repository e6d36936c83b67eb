SPECIFICATION FairSpec
CONSTANTS
    Payload = 2
    PipeCap = 1
    MaxSaid = 2
    Fault = {"spawn", "write", "wait", "read", "fork"}
INVARIANTS IInv AnswerIsWhole NoHookLeft
PROPERTIES AnswersAfterHook TimeoutReturns
