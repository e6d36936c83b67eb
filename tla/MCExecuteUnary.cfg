SPECIFICATION FairSpec
CONSTANTS
    ReqId <- MCReqId
    ReqInfo <- MCReqInfo
    MaxOut = 1
    PipeCap = 1
    ExitCode = {0}
    Fault = {"spawn", "wait", "stdin", "fork", "leave"}
    Payload = 1
    MaxSaid = 2
    HookFault = {"wait", "fork"}
INVARIANTS IInv RunsOnlyIfApproved ExecutedIsComplete LeftOnlyByBrokenPipes
PROPERTY AnswersAfterAll
