SPECIFICATION Spec
CONSTANTS
    ReqId <- GateReqs
    NoReq = NoReq
    ReqInfo <- GateInfo
    Sender <- MCSender
    Item <- MCItem
    Permit = {b1, b2}
    Capacity = 2
    MaxOut <- Out20
    MaxMsgs = 2
    PipeCap = 1
    ExitCode = {0}
    Fault = {"wait", "read"}
INVARIANTS RunsOnlyIfApproved ExecutedIsComplete OnlyTextIsFlushed
PROPERTY ImplementsSession
