SPECIFICATION FairSpec
CONSTANTS
    ReqId = {run}
    NoReq = NoReq
    ReqInfo <- AllowInfo
    Sender <- MCSender
    Item <- MCItem
    Permit = {b1}
    Capacity = 1
    MaxOut <- Out10
    MaxMsgs = 3
    PipeCap = 1
    ExitCode = {0}
    Fault = {}
PROPERTY BadOutputFailsFast
