SPECIFICATION Spec
CONSTANTS
    ReqId = {run}
    NoReq = NoReq
    ReqInfo <- AllowInfo
    Sender <- MCSender
    Item <- MCItem
    Permit = {b1}
    Capacity = 1
    MaxOut <- Out11
    MaxMsgs = 2
    PipeCap = 1
    ExitCode = {0}
    Fault = {"spawn", "stdin", "fork", "leave"}
INVARIANTS IInv NoCommandLeft AuditMatches
