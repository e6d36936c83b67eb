SPECIFICATION CallSpec
CHECK_DEADLOCK FALSE
CONSTANTS
    ReqId <- MCReqs
    NoReq = NoReq
    ReqInfo <- MCInfo
    Sender <- MCSender
    Item <- MCItem
    Permit = {b1}
    Capacity = 1
    MaxOut <- MCOut
    MaxMsgs = 12
    PipeCap = 1
    ExitCode = {0}
    Fault = {"leave"}
    UpPermit = {u1}
    UpCapacity = 3
    Window = 1
    AnyStdin = 1
    AnyOut = 1
    EchoStdin = {1, 10}
    AnyFaults = {{"link"}, {"stdin"}}
    EchoFaults = {}
INVARIANTS ZeroMeansAll EndIsTheEnd ErrorsAreTheLinks NoEndWithoutDone
PROPERTIES ComesBack DaemonIsExecuteStream
