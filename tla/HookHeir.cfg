SPECIFICATION FairSpec
CONSTANTS
    Payload = 1
    PipeCap = 1
    MaxSaid = 2
    Fault = {"fork"}
PROPERTY TimeoutCancels
