SPECIFICATION FairSpec
CONSTANTS
    Sender = {stdout, stderr}
    Item <- MCItem
    Permit = {b1, b2, b3}
    Capacity = 1
    MaxItems = 2
    MaxBytes = 2
INVARIANTS PermitsConserved PerSenderFifo
PROPERTY SendsReturn
