SPECIFICATION Spec
CHECK_DEADLOCK FALSE
CONSTANTS
    Admin = {a1, a2}
    Name = {n1, n2}
    MaxRuns = 3
SYMMETRY Symmetric
INVARIANTS IInv SetupMends IssuedFit
PROPERTY SecretsKept
