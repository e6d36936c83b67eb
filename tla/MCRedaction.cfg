SPECIFICATION Spec
CONSTANTS
    Letter = {a, b}
    Width = 2
    Mark = Mark
    SecretSets <- MCSecretSets
    MaxText = 5
    MaxRead = 3
    Hold = 1
INVARIANTS IInv AsIfWhole HeldBriefly
