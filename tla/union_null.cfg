\* The same entries: a merge into one that decoded null.
SPECIFICATION Spec
CONSTANTS
    Entries = {"read", "kept", "edited"}
    Apis <- MCApis
    Givens <- MCGivens
    MaxOperations = 4
    NoText = NoText
    Null = Null
    Torn = Torn
    Zero = Zero
INVARIANTS
    MergeTakesEffect
