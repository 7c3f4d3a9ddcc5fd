\* A tree entry and two structure entries, four operations.
SPECIFICATION Spec
CONSTANTS
    Entries = {"read", "kept", "edited"}
    Apis <- MCApis
    Givens <- MCGivens
    MaxOperations = 4
    NoText = NoText
    Null = Null
    Torn = Torn
    Zero = Zero
INVARIANTS
    TypeOK
    ReadsLatest
    KindIsTold
    SharedBytesAgree
