SPECIFICATION Spec
CONSTANTS
    Lines <- MCLines
    Uris = {"a", "b"}
    Malformed = Malformed
    MaxLines = 5
    SeqMod = 8
INVARIANTS
    AsWritten
    RefusedExactly
    AsPlayerExpects
CHECK_DEADLOCK FALSE
