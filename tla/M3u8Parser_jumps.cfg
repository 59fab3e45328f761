SPECIFICATION Spec
CONSTANTS
    Lines <- MCLines
    Uris = {"a", "b"}
    Malformed = Malformed
    MaxLines = 3
    SeqMod = 8
INVARIANT JumpsAsWritten
CHECK_DEADLOCK FALSE
