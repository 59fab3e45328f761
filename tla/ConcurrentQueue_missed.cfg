SPECIFICATION Spec
CONSTANTS
    c1 = c1
    c2 = c2
    c3 = c3
    t1 = t1
    t2 = t2
    Consumers <- TwoConsumers
    Tokens <- TwoTokens
    TokenOf <- OwnToken
    MaxItems = 4
INVARIANT NoMissedWakeup
