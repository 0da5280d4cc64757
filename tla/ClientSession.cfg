SPECIFICATION FairSpec
CONSTANTS
    any = any
    one = one
    u1 = u1
    u2 = u2
    Calls = {i1, i2}
    Expects = {any, one}
    Updates = {u1, u2}
    Matches <- MCMatches
    Negotiates = TRUE
    MaxFrames = 2
INVARIANTS
    ServedWhileWanted
    EachUpdateOnce
PROPERTY EachIsSettled
CHECK_DEADLOCK FALSE
