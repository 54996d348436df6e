SPECIFICATION FairSpec
CONSTANTS
    s1 = s1
    s2 = s2
    k1 = k1
    k2 = k2
    w1 = w1
    w2 = w2
    Ids <- TwoShards
    Keys = {k1, k2}
    Owner <- HashOwner
    Writers = {w1, w2}
    Writes <- UpdateDelete
    Replicas = {r1, r2}
    Gone = Gone
    Base = Base
    None = None
    BufferAttempts = 2
    Stalls <- HangPoints
    Plans <- Moves
INVARIANTS
    RowsKept
    EndsClean
PROPERTIES
    CancelledNeverSwaps
    FencesLift
CHECK_DEADLOCK FALSE
