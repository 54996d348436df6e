\* Clients that repeat statements, placements and reshards among schema changes.
CONSTANTS
    c1 = c1
    c2 = c2
    NoOne = NoOne
    Clients = {c1, c2}
    MaxOps = 4
    Plans <- MCPlans
SPECIFICATION FairSpec
INVARIANTS NoOverlap ShapeIsCurrent PlanHolds AnsweredTrue
PROPERTY DDLEnds
CHECK_DEADLOCK FALSE
