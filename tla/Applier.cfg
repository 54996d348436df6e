SPECIFICATION Spec
CONSTANTS
    Controllers = {c1, c2}
    NoOne = NoOne
    NumShards = 2
    MaxTries = 1
    Plans <- MCPlans
    MaxFlips = 1
INVARIANTS StatementCompleteIsDone CutoverKeepsRows CleanFailureIsClean
PROPERTIES FinishedStays MigrationEnds ArtifactsGo
