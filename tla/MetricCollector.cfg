CONSTANTS
    r1 = r1
    r2 = r2
    Requests = {r1, r2}
    Weights <- WeightsOf
    BadParam <- FirstBad
    StorageLevels = {50}
    Situations <- Each
    IntMod = 8
    MaxTicks = 1
    InitTakesLong = TRUE
SPECIFICATION FairSpec
INVARIANTS
    ReportsThePeriod
    ScoreOfOneSet
PROPERTY WeightsTakeEffect
