SPECIFICATION FairSpec
CONSTANTS
    Ids = {s, d}
    Static = {s}
    UnhealthyThreshold = 2
    TrafficEjectThreshold = 2
    Cooldown = 2
    MaxOverlap = 2
    MaxOwed = 2
    s = s
    d = d
INVARIANTS TypeOK EjectedOnlyAfterStreak
PROPERTIES StreakEjects OutOfRotationIsEarned CooldownNeverExtended ImplementsBreakerSteps ImplementsBreaker Readmitted

