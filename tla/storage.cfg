SPECIFICATION MCSpec
CONSTANTS
    None = None
    MaxPlans = 2
    MaxVersion = 2
    MaxMishaps = 2
    Misread = {2}
    Upgraders = {1, 2, 3}
    MaxAttempts = 2
    MaxRPlans = 2
    MaxScene = 2
    MaxCrashes = 3
CHECK_DEADLOCK FALSE
INVARIANTS LayoutIsSafe RecoveryIsSafe
PROPERTIES NoDowngradeAfterUse UpgradesEnd
