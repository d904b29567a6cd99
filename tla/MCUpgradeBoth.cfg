CONSTANTS
    Types = {"soft", "tmpl"}
    MixMode = FALSE
    AutoTimer = FALSE
    Budget = 2
SPECIFICATION FairSpec
CHECK_DEADLOCK FALSE
PROPERTIES
    ChecksDoNotDisturb UpgradeEnds RequesterReleased
