SPECIFICATION FairSpec
CONSTANTS
    Keys = {k1, k2}
    Known = {k1}
    Groups = {g1}
    Requests = {r1, r2}
    Values = {0, 1}
    MaxWrites = 1
    MaxSaves = 1
    MaxCrashes = 1
    None = None
PROPERTIES
    DevicesKept
    ConfigTakesEffect
    GroupsFollowDevices
CHECK_DEADLOCK FALSE
