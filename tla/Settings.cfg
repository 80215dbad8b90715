SPECIFICATION SettingsSpec
CONSTANTS
    MaxSets = 2
    MaxOthers = 2
    MaxDrops = 3
    None = None
INVARIANTS
    SettingsSurvive
    SnapshotAgrees
    BrowserAgrees
CHECK_DEADLOCK FALSE
