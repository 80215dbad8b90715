SPECIFICATION FairSpec
CONSTANTS
    Settings <- MixedSettings
    Second = 2
    TimeCap = 4
    MaxAttempts = 2
    None = None
INVARIANTS
    RetryNeverLost
    NoSweepDuringRelock
PROPERTIES
    RestIsHonoured
    ImplementsEpisode
    EpisodeEnds
