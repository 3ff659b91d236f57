SPECIFICATION NTRIPFairSpec
CONSTANTS
    Mounts = {m1, m2}
    Off = Off
    MaxAttempts = 5
    MaxPosted = 3
INVARIANTS NTRIPTypeOK FollowsCommands RetryIsScheduled StoppedIsQuiet ReceivesAfterAcceptance
PROPERTY StopsForGood
