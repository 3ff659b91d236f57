SPECIFICATION FixFairSpec
CONSTANTS
    GPSPlaces = {10}
    SimStart = 30
    OldField = "old"
    OldStart = 10
    NewField = "new"
    Sources = {"Fix", "VTG"}
    StartFrames = 2
    SimPlaces = {0, 10, 30, 31, 32}
    MaxSwitches = 2
    MaxVisits = 1
INVARIANTS FixTypeOK OwnPositions
PROPERTIES CorrectedOnce FramesBegin
