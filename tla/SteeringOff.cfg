SPECIFICATION FairSpec
CONSTANTS
    ABTracks = {ab}
    CurveTracks = {}
    BoundaryTracks = {}
    FieldTracks = {ab}
    Modes = {0}
    Widths = {1}
    WideFrom = 3
    UTurnWait = 2
    Styles = {0}
    MaxInputs = 1
    MaxTurns = 1
    ab = ab
PROPERTY SteeringStopsWithoutLine
CHECK_DEADLOCK FALSE
