SPECIFICATION Spec
CONSTANTS
    ABTracks = {ab, ab2}
    CurveTracks = {curve}
    BoundaryTracks = {}
    FieldTracks = {ab, ab2}
    Modes = {1, 2, 3}
    Widths = {2, 3}
    WideFrom = 3
    UTurnWait = 2
    Styles = {0, 1}
    MaxInputs = 2
    MaxTurns = 6
    ab = ab
    ab2 = ab2
    curve = curve
INVARIANTS TypeOK RowsOnce WaitingTurnFollowsPattern
CHECK_DEADLOCK FALSE
