SPECIFICATION Spec
CONSTANTS
    ABTracks = {ab, ab2}
    CurveTracks = {curve, curve2}
    BoundaryTracks = {bnd}
    FieldTracks = {ab, curve, bnd}
    LeastPoints = 1
    MaxPoints = 2
    MaxInputs = 4
    MaxJobs = 2
    ab = ab
    ab2 = ab2
    curve = curve
    curve2 = curve2
    bnd = bnd
INVARIANTS TypeOK SteersByTheTrack RecordedCurveIsWhole
