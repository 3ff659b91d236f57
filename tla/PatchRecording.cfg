SPECIFICATION Spec
CONSTANTS
    Strips = {1, 2}
    Fields = {north, south}
    None = None
    NoList = NoList
    MaxTriangles = 2
    CloseMayFail = FALSE
    MaxPairs = 6
INVARIANTS TypeOK MapMatchesFile OwnPatchesOnly
