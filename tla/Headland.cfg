SPECIFICATION Spec
CONSTANTS
    Fields = {f1, f2}
    Points = {1, 2}
    MaxFences = 2
    MaxLines = 2
    MaxInputs = 11
    f1 = f1
    f2 = f2
INVARIANTS TypeOK LiftIsOfThisField
PROPERTY DesignsSurvive
