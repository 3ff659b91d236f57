CONSTANTS
    Legacy = legacy
    None = None
    Fields = {legacy, f1}
    CopyFlags = {{"Lines"}, {"Headland", "Flags"}}
    MaxEdits = 6
    MaxVisits = 3
SPECIFICATION Spec
INVARIANTS TypeOK ReopenRestores OwnContent StripsAreSavedOnce
CHECK_DEADLOCK FALSE
