SPECIFICATION StripsSpec
CONSTANT numOfSections = 6
INVARIANT RecordsOnce
PROPERTY NoPatchJumps
