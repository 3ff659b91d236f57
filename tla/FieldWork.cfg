SPECIFICATION FWFairSpec
CONSTANTS
    numOfSections = 2
    OffDelay = 3
    MapOnDelay = 2
    MapOffDelay = 3
    MaxQueued = 1
INVARIANTS TypeOK RequestsAreObeyed OutsideStopsAtOnce RecordsMappingSections
PROPERTIES SectionsAreSwitches ButtonsAreFollowed
