SPECIFICATION MigrationFairSpec
CONSTANTS
    Last = 18
    Length <- Lengths
    Alters <- Columns
    MaxCrashes = 1
PROPERTIES
    EventuallyMigrated
CHECK_DEADLOCK FALSE
