SPECIFICATION LiveSpec
CONSTANTS
    Writer <- MCWriter
    FileSize = 2
    MaxCrashes = 1
    MaxFailures = 1
INVARIANTS
    ConfirmedUnlessRotated
    NumberedUnlessSevered
    FoundUnlessSevered
PROPERTY WaiterWoken
