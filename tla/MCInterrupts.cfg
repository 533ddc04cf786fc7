SPECIFICATION Spec
CONSTANTS
    Devices = {1, 8}
    MaxRequests = 3
INVARIANTS
    TypeOK
    NothingLeftInService
    MaskIsWritten
    IrqIsTheLine
PROPERTIES
    OnlyUnmaskedLines
    RequestsAreTaken
