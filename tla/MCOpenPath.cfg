SPECIFICATION OpenSpec
CONSTANTS
    NAME = 2
    EXT = 1
    MAX_PATH_SIZE = 10
    Given <- MCGiven
    NameOf <- MCNameOf
    MAX_FILE_HANDLES = 2
    SECTOR_SIZE = 2
    WORD = 12
    FAT12_LIMIT = 3
    Volumes <- Volumes16
    Names <- MCNames
    Misread <- AsTheyAre
    Requests <- JustRoot
    Counts = {3}
    MaxFaults = 0
INVARIANTS
    HandlesAccountedFor
    PathIsMeant
PROPERTIES
    OpenResolves
    CallReturns
