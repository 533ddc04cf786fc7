SPECIFICATION Spec
CONSTANTS
    MAX_FILE_HANDLES = 1
    SECTOR_SIZE = 2
    WORD = 12
    FAT12_LIMIT = 3
    Volumes <- MCVolumes
    Names <- MCNames
    Misread <- MCMisread
    Requests <- MCRequests
    Counts = {3}
    MaxFaults = 1
INVARIANTS
    TypeOK
    BufferHoldsPosition
    HandlesAccountedFor
    NoReadPastEnd
PROPERTY
    ReadsWhatIsThere
