SPECIFICATION Spec
CONSTANTS
    HEADER = 1
    ENTRY = 1
    SECTOR_SIZE = 2
    LOAD_SIZE = 4
    NUM = 4
    WORD = 16
    Memory = {0, 1, 2, 3, 4, 5, 6, 7, 8, 9}
    Images <- MCImages
    MaxFaults = 0
INVARIANT
    ProgramIsRead
