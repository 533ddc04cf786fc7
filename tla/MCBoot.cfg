SPECIFICATION BootSpec
CHECK_DEADLOCK FALSE
CONSTANTS
    HEADER = 1
    ENTRY = 1
    SECTOR_SIZE = 2
    LOAD_SIZE = 4
    NUM = 4
    WORD = 16
    Memory = {0, 1, 2, 3, 4, 5, 6, 7, 8, 9}
    Images <- MCImages
    MaxFaults = 3
    STAGE2_LOAD_OFFSET = 16
    PARTITION_ENTRY_SEGMENT = 32
    BOOT_SECTOR = 112
    PARAGRAPHS = 2
    Places = {16, 48, 80, 112, 512}
    MAX_REGIONS = 2
    MEMORY_FAT_ADDR = 512
    Regions <- MCRegions
    Machines <- MCMachines
INVARIANTS
    TypeOK
    LoadedInPlace
    CutOffIsRejected
    OnlySegmentsTouched
    BootTypeOK
    StageTwoWhole
    PortKept
    PartitionIsTheBooted
    CodeFits
    InterruptsHaveAHandler
    RegionsReachKernel
PROPERTIES
    GivesUpLate
    BootEnds
