SPECIFICATION Spec
CONSTANTS
    SECTOR_SIZE = 4
    FAT_CACHE_SIZE = 2
    WORD = 64
    MaxCluster = 15
    VolumeBytes = 80
    LeftInMemory = {1, 127}
    FatBytes <- MCFatBytes
INVARIANT
    CacheHasTheRightNumber
