SPECIFICATION Spec
CONSTANTS
    Drives <- MCDrives
    Lbas <- MCLbas
    MaxFaults = 4
INVARIANTS
    TypeOK
    AddressesTheSector
PROPERTIES
    TwoFailuresAreHidden
    ImplementsDevice
