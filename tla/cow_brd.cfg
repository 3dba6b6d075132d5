SPECIFICATION Spec
CONSTANTS
    num_disks = 1
    num_snapshots = 2
    NumPages = 2
    PageSectors = 2
    Val = {zero, a}
    Zero = zero
    Stray = stray
    NoPage = NoPage
    NoVal = NoVal
    NoBio = NoBio
    Thread = {t1, t2}
    Rules = {"frozen", "disjoint", "quiet"}
    Shapes <- Aligned
    DiskShapes <- OverBoundary
    Bios <- MCBios
INVARIANTS
    TypeOK
    ReadReturnsContents
    WrittenStays
    PagesNotDeletedUnderIO
PROPERTIES
    ImplementsSnapshotDisk
    FrozenDiskUnchanged
SYMMETRY Symmetry
