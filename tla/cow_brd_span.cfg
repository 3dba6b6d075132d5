SPECIFICATION Spec
CONSTANTS
    num_disks = 1
    num_snapshots = 1
    NumPages = 2
    PageSectors = 2
    Val = {zero, a}
    Zero = zero
    Stray = stray
    NoPage = NoPage
    NoVal = NoVal
    NoBio = NoBio
    Thread = {t1}
    Rules = {"frozen", "disjoint", "quiet"}
    Shapes <- Spanning
    DiskShapes <- Spanning
    Bios <- MCBios
INVARIANTS
    WrittenStays
