SPECIFICATION Spec
CONSTANTS
    num_disks = 1
    num_snapshots = 1
    NumPages = 1
    PageSectors = 2
    Val = {zero, a}
    Zero = zero
    Stray = stray
    NoPage = NoPage
    NoVal = NoVal
    NoBio = NoBio
    Thread = {t1, t2}
    Rules = {"frozen", "quiet"}
    Shapes <- OnePage
    DiskShapes <- OnePage
    Bios <- MCBios
INVARIANTS
    WrittenStays
