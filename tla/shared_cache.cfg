SPECIFICATION MCSpec
CONSTANTS
    p1 = p1
    p2 = p2
    t1 = t1
    t2 = t2
    k1 = k1
    k2 = k2
    k3 = k3
    Processes = {p1, p2}
    Tasks = {t1, t2}
    ProcessOf <- TwoApart
    Keys = {k1, k2, k3}
    MaxEntries = 2
    TTL = 2
    Inodes = {i1, i2, i3, i4, i5, i6, i7}
    NoFile = NoFile
    Horizon = 5
INVARIANTS
    ServedWithinTwoLifetimes
    FilesWhole
    RaisesOnlyInRace
PROPERTY NewestKept
