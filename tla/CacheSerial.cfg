SPECIFICATION SerialSpec
CONSTANTS
    p1 = p1
    p2 = p2
    p3 = p3
    Procs = {p1, p2}
    Versions <- MCVersions
    Sig <- MCSig
    Long <- MCLong
    NoWav = NoWav
    Zero = Zero
    Absent = Absent
    Garbage = Garbage
    Blocks = 2
SYMMETRY Symmetric
INVARIANTS
    PrefixOfOneVersion
