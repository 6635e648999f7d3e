SPECIFICATION QuietSpec
CONSTANTS
    p1 = p1
    p2 = p2
    p3 = p3
    Procs = {p1, p2, p3}
    Versions <- OneVersion
    Sig <- OneSig
    Long = {}
    NoWav = NoWav
    Zero = Zero
    Absent = Absent
    Garbage = Garbage
    Blocks = 2
INVARIANTS
    TypeOK
    SettledComplete
    HitSound
PROPERTIES
    FilledAtLast
