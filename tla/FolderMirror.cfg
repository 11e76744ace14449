\* One file; a small and a large content.
CONSTANTS
    Paths = {p1}
    Contents = {c1, c2}
    Large = {c2}
    Absent = Absent
    Nobody = Nobody
    Slots = {s1, s2}
    MaxWrites = 2
    MaxFaults = 1
SPECIFICATION MirrorSpec
PROPERTIES ForcedFlushIsFresh MirrorConverges
\* The system may stop: the folder is mirrored and nothing changes any more.
CHECK_DEADLOCK FALSE
