CONSTANTS
    s1 = s1
    s2 = s2
    t1 = t1
    t2 = t2
    Session = {s1, s2}
    Tick = {t1, t2}
    MaxChanges = 2
SPECIFICATION Spec
PROPERTIES StampIsKept EndedStaysGone EndedDisappears ContendedIsAnnounced
