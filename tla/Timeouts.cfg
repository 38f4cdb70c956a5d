SPECIFICATION TimeoutsFairSpec
CONSTANTS
    Cmds = {c1, c2, c3}
    Durations <- MCDurations
    UINT = 5
    Late = 1
INVARIANT TimesInv
PROPERTIES NeverKilledEarly TimeoutsHappen
