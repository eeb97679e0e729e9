SPECIFICATION FairSpec
CONSTANTS
    Topics = {t1}
    Companies = {c1}
    Problems = {p1, p2}
    Pool <- SmallPool
    MaxProblems = 2
    MaxChosen = 1
    MaxRetries = 1
    LastStep = 2
    MaxInputs = 3
    MaxFaults = 2
CHECK_DEADLOCK FALSE
INVARIANTS
    FormOK
    CountIsCurrent
    NeverTooMany
PROPERTIES
    ButtonComesBack
