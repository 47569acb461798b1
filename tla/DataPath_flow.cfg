SPECIFICATION MCSpec
CONSTANTS
    Stages = {"visi","timer","collection"}
    MI = {m1, m2}
    Persistent = {m1}
    numBins = 4
    MinWidth = 1
    MaxTime = 8
    MaxMail = 2
    MaxMailLast = 1
    MaxOpen = 3
    MaxTimeLast = 4
    d1 = d1
    d2 = d2
    p1 = p1
    p2 = p2
    p3 = p3
    Daemon <- MCDaemon
    Proc = {p1, p2, p3}
    Host <- MCHost
    InitialProcs = {p1, p2}
    Widths = {1, 2}
    Narrow = 1
    MaxReading = 5
    MaxReadingWide = 4
    MaxReadingFirst = 3
    MaxReadingExited = 2
    MaxMessages = 2
    MaxEnable = 2
    MaxUpdate = 2
    MaxClock = 2
INVARIANT TypeOK
INVARIANT BinsExact
INVARIANT CellsSound
INVARIANT CellsComplete
INVARIANT WidthsAgree
INVARIANT DataConserved
INVARIANT NodeAndComponentAgree
INVARIANT SampleIsSnapshot
CONSTRAINT Followed
CHECK_DEADLOCK FALSE
