CONSTANTS
    a1 = a1
    a2 = a2
    m1 = m1
    m2 = m2
    r1 = r1
    Artifacts = {a1, a2}
    Runs = {r1}
    Messages = {m1, m2}
    Cli = {p1}
    Requests = {q1}
    InboxLimit = 2
    MaxCrashes = 1
    MaxSwitches = 1
SPECIFICATION MCSpec
INVARIANTS ListedCanBeOpened AnnouncedOnce QuietStaysQuiet
PROPERTY NothingStuck
