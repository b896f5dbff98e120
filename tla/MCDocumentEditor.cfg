\* Two documents: d1 of session s1, d3 not yet created; s2 has none.
CONSTANTS
    d1 = d1
    d2 = d2
    d3 = d3
    s1 = s1
    s2 = s2
    s3 = s3
    Docs <- TwoDocs
    Temp = Temp
    NoDoc = NoDoc
    NoChip = NoChip
    Sessions <- TwoSessions
    FirstSession = s1
    NoSession = NoSession
    InitialHome <- OneEach
    MaxRequests = 4
    MaxInputs = 4
SPECIFICATION Spec
CHECK_DEADLOCK FALSE
INVARIANTS TypeOK
PROPERTIES CrossedOnlyBy NavigationKeepsEdits
