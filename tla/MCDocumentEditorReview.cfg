\* Three documents, one input more: the open review and the active document.
CONSTANTS
    d1 = d1
    d2 = d2
    d3 = d3
    s1 = s1
    s2 = s2
    s3 = s3
    Docs <- ThreeDocs
    Temp = Temp
    NoDoc = NoDoc
    NoChip = NoChip
    Sessions <- ThreeSessions
    FirstSession = s1
    NoSession = NoSession
    InitialHome <- OneEach
    MaxRequests = 3
    MaxInputs = 5
SPECIFICATION Spec
CHECK_DEADLOCK FALSE
INVARIANTS ReviewOfActive
