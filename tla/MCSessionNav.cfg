\* Navigation, creation and sending with every answer delayed: inputs are finite, so the system may stop.
CONSTANTS
    a = a
    t = t
    x = x
    f1 = f1
    f2 = f2
    None = None
    Loading = Loading
    Failed = Failed
    Active <- TwoActive
    Transient <- TasksChat
    Archived <- OneArchived
    Fresh <- TwoFresh
    MaxCalls = 3
    MaxInputs = 3
SPECIFICATION Spec
CHECK_DEADLOCK FALSE
ACTION_CONSTRAINT InOrder
INVARIANTS
    TypeOK
    OneCreation
    SentToItsChat
PROPERTIES
    PaintOnlyCurrent
    ListKeepsPlace
    SendSettles
