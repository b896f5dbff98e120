\* A default model arrives after a chat was opened: inputs are finite, so the system may stop.
CONSTANTS
    a = a
    t = t
    x = x
    f1 = f1
    f2 = f2
    None = None
    Loading = Loading
    Failed = Failed
    Active <- TwoActive
    Transient <- TasksChat
    Archived <- NoneArchived
    Fresh <- TwoFresh
    MaxCalls = 3
    MaxInputs = 4
SPECIFICATION Spec
CHECK_DEADLOCK FALSE
INVARIANTS
    SentWhereWritten
