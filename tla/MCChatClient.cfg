\* Two sends, the chats they belong to and their Stops: sends are finite, so the system may stop.
CONSTANTS
    a = a
    b = b
    None = None
    Sessions <- TwoChats
    MaxSends = 2
    MaxEvents = 3
SPECIFICATION MCSpec
CHECK_DEADLOCK FALSE
INVARIANTS
    TypeOK
    QueuedStopFires
    RegistryExact
PROPERTIES
    PostsInOrder
    ComposerUnlocks
