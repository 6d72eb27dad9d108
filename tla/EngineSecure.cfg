CONSTANTS
    Conns = {c1, c2, c3}
    Fds = {f1, f2}
    Listener = listener
    None = none
    StoreFile = storeFile
    Encryption = TRUE
    Auth = TRUE
    MaxKicks = 2
    Backlog = 2
    MaxQueued = 3
    FrameCap = 1
SPECIFICATION Spec
INVARIANTS
    PollSetIsStages
    StageIsOwned
    WorldMatchesSessions
    ServedExactlyOnce
PROPERTIES
    StoreFileGuarded
    StagesInOrder
    KeepsWorldContract
SYMMETRY Symmetry
