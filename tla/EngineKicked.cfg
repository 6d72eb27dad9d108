CONSTANTS
    Conns = {c1, c2}
    Fds = {f1, f2}
    Listener = listener
    None = none
    StoreFile = storeFile
    Encryption = FALSE
    Auth = TRUE
    MaxKicks = 2
    Backlog = 2
    MaxQueued = 2
    FrameCap = 1
SPECIFICATION Spec
PROPERTIES
    StoreFileKept
