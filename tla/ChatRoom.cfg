CONSTANTS
    Fds = {f1, f2}
    Stems = {"ann"}
    Free = Free
    MaxLog = 3
    Rows = 1
    Marks = 4
SPECIFICATION Spec
INVARIANTS
    TypeOK
    EveryoneIsUpToDate
    ScreensAreFull
PROPERTIES
    OnlyNamedAreBanned
    KeepsEngineContract
SYMMETRY Symmetry
