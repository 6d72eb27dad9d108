CONSTANTS
    Logins = {l1, l2}
    Main = main
    Nobody = nobody
    Names = {alice, bob}
    LegalNames = {alice, bob}
    Passwords = {p1, p2}
    Empty = empty
    Absent = absent
    AllowAll = TRUE
    Tearing = TRUE
    DiskFails = TRUE
SPECIFICATION FairSpec
INVARIANTS
    TypeOK
    SessionsAreAuthentic
    FileIsWhole
PROPERTIES
    CredentialsStable
    RestartInventsNothing
    ImplementsAccountBook
    EveryLoginIsAnswered
SYMMETRY Symmetry
