CONSTANTS
    Players = {p1, p2}
    Cubes = 2
    MaxBodies = 3
    Windows <- MCWindows
    Newline = newline
    Return = return
    Space = space
SPECIFICATION Spec
INVARIANTS
    ObjectsAreOwned
    WorldFollowsKeys
    DrawnInside
    TextIsPlaced
    PolygonsAreWhole
SYMMETRY Symmetry
