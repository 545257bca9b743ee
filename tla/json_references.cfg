SPECIFICATION Spec
CONSTANTS
    Nodes = {r, a, b}
    Root = r
    Dirs = {x, y}
    Files = {f, g}
    NoDir = nodir
    RootDir = rootdir
    Graphs <- MCGraphs
    LocalGraphs <- MCLocalGraphs
    Dependencies <- MCDependencies
    MaxDepth = 3
    MaxKeys = 4
INVARIANTS
    ResolvesAsNamed
    FailsForAReason
SYMMETRY JsonSymmetry
CHECK_DEADLOCK FALSE
