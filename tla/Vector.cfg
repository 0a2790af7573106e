\* Two vectors, four nodes, paths of two depths.
SPECIFICATION MCSpec
CONSTANTS
    Vectors = {v1, v2}
    Values <- MCPaths
    Bigger <- MCBigger
    NODES = 4
    Characters = {"/", "s", "d", " "}
    Whitespace = {" "}
    Texts <- MCTexts
    MaxText = 5
INVARIANTS
    NodesAccounted
    PathsMeanTheirText
PROPERTIES
    ImplementsLists
