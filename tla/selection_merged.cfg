SPECIFICATION Spec
CONSTANTS
    d = d  df = df  de = de  deg = deg  dx = dx  h = h
    Item <- Items
    ByPath <- InOrder
    Path <- Paths
    Directory <- Directories
    Size <- Sizes
    Client = {c1,c2}
    Connections = 2
    NoItem = NoItem
CHECK_DEADLOCK FALSE
INVARIANTS SelectionConsistent
