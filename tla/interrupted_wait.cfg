SPECIFICATION Spec
CONSTANTS
    top = top  sub = sub  deep = deep  side = side
    a = a  b = b  c = c  e = e
    Dirs = {top, sub, deep, side}
    Files = {a, b, c, e}
    Root = top
    Contents <- Tree
INVARIANTS WaitsForChildren
CHECK_DEADLOCK FALSE
