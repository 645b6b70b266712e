SPECIFICATION Spec
CONSTANTS
    top = top  sub = sub  deep = deep  side = side
    a = a  b = b  c = c  e = e
    Dirs = {top, sub, deep, side}
    Files = {a, b, c, e}
    Root = top
    Contents <- Tree
INVARIANTS ForensicTypeOK ReportedOnce NothingMissed CountsStayBehind QuietRunWaits
PROPERTIES RootEnds
CHECK_DEADLOCK FALSE
