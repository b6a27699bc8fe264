CONSTANTS
    c1 = c1  c2 = c2  c3 = c3
    d0 = d0  d1 = d1
    h1 = h1  h2 = h2
    Conns = {c1, c2}
    DevIds = {d0, d1}
    ZeroDev = d0
    Handles = {h1, h2}
    Uses <- AnyDevice
    Null = Null  Absent = Absent  NoConn = NoConn  NoDev = NoDev
SPECIFICATION FairSpec
PROPERTIES
    SomebodyIsAnswered
