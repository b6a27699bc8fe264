CONSTANTS
    Conns = {c1, c2}
    Main = Main  Gui = Gui
SPECIFICATION FairSpec
INVARIANTS
    ListAlive
    EnumeratesFresh
PROPERTIES
    StopReturns
    ScanBegins
