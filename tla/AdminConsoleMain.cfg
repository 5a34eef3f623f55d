SPECIFICATION FairSpec
CONSTANTS
    tab1 = tab1  tab2 = tab2
    Tabs = {tab1, tab2}
    Inputs = {"right", "other"}
    Right = "right"
    None = None
    Bounds <- MCBounds
INVARIANTS TypeOK
PROPERTIES RowsKept WaitsEnd
