SPECIFICATION AppsSpec
CONSTANTS
    CommandLines <- MCCommandLines
    Requested <- MCRequested
    Scanned <- MCScanned
    Argument <- MCArgument
INVARIANTS
    NeverBusy
    EachMeasured
    ReportInOrder
    SavedAsDecoded
    OkMeansDone
PROPERTIES
    ImplementsWindow
    BmEnds
CHECK_DEADLOCK FALSE
