SPECIFICATION Spec
CONSTANTS
    p1 = p1
    p2 = p2
    x1 = x1
    x2 = x2
    Tab <- Tabs
    Thing <- Things
    Editor <- OneEditor
    InitialTables <- Tables
    MaxClicks = 3
    MaxEdits = 3
    MaxSaves = 2
    MaxLoads = 2
\* The pages are used, and the services fail, a bounded number of times.
CHECK_DEADLOCK FALSE
INVARIANTS ListsInv BlueprintsInv
PROPERTIES StatusMoves PagesComeBack
