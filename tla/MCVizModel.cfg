\* Two chains from the start and one more command that a key may issue.
SPECIFICATION FairSpec
CONSTANTS
    Tabs = {"pods", "statefulsets"}
    FirstTab = "statefulsets"
    Order <- Sets
    Scopes <- SetsUnfiltered
    Statuses <- SetsUnfiltered
    Queries <- SetsUnfiltered
    Changing <- ChangingSets
    MaxInFlight = 3
INVARIANTS
    TypeOK
    OneDialog
    ActsOnPrompted
PROPERTIES
    RefreshSurvives
    ConvergesWhileRefreshing
