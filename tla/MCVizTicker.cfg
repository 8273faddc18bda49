\* Two pods, looked at in the detail view.
SPECIFICATION FairSpec
CONSTANTS
    Tabs = {"pods"}
    FirstTab = "pods"
    Order <- Pods
    Scopes <- PodsUnfiltered
    Statuses <- PodsUnfiltered
    Queries <- PodsUnfiltered
    Changing <- ChangingPods
    MaxInFlight = 3
PROPERTY KeepsRefreshing
