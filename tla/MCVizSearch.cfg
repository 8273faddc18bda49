\* Two pods and a search for the name of one.
SPECIFICATION Spec
CONSTANTS
    Tabs = {"pods"}
    FirstTab = "pods"
    Order <- Pods
    Scopes <- PodsUnfiltered
    Statuses <- PodsFiltered
    Queries <- PodsFiltered
    Changing <- ChangingPods
    MaxInFlight = 3
INVARIANT SelectedIsHighlighted
