\* The cluster is back after reconnect has used up its five minutes.
SPECIFICATION FairSpec
CONSTANTS
    Tunnels = {t1, t2}
    None = None
    MaxHead = 2
    MaxErrs = 5
PROPERTY KeepsSyncing
