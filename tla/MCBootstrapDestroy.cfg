\* The cluster is destroyed once and created again.
SPECIFICATION FairSpec
CONSTANTS
    t1 = t1
    t2 = t2
    yby = yby
    Runs = {r1}
    Targets = {t1}
    LocalTargets = {t1}
    NoTarget = NoTarget
    Clusters = {yby}
    ClusterOf <- OneCluster
    Replaceable = {yby}
PROPERTY RetriesInstallAfterDestroy
