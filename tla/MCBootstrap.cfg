\* Two concurrent runs; a local and a remote target share a cluster, a
\* local one has its own, which is replaced once.
SPECIFICATION FairSpec
CONSTANTS
    t1 = t1
    t2 = t2
    yby = yby
    Runs = {r1, r2}
    Targets = {t1, t2}
    LocalTargets = {t1}
    NoTarget = NoTarget
    Clusters = {yby}
    ClusterOf <- OneCluster
    Replaceable = {yby}
INVARIANTS
    TypeOK
    SuccessMeansInstalled
    CheckpointIsTrue
PROPERTY RetriesInstall
