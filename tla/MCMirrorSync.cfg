\* One tunnel winding down, one current, one being started.
SPECIFICATION FairSpec
CONSTANTS
    Tunnels = {t1, t2, t3}
    None = None
    MaxHead = 2
    MaxErrs = 5
INVARIANTS
    TypeOK
    StopsOnce
    PortMatchesForwarder
    PushOnOwnTunnel
    NoTunnelLeak
    BackoffAfterErrors
PROPERTIES
    CancelEnds
    ConvergesUnlessStuck
