SPECIFICATION FairSpec
CONSTANTS
    Task = {t1, t2}
    DiscoveryFails = TRUE
    None = None
INVARIANT StuckOnlyOnDiscovery
 
