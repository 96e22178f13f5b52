SPECIFICATION FairSpec
CONSTANTS
    Watches <- Two
    Services <- Two
    serviceOf <- MCserviceOf
    revisionsOf <- MCrevisionsOf
    Absent = Absent
    MaxPending = 2
    RawIPs <- MCRawIPs
    IPs <- MCIPs
    canonicalIP <- MCcanonicalIP
    Waypoints = {"wp"}
    Enabled = {"ip", "waypoint", "name"}
    None = None
INVARIANTS
    TypeOK
    ClaimIsAnnounced
    SettledServiceIsExact
PROPERTIES
    AnnouncedIPResolves
