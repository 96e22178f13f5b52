SPECIFICATION FairSpec
CONSTANTS
    Watches <- Two
    Slices <- Two
    sliceOf <- MCsliceOf
    Revisions <- MCRevisions
    Absent = Absent
    MaxPending = 2
    RawIPs <- MCRawIPs
    IPs <- MCIPs
    canonicalIP <- MCcanonicalIP
    None = None
INVARIANTS
    TypeOK
    EntryIsCarried
    SettledEntryIsCurrent
PROPERTIES
    CarriedIPResolves
