SPECIFICATION LeafSpec
CONSTANTS
    Hosts <- MCHosts
    Domains <- MCDomains
    Addresses <- MCAddresses
    Networks <- MCNetworks
    Absent = Absent
INVARIANT SignedExactly
CHECK_DEADLOCK FALSE
