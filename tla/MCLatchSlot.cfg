SPECIFICATION Spec
CONSTANTS
    Hashes <- MCHashes
    Cids <- MCCids
    NoCid <- MCNoCid
    MaxLen = 6
INVARIANTS
    NoLeadingHole
PROPERTIES
    ImplementsQueues
