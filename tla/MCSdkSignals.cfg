SPECIFICATION SpecProtocol
CONSTANTS
    P = 37
    B64 = 8
    B32 = 8
    Sentinel = 6
    Codes = {3, 4}
    Ids = {5, 7}
    alice = alice
    bob = bob
    Addresses = {alice, bob}
    s1 = s1
    s2 = s2
    Secrets = {s1, s2}
    Documents <- MCDocuments
    RuleSets <- MCRuleSets
    MaxDrift = 1
    MaxTime = 2
    Unregistered = Unregistered
    MaxProofs = 2
    RootText = "hex"
SYMMETRY Symmetry
INVARIANT
    SubmittedProofAccepted
CHECK_DEADLOCK FALSE
