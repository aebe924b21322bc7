CONSTANTS
    alice = alice
    bob = bob
    zeroAddr = zeroAddr
    usdc = usdc
    other = other
    ref1 = ref1
    zeroRef = zeroRef
    Accounts = {alice, bob}
    ZeroAddress = zeroAddr
    Tokens = {usdc, other}
    Token = usdc
    Refs = {ref1, zeroRef}
    ZeroRef = zeroRef
    Amounts = {0, 1, 2}
    WorkEnds <- MCWorkEnds
    Offers <- MCOffers
    Grace = 2
    MaxUint = 6
    Funds = 2
    MaxTime = 4
    MaxSigned = 2
SPECIFICATION Spec
INVARIANTS
    TypeOK
    Solvent
    LiabilitiesExact
    LeavesOnce
    LeavesAsItCame
    NeverStuck
PROPERTIES
    TermsFinal
    KeepsPromise
CHECK_DEADLOCK FALSE
