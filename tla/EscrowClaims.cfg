CONSTANTS
    alice = alice
    walletAddr = walletAddr
    smartAddr = smartAddr
    zeroAddr = zeroAddr
    usdc = usdc
    ref1 = ref1
    zeroRef = zeroRef
    Accounts = {alice, walletAddr, smartAddr}
    ZeroAddress = zeroAddr
    Tokens = {usdc}
    Token = usdc
    Refs = {ref1, zeroRef}
    ZeroRef = zeroRef
    Amounts = {1, 2}
    WorkEnds = {2, 3}
    Offers = {}
    Grace = 5
    MaxUint = 20
    Funds = 2
    MaxTime = 10
    MaxSigned = 0
    Reward <- MCReward
    Wallet = walletAddr
    SmartAccount = smartAddr
    Requests = {1, 2}
    VoucherLife = 3
    Margin = 1
    Merges = {0, 1, 2}
    Modes = {"direct", "sponsored"}
    Vias = {"direct", "other"}
SPECIFICATION ClaimSpec
INVARIANTS
    ClaimTypeOK
    OneUsable
    PaysBound
    EvidenceTrue
    VouchersAccounted
CHECK_DEADLOCK FALSE
