CONSTANTS
    alice = alice
    walletAddr = walletAddr
    zeroAddr = zeroAddr
    usdc = usdc
    ref1 = ref1
    ref2 = ref2
    zeroRef = zeroRef
    pass1 = pass1
    pass2 = pass2
    Accounts = {alice, walletAddr}
    ZeroAddress = zeroAddr
    Tokens = {usdc}
    Token = usdc
    Refs = {ref1, ref2, zeroRef}
    ZeroRef = zeroRef
    Amounts = {1}
    WorkEnds = {1}
    Offers = {}
    Grace = 1
    MaxUint = 20
    Funds = 2
    MaxTime = 5
    MaxSigned = 0
    Reward <- MCReward
    Wallet = walletAddr
    SmartAccount = walletAddr
    Requests = {}
    VoucherLife = 2
    Margin = 1
    Merges = {}
    Modes = {"direct"}
    Vias = {"direct", "other"}
    Passes = {pass1}
    Overlap = 1
    Chunk = 2
SPECIFICATION FairIndexSpec
PROPERTIES
    RecoversProvable
CHECK_DEADLOCK FALSE
