CONSTANTS
    payer = payer
    walletAddr = walletAddr
    smartAddr = smartAddr
    zeroAddr = zeroAddr
    usdc = usdc
    ref1 = ref1
    zeroRef = zeroRef
    Accounts = {payer, walletAddr, smartAddr}
    ZeroAddress = zeroAddr
    Tokens = {usdc}
    Token = usdc
    Refs = {ref1, zeroRef}
    ZeroRef = zeroRef
    Amounts = {1}
    WorkEnds = {2}
    Offers = {}
    Grace = 2
    MaxUint = 20
    Funds = 2
    MaxTime = 7
    MaxSigned = 0
    Reward <- MCReward
    Wallet = walletAddr
    SmartAccount = smartAddr
    Requests = {1}
    VoucherLife = 2
    Margin = 1
    Merges = {1}
    Modes = {"sponsored"}
    Vias = {"direct", "other"}
    Owners = {payer, smartAddr}
    Tabs = {1, 2}
    MaxOps = 3
SPECIFICATION FairOpsSpec
INVARIANTS
    OpsTypeOK
    OneRunnable
    StatusTrue
PROPERTIES
    EndedIsFinal
    OperationsEnd
    ActsAsClaims
CHECK_DEADLOCK FALSE
