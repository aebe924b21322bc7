SPECIFICATION PaySpec
CONSTANTS
    mona = mona
    ann = ann
    monas = monas
    anns = anns
    claim1 = claim1
    claim2 = claim2
    first = first
    second = second
    People = {mona, ann}
    Addresses = {monas, anns}
    Own <- MCOwn
    MaxChallenges = 1
    Claims = {claim1, claim2}
    Payer <- MCPayer
    Payee <- MCPayee
    Amount <- MCAmount
    Signings = {first, second}
    MaxNonce = 2
CHECK_DEADLOCK FALSE
INVARIANTS
    PayTypeOK
    TransfersAccounted
    PaidTrue
    OneUnfinished
PROPERTY PaidIsFinal
