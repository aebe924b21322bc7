\* Two tabs of one person ask for a challenge each; the first one's signature
\* is checked against the second one's message.
SPECIFICATION WalletSpec
CONSTANTS
    ann = ann
    bob = bob
    wa = wa
    wb = wb
    People <- MCPeople
    Addresses <- MCAddresses
    Own <- MCOwn
    MaxChallenges = 2
CHECK_DEADLOCK FALSE
INVARIANT EveryWalletSigned
