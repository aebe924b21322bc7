--------------------------- MODULE MCEscrowClaims ---------------------------
(* TLC instance of EscrowClaims: one published bounty of one payer, whose   *)
(* contributor has a wallet and a smart account, and two tabs asking for a  *)
(* voucher at once.                                                         *)
EXTENDS EscrowClaims

CONSTANTS alice, walletAddr, smartAddr, zeroAddr, usdc, ref1, zeroRef

MCReward == [i \in {<<alice, ref1>>} |-> [amount |-> 1, workEndsAt |-> 2]]
=============================================================================
