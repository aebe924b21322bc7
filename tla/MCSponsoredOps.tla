--------------------------- MODULE MCSponsoredOps ---------------------------
(* TLC instance of SponsoredOps: one bounty, whose payer and whose          *)
(* contributor both have an app wallet, with two submissions at once.      *)
EXTENDS SponsoredOps

CONSTANTS payer, walletAddr, smartAddr, zeroAddr, usdc, ref1, zeroRef

MCReward == [i \in {<<payer, ref1>>} |-> [amount |-> 1, workEndsAt |-> 2]]
=============================================================================
