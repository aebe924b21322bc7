-------------------------- MODULE MCEscrowIndexer --------------------------
(* TLC instance of EscrowIndexer: two published bounties, and blocks enough *)
(* for both events of each to be confirmed.                                 *)
EXTENDS EscrowIndexer, TLC

CONSTANTS alice, walletAddr, zeroAddr, usdc, ref1, ref2, zeroRef, pass1, pass2

MCReward == [i \in {<<alice, ref1>>, <<alice, ref2>>} |-> [amount |-> 1, workEndsAt |-> 1]]

\* Neither the two bounties nor the passes are told apart.
Alike == Permutations({ref1, ref2}) \cup Permutations({pass1, pass2})
=============================================================================
