-------------------------- MODULE MCEscrowContract --------------------------
(* TLC instance of EscrowContract: two payers, one reference each.  Work   *)
(* that ends at 1 can be claimed until 3, work that ends at 5 would leave  *)
(* uint256.  Three settlements can be good, each for one payer and amount, *)
(* and one is bad in each other way: too late a deadline, to nobody, in    *)
(* another token, with a nonce.                                            *)
EXTENDS EscrowContract

CONSTANTS alice, bob, zeroAddr, usdc, other, ref1, zeroRef

MCWorkEnds == {1, 5}

Offer(payer, to, tok, m, n, d) ==
    [bountyId |-> <<payer, ref1>>, recipient |-> to, token |-> tok,
     amount |-> m, nonce |-> n, deadline |-> d]

MCOffers == {Offer(alice, bob, usdc, 1, 0, 3), Offer(alice, bob, usdc, 2, 0, 2),
             Offer(bob, alice, usdc, 1, 0, 3), Offer(alice, bob, usdc, 1, 0, 4),
             Offer(alice, zeroAddr, usdc, 1, 0, 3), Offer(alice, bob, other, 1, 0, 3),
             Offer(alice, bob, usdc, 1, 1, 3)}
=============================================================================
