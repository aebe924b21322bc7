----------------------------- MODULE WalletLinks -----------------------------
(***************************************************************************)
(* Linking a receiving wallet (routes/payments.py, /wallet/challenge and   *)
(* /wallet): the server hands out a message, the person signs it in the    *)
(* browser, and the server binds for good the address it recovers from the *)
(* signature.  It keeps one message per person, the last one handed out.   *)
(***************************************************************************)
EXTENDS Naturals

CONSTANTS People,
          Addresses,      \* wallets that somebody holds the key of
          Own,            \* person -> the wallets they hold
          MaxChallenges   \* bound: challenges one person asks for

ASSUME WalletConstants ==
    /\ Own \in [People -> SUBSET Addresses]
    /\ MaxChallenges \in Nat

VARIABLES issued,         \* how many messages each person was handed
          challenge,      \* wallet_challenges: the message on the person's row
          proofs,         \* the signatures people have made
          wallets         \* wallets, by person

walletVars == <<issued, challenge, proofs, wallets>>

\* Nothing on the row yet; an address is a tuple of what it comes from.
None == <<>>

WalletInit ==
    /\ issued = [p \in People |-> 0]
    /\ challenge = [p \in People |-> None]
    /\ proofs = {}
    /\ wallets = [p \in People |-> None]

\* insert ... on conflict (github_id) do update set message = excluded.message
wallet_challenge(p) ==
    /\ issued[p] < MaxChallenges
    /\ issued' = [issued EXCEPT ![p] = @ + 1]
    /\ challenge' = [challenge EXCEPT ![p] = <<p, issued'[p]>>]
    /\ UNCHANGED <<proofs, wallets>>

Expire(p) ==
    /\ challenge' = [challenge EXCEPT ![p] = None]
    /\ UNCHANGED <<issued, proofs, wallets>>

\* A tab signs the message that was handed to it, with one of the wallets.
Sign(p, n, a) ==
    /\ n \in 1..issued[p]
    /\ a \in Own[p]
    /\ proofs' = proofs \cup {[message |-> <<p, n>>, address |-> a]}
    /\ UNCHANGED <<issued, challenge, wallets>>

\* Recovery always yields an address: the signer's for the message that was
\* signed, for any other message one that nobody holds the key of.
recover_message(message, proof) ==
    IF proof.message = message THEN <<proof.address>> ELSE <<message, proof>>

\* The message is deleted with the link; a refusal rolls that back.
connect_wallet(p, proof) ==
    /\ challenge[p] # None
    /\ LET address == recover_message(challenge[p], proof)
       IN  /\ wallets[p] \in {None, address}
           /\ \A q \in People \ {p} : wallets[q] # address
           /\ wallets' = [wallets EXCEPT ![p] = address]
    /\ challenge' = [challenge EXCEPT ![p] = None]
    /\ UNCHANGED <<issued, proofs>>

WalletNext ==
    \E p \in People :
        \/ wallet_challenge(p)
        \/ Expire(p)
        \/ \E n \in 1..MaxChallenges, a \in Addresses : Sign(p, n, a)
        \/ \E proof \in {s \in proofs : s.message[1] = p} : connect_wallet(p, proof)

WalletSpec == WalletInit /\ [][WalletNext]_walletVars

-----------------------------------------------------------------------------
\* What docs/points-rules.md says of a first payout address: its owner has
\* signed one of the challenges handed to them.
EveryWalletSigned ==
    \A p \in People : wallets[p] # None =>
        \E proof \in proofs : proof.message[1] = p /\ wallets[p] = <<proof.address>>
=============================================================================
