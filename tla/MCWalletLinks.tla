---- MODULE MCWalletLinks ----
(* Two people, each with a wallet of their own. *)
EXTENDS WalletLinks, TLC
CONSTANTS ann, bob, wa, wb
MCPeople == {ann, bob}
MCAddresses == {wa, wb}
MCOwn == (ann :> {wa}) @@ (bob :> {wb})
==============================
