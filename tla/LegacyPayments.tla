--------------------------- MODULE LegacyPayments ---------------------------
(***************************************************************************)
(* Rewards their owner pays directly (routes/payments.py, smoothsend.py).  *)
(* The contributor claims; the owner reserves the next nonce of the smart  *)
(* account that pays, signs one or more operations for that nonce, stores  *)
(* each before it is sent, and asks the server to verify what became of    *)
(* it.  The EntryPoint executes one operation per nonce, and the owner may *)
(* use the account for other things.                                       *)
(* Rows whose review_status is not clear are left out: no code sets it.    *)
(***************************************************************************)
EXTENDS WalletLinks, Sequences, FiniteSets

CONSTANTS Claims,       \* avax_reward_claims
          Payer, Payee, \* claim -> person
          Amount,       \* claim -> amount_wei
          Signings,     \* what differs between operations for one nonce
          MaxNonce      \* bound: operations an account ever executes

ASSUME PaymentConstants ==
    /\ Payer \in [Claims -> People]
    /\ Payee \in [Claims -> People]
    /\ Amount \in [Claims -> Nat]
    /\ MaxNonce \in Nat

VARIABLES claimed,      \* claims with claimed_at set
          pay,          \* avax_payments, by claim
          receipts,     \* smoothsend_payment_receipts
          stored,       \* operations the owner signed and the server stored
          pool,         \* operations the gateway still knows
          done,         \* what each person's smart account executed
          prep          \* prepare_payment transactions under way, by claim

payVars == <<claimed, pay, receipts, stored, pool, done, prep>>
legacyVars == <<walletVars, payVars>>

Unpaid == [status |-> "none"]
Idle == [pc |-> "idle"]
NoOp == <<>>
Unfinished == {"awaiting_signature", "submitted"}

PayInit ==
    /\ WalletInit
    /\ claimed = {}
    /\ pay = [c \in Claims |-> Unpaid]
    /\ receipts = {}
    /\ stored = {}
    /\ pool = {}
    /\ done = [p \in People |-> <<>>]
    /\ prep = [c \in Claims |-> Idle]

-----------------------------------------------------------------------------
\* call_data and smart_sender: two claims may well have the same.
payment_calldata(c) == [from |-> Payer[c], to |-> Payee[c], amount |-> Amount[c]]

Operation(c, nonce, s) == [call |-> payment_calldata(c), nonce |-> nonce, signing |-> s]

account_nonce(p) == Len(done[p])

Executed(op) ==
    /\ op.nonce < Len(done[op.call.from])
    /\ done[op.call.from][op.nonce + 1].op = op

SamePayer(c) == {d \in Claims : Payer[d] = Payer[c]}

-----------------------------------------------------------------------------
(* The contributor's claim, and the owner's payment row.                   *)

\* The points the same handler credits are Awards'.
claim_reward(c) ==
    /\ wallets[Payee[c]] # None
    /\ claimed' = claimed \cup {c}
    /\ UNCHANGED <<walletVars, pay, receipts, stored, pool, done, prep>>

\* Fault: an unfinished attempt is taken for a failed one.
RetryAny(c) == pay[c].status # "paid"

\* A row that is there is returned as it is, unless it failed and says so.
Retriable(c) ==
    \/ pay[c] = Unpaid
    \/ /\ pay[c].status = "failed"
       /\ [userop |-> pay[c].userop, status |-> "failed"] \in receipts

\* Under the lock of the claim's row.
prepare_payment(c) ==
    /\ prep[c] = Idle
    /\ Retriable(c)
    /\ c \in claimed
    /\ wallets[Payer[c]] # None
    /\ wallets[Payee[c]] # None
    /\ prep' = [prep EXCEPT ![c] = [pc |-> "read"]]
    /\ UNCHANGED <<walletVars, claimed, pay, receipts, stored, pool, done>>

\* Fault: the advisory lock of the sender is not taken.
NoAdvisoryLock(c) == TRUE

\* pg_advisory_xact_lock of the sender, until the transaction ends.
SenderFree(c) == \A d \in SamePayer(c) : prep[d].pc # "reserved"

Reserve(c) ==
    /\ prep[c].pc = "read"
    /\ SenderFree(c)
    /\ \A d \in SamePayer(c) : pay[d].status \notin Unfinished
    /\ prep' = [prep EXCEPT ![c] = [pc |-> "reserved", nonce |-> account_nonce(Payer[c])]]
    /\ UNCHANGED <<walletVars, claimed, pay, receipts, stored, pool, done>>

\* unique (chain_id, sender, nonce)
NonceFree(c, n) == \A d \in {e \in SamePayer(c) \ {c} : pay[e] # Unpaid} : pay[d].nonce # n

\* The nonce was asked of the chain at some time since the lock was taken.
SaveRow(c) ==
    /\ prep[c].pc = "reserved"
    /\ \E n \in prep[c].nonce..account_nonce(Payer[c]) :
           /\ NonceFree(c, n)
           /\ pay' = [pay EXCEPT ![c] =
                  [status |-> "awaiting_signature", nonce |-> n, userop |-> NoOp]]
    /\ prep' = [prep EXCEPT ![c] = Idle]
    /\ UNCHANGED <<walletVars, claimed, receipts, stored, pool, done>>

\* A chain or gateway request failed, or the row broke the unique index.
GiveUp(c) ==
    /\ prep[c] # Idle
    /\ prep' = [prep EXCEPT ![c] = Idle]
    /\ UNCHANGED <<walletVars, claimed, pay, receipts, stored, pool, done>>

-----------------------------------------------------------------------------
(* Signing and sending.                                                    *)

\* Every tab that was shown the row may sign it and store what it signed,
\* over what another tab stored.
save_operation(c, s) ==
    /\ pay[c].status \in Unfinished
    /\ LET op == Operation(c, pay[c].nonce, s)
       IN  /\ pay' = [pay EXCEPT ![c] = [status |-> "submitted", nonce |-> pay[c].nonce,
                                         userop |-> op]]
           /\ stored' = stored \cup {op}
    /\ UNCHANGED <<walletVars, claimed, receipts, pool, done, prep>>

\* Fault: the browser sends what it signs before the server has stored it.
SendUnsaved(op) ==
    /\ \E c \in Claims, s \in Signings :
           /\ pay[c].status \in Unfinished
           /\ pool' = pool \cup {Operation(c, pay[c].nonce, s)}
    /\ UNCHANGED <<walletVars, claimed, pay, receipts, stored, done, prep>>

\* Sent, or sent again: the gateway takes no operation whose nonce is spent.
Send(op) ==
    /\ op \in stored
    /\ op.nonce >= account_nonce(op.call.from)
    /\ pool' = pool \cup {op}
    /\ UNCHANGED <<walletVars, claimed, pay, receipts, stored, done, prep>>

Forget(op) ==
    /\ op \in pool
    /\ pool' = pool \ {op}
    /\ UNCHANGED <<walletVars, claimed, pay, receipts, stored, done, prep>>

Run(p, op, ok) ==
    /\ Len(done[p]) < MaxNonce
    /\ done' = [done EXCEPT ![p] = Append(@, [op |-> op, ok |-> ok])]
    /\ UNCHANGED <<walletVars, claimed, pay, receipts, stored, pool, prep>>

\* The batch transfers, or reverts; either way the nonce is spent.
Execute(op) ==
    /\ op \in pool
    /\ op.nonce = account_nonce(op.call.from)
    /\ \E ok \in BOOLEAN : Run(op.call.from, op, ok)

\* The owner uses the smart account for something else.
Elsewhere(p) == wallets[p] # None /\ Run(p, NoOp, TRUE)

-----------------------------------------------------------------------------
(* Verification: one transaction, under the lock of the payment's row.     *)

verify_operation(op, c) == op.call = payment_calldata(c) /\ op.nonce = pay[c].nonce

\* Fault: a mined operation counts as paid whatever its success flag.
MinedIsPaid(op) == "paid"

verify_receipt(op) ==
    IF done[op.call.from][op.nonce + 1].ok THEN "paid" ELSE "failed"

\* Fault: a paid row is verified again.
AnyRow(c) == pay[c] # Unpaid

Confirmable(c) == pay[c] # Unpaid /\ pay[c].status # "paid"

\* Whoever asks names the operation.  The gateway must know it, waiting or
\* mined; that it shows no receipt yet is all an operation needs to become
\* the submitted one, on a row that failed as well.
confirm_payment(c, op) ==
    /\ Confirmable(c)
    /\ op \in pool \/ Executed(op)
    /\ verify_operation(op, c)
    /\ \/ /\ pay' = [pay EXCEPT ![c] = [status |-> "submitted", nonce |-> pay[c].nonce,
                                        userop |-> op]]
          /\ UNCHANGED receipts
       \/ /\ Executed(op)
          /\ pay' = [pay EXCEPT ![c] = [status |-> verify_receipt(op), nonce |-> pay[c].nonce,
                                        userop |-> op]]
          /\ receipts' = receipts \cup {[userop |-> op, status |-> verify_receipt(op)]}
    /\ UNCHANGED <<walletVars, claimed, stored, pool, done, prep>>

PayNext ==
    \/ WalletNext /\ UNCHANGED payVars
    \/ \E c \in Claims :
           \/ claim_reward(c)
           \/ prepare_payment(c) \/ Reserve(c) \/ SaveRow(c) \/ GiveUp(c)
           \/ \E s \in Signings : save_operation(c, s)
           \/ \E op \in stored : confirm_payment(c, op)
    \/ \E op \in stored : Send(op) \/ Forget(op) \/ Execute(op)
    \/ \E p \in People : Elsewhere(p)

PaySpec == PayInit /\ [][PayNext]_legacyVars

-----------------------------------------------------------------------------
Ops == [call : {payment_calldata(c) : c \in Claims}, nonce : Nat, signing : Signings]

\* The shape of the payment tables and of the chain's history.
PayTypeOK ==
    /\ claimed \subseteq Claims
    /\ \A c \in Claims : pay[c] = Unpaid
           \/ pay[c] \in [status : Unfinished \cup {"paid", "failed"}, nonce : Nat,
                          userop : Ops \cup {NoOp}]
    /\ receipts \subseteq [userop : Ops, status : {"paid", "failed"}]
    /\ stored \subseteq Ops /\ pool \subseteq stored
    /\ \A c \in Claims : prep[c] \in {Idle, [pc |-> "read"]} \cup [pc : {"reserved"}, nonce : Nat]

\* Every transfer that went through is the present attempt of a claim on the
\* very same terms.  Attempts have different nonces, so no transfer is made
\* for a claim twice, and none for an attempt that was given up.
TransfersAccounted ==
    \A p \in People : \A n \in DOMAIN done[p] :
        (done[p][n].ok /\ done[p][n].op # NoOp) =>
            \E c \in Claims : /\ pay[c] # Unpaid
                              /\ pay[c].nonce = n - 1
                              /\ payment_calldata(c) = done[p][n].op.call

\* What a row says of its operation is what the chain did with it.
PaidTrue ==
    \A c \in Claims : pay[c].status \in {"paid", "failed"} =>
        /\ Executed(pay[c].userop)
        /\ payment_calldata(c) = pay[c].userop.call
        /\ done[Payer[c]][pay[c].nonce + 1].ok = (pay[c].status = "paid")

KnownFailed(c) ==
    \E r \in receipts : /\ r.status = "failed"
                        /\ r.userop.call = payment_calldata(c)
                        /\ r.userop.nonce = pay[c].nonce

\* One unfinished transfer at a time for a sender, with several requests
\* preparing payments and several tabs verifying them: of two, one is a failed
\* payment that a verification without a receipt has reopened.
OneUnfinished ==
    \A c, d \in Claims :
        (/\ c # d /\ Payer[c] = Payer[d]
         /\ pay[c].status \in Unfinished /\ pay[d].status \in Unfinished)
        => KnownFailed(c) \/ KnownFailed(d)

\* No retry, late verification or lagging gateway reopens a paid row.
PaidIsFinal ==
    [][\A c \in Claims : pay[c].status = "paid" => pay'[c] = pay[c]]_legacyVars
=============================================================================
