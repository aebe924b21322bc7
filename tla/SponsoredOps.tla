---------------------------- MODULE SponsoredOps ----------------------------
(***************************************************************************)
(* Sponsored execution (sponsored.py): the server signs one ERC-4337       *)
(* operation at a time for a wallet it keeps, stores it before anything is *)
(* sent, and follows it until what it did on chain is on record.  The      *)
(* chain, the records and the vouchers are EscrowClaims'; operations take  *)
(* the place of the transactions a browser would sign.                     *)
(***************************************************************************)
EXTENDS EscrowClaims

CONSTANTS Owners,       \* smart accounts the server signs for
          Tabs,         \* concurrent submissions
          MaxOps        \* bound: operations ever signed

ASSUME OpConstants ==
    /\ Owners \subseteq Accounts
    /\ MaxOps \in Nat
    /\ "sponsored" \in Modes
    /\ {"direct", "other"} \subseteq Vias
    /\ \A i \in Registered : Reward[i].amount \in Amounts /\ Reward[i].workEndsAt \in WorkEnds

VARIABLES ops,          \* sponsored_operations, by id
          receipt,      \* what the EntryPoint did with each operation
          sent,         \* operations the bundler holds
          tab,          \* submissions under way
          verifying     \* operations with a verify request past "confirmed"

opVars == <<ops, receipt, sent, tab, verifying>>
spVars == <<allVars, opVars>>

Kinds == {"fund", "settle", "refund"}

NoReceipt == [result |-> "none", at |-> 0, event |-> Never]

OpsInit ==
    /\ ClaimInit
    /\ mode = "sponsored"
    /\ ops = <<>>
    /\ receipt = <<>>
    /\ sent = {}
    /\ tab = [t \in Tabs |-> Idle]
    /\ verifying = {}

-----------------------------------------------------------------------------
(* The chain.  Accounts the server keeps act through operations alone;     *)
(* anyone may still settle with a voucher, or refund.                      *)

OutsideCall ==
    /\ \/ \E s \in signed : settle(s)
       \/ \E i \in Registered : refund(i)
    /\ via' = Append(via, "direct")
    /\ UNCHANGED <<backend, opVars>>

Block == NextBlock /\ UNCHANGED opVars

OpsOf(o) == {n \in DOMAIN ops : ops[n].owner = o}

Executed(o) == {n \in OpsOf(o) : receipt[n].result # "none"}

\* The call of the operation's batch (an exact approval goes before fund).
Call(op) ==
    CASE op.kind = "fund"   -> fund(op.owner, op.bounty[2], Reward[op.bounty].amount,
                                    Reward[op.bounty].workEndsAt)
      [] op.kind = "settle" -> settle(op.auth)
      [] op.kind = "refund" -> refund(op.bounty)

\* The EntryPoint takes an operation with the account's nonce, once; the
\* inner call succeeds or reverts, for want of gas if for nothing else.
Execute(n) ==
    /\ n \in sent
    /\ receipt[n] = NoReceipt
    /\ ops[n].nonce = Cardinality(Executed(ops[n].owner))
    /\ \/ /\ Call(ops[n])
          /\ via' = Append(via, "other")
          /\ receipt' = [receipt EXCEPT ![n] =
                 [result |-> "success", at |-> now, event |-> Len(log) + 1]]
          /\ UNCHANGED backend
       \/ /\ receipt' = [receipt EXCEPT ![n] =
                 [result |-> "reverted", at |-> now, event |-> Never]]
          /\ UNCHANGED allVars
    /\ sent' = sent \ {n}
    /\ UNCHANGED <<ops, tab, verifying>>

\* The bundler forgets an operation.
Drop(n) ==
    /\ n \in sent
    /\ sent' = sent \ {n}
    /\ UNCHANGED <<allVars, ops, receipt, tab, verifying>>

-----------------------------------------------------------------------------
(* POST /bounties/{id}: under the lock of the wallet's key row.            *)

Unfinished == {"signed", "submitted", "confirmed"}

Pending(o) == {n \in OpsOf(o) : ops[n].status \in Unfinished}

\* Fault: the key row is not locked; only the unique index is left.
NoKeyLock(o) == TRUE

\* select ... from managed_wallet_keys ... for update
KeyFree(o) == \A t \in Tabs : tab[t] # Idle => tab[t].owner # o

\* getNonce at the latest block.
account_nonce(o) == Cardinality({n \in Executed(o) : receipt[n].at <= latest})

\* What the action needs of the identity and of the chain's latest state.
\* (fund looks at the payer's token balance too, and so does the token itself
\* when the operation runs: without the early look only more is submitted.)
Allowed(o, i, kind) ==
    CASE kind = "fund"   -> o = i[1] /\ bounty_state(i) = "Absent"
      [] kind = "refund" -> o = i[1] /\ bounty_state(i) = "Funded" /\ latest >= claimUntil(i)
      [] kind = "settle" -> o = SmartAccount /\ allocated[i]

\* A pending operation is returned again or refused, either way unchanged.
\* The authorization was handed out by the voucher handler just before, but
\* the lock and the gateway may have made it wait for any time since.
Submit(t, o, i, kind) ==
    /\ tab[t] = Idle
    /\ now > 0
    /\ KeyFree(o)
    /\ Pending(o) = {}
    /\ Allowed(o, i, kind)
    /\ \E auth \in IF kind = "settle" THEN {s \in DOMAIN voucher : s.bountyId = i}
                                      ELSE {NoOne} :
           tab' = [tab EXCEPT ![t] = [owner |-> o, bounty |-> i, kind |-> kind, auth |-> auth,
                                      nonce |-> account_nonce(o)]]
    /\ UNCHANGED <<allVars, ops, receipt, sent, verifying>>

\* Gas is estimated and sponsored, then the exact operation is committed;
\* sponsored_one_pending_per_wallet refuses a second one.
signed_operation(t) ==
    /\ tab[t] # Idle
    /\ Len(ops) < MaxOps
    /\ Pending(tab[t].owner) = {}
    /\ ops' = Append(ops, [owner |-> tab[t].owner, bounty |-> tab[t].bounty,
                           kind |-> tab[t].kind, auth |-> tab[t].auth,
                           nonce |-> tab[t].nonce, status |-> "signed"])
    /\ receipt' = Append(receipt, NoReceipt)
    /\ tab' = [tab EXCEPT ![t] = Idle]
    /\ UNCHANGED <<allVars, sent, verifying>>

\* The gateway, the sponsor or the database refuses, or the process stops.
SubmitFails(t) ==
    /\ tab[t] # Idle
    /\ tab' = [tab EXCEPT ![t] = Idle]
    /\ UNCHANGED <<allVars, ops, receipt, sent, verifying>>

-----------------------------------------------------------------------------
(* POST /operations/{id}/verify: send it, or find out what became of it.   *)

WithStatus(n, status) == [ops EXCEPT ![n].status = status]

\* Fault: "confirmed" is one of the states in which verify returns at once.
Underway == {"signed", "submitted"}

\* Fault: only a failed operation makes verify return at once.
NotFailed == Unfinished \cup {"verified"}

\* Not yet verified or failed; a confirmed one is taken up again.
Verifiable == Unfinished

\* The verifiers believe the transaction of a confirmed or verified operation.
Believe(n) ==
    \/ ConfirmOperation(receipt[n].event)
    \/ receipt[n].event \in confirmed /\ UNCHANGED allVars

\* Fault: they ask for its hash alone, which a second send leaves on the row.
StillBelieved(n) == UNCHANGED allVars

\* They no longer do once it is "submitted" again.
Doubt(n) ==
    \/ ResendOperation(receipt[n].event)
    \/ receipt[n].event \notin confirmed /\ UNCHANGED allVars

\* The gateway shows no receipt: the stored operation goes out (again) and is
\* "submitted", one that was confirmed before too.  What was sent stays sent
\* when the commit fails.
Send(n) ==
    /\ ops[n].status \in Verifiable
    /\ sent' = sent \cup {n}
    /\ \/ ops' = WithStatus(n, "submitted") /\ Doubt(n)
       \/ UNCHANGED <<ops, allVars>>
    /\ UNCHANGED <<receipt, tab, verifying>>

Mined(n) == receipt[n].result # "none" /\ latest >= receipt[n].at + 1

\* operation_segment: the flag of the operation's own event.
Outcome(n) == IF receipt[n].result = "success" THEN "confirmed" ELSE "failed"

\* Two canonical confirmations; the outcome is committed on its own, and the
\* request goes on only with a success, beside others that did before.
Confirm(n) ==
    /\ ops[n].status \in Verifiable
    /\ Mined(n)
    /\ ops' = WithStatus(n, Outcome(n))
    /\ IF Outcome(n) = "confirmed"
       THEN verifying' = verifying \cup {n} /\ Believe(n)
       ELSE UNCHANGED <<allVars, verifying>>
    /\ UNCHANGED <<receipt, sent, tab>>

\* Fault: "verified" is written whatever the verifier answered.
AnyAnswer(n) == TRUE

\* The verifier finds it recorded by this very transaction, or settled.
EffectRecorded(n) ==
    LET i == ops[n].bounty
    IN  CASE ops[n].kind = "fund"   -> fundingSeen[i] = receipt[n].event
          [] ops[n].kind = "settle" -> settledSeen[i] # Never
          [] ops[n].kind = "refund" -> refundSeen[i] = receipt[n].event

\* Fault: the event is recorded and the voucher it settles is forgotten.
RecordEventOnly(n) ==
    LET i == ops[n].bounty
        k == receipt[n].event
    IN  /\ n \in verifying
        /\ ~EffectRecorded(n)
        /\ IF log[k].event = "BountySettled"
           THEN /\ settledSeen' = [settledSeen EXCEPT ![i] = k]
                /\ UNCHANGED <<vars, via, mode, confirmed, fundingSeen, refundSeen, claims, req>>
           ELSE Verify(i, k)
        /\ UNCHANGED opVars

\* The verifier of escrow.py, in a transaction of its own.
RecordEffect(n) ==
    /\ n \in verifying
    /\ ~EffectRecorded(n)
    /\ Verify(ops[n].bounty, receipt[n].event)
    /\ UNCHANGED opVars

\* update ... set status='verified', whatever it is by now.
Finish(n) ==
    /\ n \in verifying
    /\ EffectRecorded(n)
    /\ ops' = WithStatus(n, "verified")
    /\ Believe(n)
    /\ verifying' = verifying \ {n}
    /\ UNCHANGED <<receipt, sent, tab>>

\* The request dies between two of its commits, or the verifier refuses.
VerifyStops(n) ==
    /\ n \in verifying
    /\ verifying' = verifying \ {n}
    /\ UNCHANGED <<allVars, ops, receipt, sent, tab>>

-----------------------------------------------------------------------------
\* Another way to the same records: a browser's hash, or recovery.
Recovery ==
    /\ \E i \in Registered, k \in 1..Len(log) : Verify(i, k)
    /\ UNCHANGED opVars

Rewarding ==
    /\ \/ \E i \in Registered, t \in Merges : reserve_cash_allocation(i, t)
       \/ \E r \in Requests : VoucherRequest(r)
    /\ UNCHANGED opVars

submit(t) ==
    \/ \E o \in Owners, i \in Registered, k \in Kinds : Submit(t, o, i, k)
    \/ signed_operation(t)
    \/ SubmitFails(t)

verify(n) == Send(n) \/ Confirm(n) \/ RecordEffect(n) \/ Finish(n) \/ VerifyStops(n)

OpsNext ==
    \/ OutsideCall
    \/ Block
    \/ Recovery
    \/ Rewarding
    \/ \E t \in Tabs : submit(t)
    \/ \E n \in DOMAIN ops : Execute(n) \/ Drop(n) \/ verify(n)

OpsSpec == OpsInit /\ [][OpsNext]_spVars

\* The user keeps pressing verify, and not every request dies at the same
\* point.  Nothing is asked of the bundler or of the blocks.
Fairness ==
    \A n \in 1..MaxOps :
        /\ WF_spVars(n \in DOMAIN ops /\ Confirm(n))
        /\ SF_spVars(n \in DOMAIN ops /\ RecordEffect(n))
        /\ SF_spVars(n \in DOMAIN ops /\ Finish(n))

FairOpsSpec == OpsSpec /\ Fairness

-----------------------------------------------------------------------------
(* Properties.                                                             *)

Statuses == {"signed", "submitted", "confirmed", "failed", "verified"}

Operation(op) ==
    /\ op.owner \in Owners /\ op.bounty \in Registered
    /\ op.kind \in Kinds /\ op.nonce \in Nat /\ op.status \in Statuses
    /\ op.kind = "settle" => op.auth \in signed /\ op.auth.bountyId = op.bounty

Receipts == [result : {"none", "success", "reverted"}, at : 0..now, event : 0..Len(log)]

\* What holds of each variable's values; the events that count as sponsored
\* are those of the operations in the statuses the verifiers ask for.
OpsTypeOK ==
    /\ \A n \in DOMAIN ops : Operation(ops[n])
    /\ receipt \in Seq(Receipts)
    /\ Len(ops) = Len(receipt)
    /\ sent \subseteq DOMAIN ops
    /\ verifying \subseteq {n \in DOMAIN ops : receipt[n].result = "success"}
    /\ confirmed = {receipt[n].event :
                       n \in {m \in DOMAIN ops : ops[m].status \in {"confirmed", "verified"}}}

\* A wallet never has two signed operations that could still run, and the one
\* it has carries the account's current nonce: whatever two tabs, the gateway
\* and the chain's delay do, it is neither overtaken nor wedged for ever.
OneRunnable ==
    \A n \in DOMAIN ops : receipt[n].result = "none" =>
        /\ ops[n].status \in {"signed", "submitted"}
        /\ ops[n].nonce = Cardinality(Executed(ops[n].owner))
        /\ \A m \in OpsOf(ops[n].owner) : receipt[m].result = "none" => m = n

\* What a user is told of an operation is what the chain did with it: failed
\* when its own call reverted, verified when its bounty shows the effect.
StatusTrue ==
    \A n \in DOMAIN ops :
        LET i == ops[n].bounty
        IN  /\ ops[n].status = "failed" => receipt[n].result = "reverted"
            /\ ops[n].status \in {"confirmed", "verified"} =>
                   /\ receipt[n].result = "success"
                   /\ log[receipt[n].event].id = i
            /\ ops[n].status = "verified" =>
                   CASE ops[n].kind = "fund"   -> fundingSeen[i] = receipt[n].event
                     [] ops[n].kind = "settle" -> settledSeen[i] = receipt[n].event
                     [] ops[n].kind = "refund" -> refundSeen[i] = receipt[n].event

\* Operations, whatever becomes of them, do to the chain, the records and the
\* vouchers nothing that transactions and requests could not do: what holds
\* of EscrowClaims holds of a deployment that signs for its users.
ActsAsClaims == ClaimSpec

\* An operation that has ended stays as it is: no other request that verifies
\* it, sends it again or dies half way takes the answer back.
EndedIsFinal ==
    [][\A n \in DOMAIN ops :
           ops[n].status \in {"verified", "failed"} => ops'[n] = ops[n]]_spVars

\* A mined operation does not block its wallet for ever: it is verified or
\* failed in the end, though requests die between their commits and others
\* may have recorded the effect first.
Ended(n) == n \in DOMAIN ops /\ ops[n].status \in {"verified", "failed"}

OperationsEnd ==
    \A n \in 1..MaxOps : (n \in DOMAIN ops /\ Mined(n)) ~> Ended(n)
=============================================================================
