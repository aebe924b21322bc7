---------------------------- MODULE EscrowClaims ----------------------------
(***************************************************************************)
(* The backend beside the escrow contract: it records what the chain has   *)
(* done (funding, settlement, refund), and it signs the vouchers that let  *)
(* a contributor be paid (routes/escrow.py, escrow_chain.py and the escrow *)
(* tables of migration 0017).  The contract is EscrowContract's; requests  *)
(* read it block by block, and other requests and the chain move between   *)
(* two reads of one request.                                               *)
(***************************************************************************)
EXTENDS EscrowContract

CONSTANTS Reward,       \* escrow_reward_terms: bounty id -> amount, workEndsAt
          Wallet,       \* wallets.address of the contributor
          SmartAccount, \* managed_smart_accounts.address of the contributor
          Requests,     \* concurrent voucher requests
          VoucherLife,  \* fifteen minutes
          Margin,       \* the 30 seconds a new voucher needs
          Merges,       \* times a qualifying pull request may be merged at
          Modes,        \* execution modes the service is deployed with
          Vias          \* how a transaction reaches the contract

Registered == DOMAIN Reward

NoOne == "none"         \* SQL null where an address could be
Never == 0              \* SQL null where a transaction could be

ASSUME ClaimConstants ==
    /\ Registered \subseteq BountyIds
    /\ \A i \in Registered : Reward[i] \in [amount : Nat \ {0}, workEndsAt : Nat]
    /\ {Wallet, SmartAccount} \subseteq Accounts
    /\ VoucherLife \in Nat \ {0}
    /\ Margin \in Nat
    /\ Merges \subseteq Nat
    /\ Modes \subseteq {"direct", "sponsored"}
    /\ Vias \subseteq {"direct", "other"}
    /\ NoOne \notin Accounts

VARIABLES mode,         \* settings.escrow_execution_mode
          via,          \* how each event of log came about
          confirmed,    \* events whose sponsored operation is confirmed
          fundingSeen,  \* escrow_funding_events: the event recorded
          settledSeen,  \* escrow_chain_events, BountySettled
          refundSeen,   \* escrow_chain_events, BountyRefunded
          allocated,    \* escrow_allocations
          binding,      \* escrow_recipient_bindings
          voucher,      \* escrow_vouchers: signed settlement -> status
          req           \* the voucher requests under way

evidence == <<fundingSeen, settledSeen, refundSeen>>
claims   == <<allocated, binding, voucher>>
backend  == <<mode, confirmed, evidence, claims, req>>
allVars  == <<vars, via, backend>>

Idle == [pc |-> "idle"]

ClaimInit ==
    /\ Init
    /\ mode \in Modes
    /\ via = <<>>
    /\ confirmed = {}
    /\ fundingSeen = [i \in Registered |-> Never]
    /\ settledSeen = [i \in Registered |-> Never]
    /\ refundSeen = [i \in Registered |-> Never]
    /\ allocated = [i \in Registered |-> FALSE]
    /\ binding = [i \in Registered |-> NoOne]
    /\ voucher = <<>>
    /\ req = [r \in Requests |-> Idle]

claimUntil(i) == Reward[i].workEndsAt + Grace

-----------------------------------------------------------------------------
(* The chain moves on its own: transactions of the payer, the contributor  *)
(* or anyone, called directly or through an account or relayer contract.   *)
(* The token lets every transfer through: no TokenChange, no Donate.       *)

Fund(i, m, t) ==
    /\ fund(i[1], i[2], m, t)
    /\ \E v \in Vias : via' = Append(via, v)
    /\ UNCHANGED backend

Settle(s) ==
    /\ settle(s)
    /\ \E v \in Vias : via' = Append(via, v)
    /\ UNCHANGED backend

Refund(i) ==
    /\ refund(i)
    /\ \E v \in Vias : via' = Append(via, v)
    /\ UNCHANGED backend

NextBlock == Tick /\ UNCHANGED <<via, backend>>

Chain == \/ \E i \in Registered, m \in Amounts, t \in WorkEnds : Fund(i, m, t)
         \/ \E s \in signed : Settle(s)
         \/ \E i \in Registered : Refund(i)
         \/ NextBlock

-----------------------------------------------------------------------------
(* What a request can read.  The block being built is not visible: latest  *)
(* is the block before it.  A block per unit of time, so that a timestamp  *)
(* is also a block number.                                                 *)

latest == now - 1

Sealed(k) == k \in 1..Len(log) /\ log[k].at <= latest

\* The state of a bounty at the latest block, from the events up to it.
bounty_state(i) ==
    IF \E k \in 1..Len(log) : Sealed(k) /\ log[k].id = i /\ Closing(log[k])
    THEN "Closed"
    ELSE IF \E k \in 1..Len(log) : Sealed(k) /\ log[k].id = i THEN "Funded" ELSE "Absent"

\* Two canonical confirmations: a block on top of the transaction's.
transaction_evidence(k) == k \in 1..Len(log) /\ latest >= log[k].at + 1

\* Fault: only the shape of the event is looked at, not its terms.
AnyFunding(i, k) ==
    log[k].event = "BountyFunded" /\ log[k].id = i

\* The funding receipt carries the frozen terms (the event's times are the
\* bounty's, which never change).
verify_funding_receipt(i, k) ==
    /\ log[k].event = "BountyFunded"
    /\ log[k].id = i
    /\ log[k].amount = Reward[i].amount
    /\ bounties[i].workEndsAt = Reward[i].workEndsAt
    /\ bounties[i].claimUntil = claimUntil(i)

\* tx.to is the contract, or in sponsored mode a confirmed operation's hash.
CalledEscrow(k) == via[k] = "direct" \/ (mode = "sponsored" /\ k \in confirmed)

\* sponsored.verify commits this before it verifies the business effect.
ConfirmOperation(k) ==
    /\ mode = "sponsored"
    /\ transaction_evidence(k)
    /\ via[k] = "other"
    /\ k \notin confirmed
    /\ confirmed' = confirmed \cup {k}
    /\ UNCHANGED <<vars, via, mode, evidence, claims, req>>

\* A later verify for which the gateway shows no receipt sends the operation
\* again and sets it back to "submitted": its hash is no evidence for a while.
\* (A verified operation stays so; which those are is not known here.)
ResendOperation(k) ==
    /\ mode = "sponsored"
    /\ k \in confirmed
    /\ confirmed' = confirmed \ {k}
    /\ UNCHANGED <<vars, via, mode, evidence, claims, req>>

\* A restart with the other setting; requests of the old process still end.
Redeploy ==
    /\ mode' \in Modes \ {mode}
    /\ UNCHANGED <<vars, via, confirmed, evidence, claims, req>>

-----------------------------------------------------------------------------
(* Recording what the chain has done.                                      *)

FundingProof(i, k) ==
    transaction_evidence(k) /\ CalledEscrow(k) /\ verify_funding_receipt(i, k)

verify_funding(i, k) ==
    /\ fundingSeen[i] = Never
    /\ FundingProof(i, k)
    /\ fundingSeen' = [fundingSeen EXCEPT ![i] = k]
    /\ UNCHANGED <<vars, via, mode, confirmed, settledSeen, refundSeen, claims, req>>

\* Some voucher ever issued for the bounty is the one that was mined.
verify_settlement_receipt(i, k) ==
    /\ log[k].event = "BountySettled"
    /\ log[k].id = i
    /\ log[k].party = binding[i]
    /\ log[k].amount = Reward[i].amount
    /\ log[k].digest \in DOMAIN voucher

SettlementProof(i, k) ==
    /\ transaction_evidence(k)
    /\ mode = "direct" => via[k] = "direct"
    /\ verify_settlement_receipt(i, k)

verify_settlement(i, k) ==
    /\ binding[i] # NoOne
    /\ settledSeen[i] = Never
    /\ SettlementProof(i, k)
    /\ settledSeen' = [settledSeen EXCEPT ![i] = k]
    /\ voucher' = [voucher EXCEPT ![log[k].digest] = "used"]
    /\ UNCHANGED <<vars, via, mode, confirmed, fundingSeen, refundSeen, allocated, binding, req>>

\* Fault: a refund of whatever amount counts.
AnyRefund(i, k) ==
    log[k].event = "BountyRefunded" /\ log[k].id = i

\* The refund of the published amount.  (Its payer is part of the id, and the
\* contract's transfer moves exactly the amount of the event.)
verify_refund_receipt(i, k) ==
    /\ log[k].event = "BountyRefunded"
    /\ log[k].id = i
    /\ log[k].amount = Reward[i].amount

RefundProof(i, k) ==
    transaction_evidence(k) /\ CalledEscrow(k) /\ verify_refund_receipt(i, k)

\* Recording it again changes nothing.
verify_refund(i, k) ==
    /\ RefundProof(i, k)
    /\ refundSeen' = [refundSeen EXCEPT ![i] = k]
    /\ UNCHANGED <<vars, via, mode, confirmed, fundingSeen, settledSeen, claims, req>>

\* A webhook found the merge that closes the funded issue, within the work
\* window: services/escrow_rewards.py.  It may come late, not early.
reserve_cash_allocation(i, mergedAt) ==
    /\ ~allocated[i]
    /\ fundingSeen[i] # Never
    /\ mergedAt <= now
    /\ mergedAt >= bounties[i].fundedAt
    /\ mergedAt < Reward[i].workEndsAt
    /\ allocated' = [allocated EXCEPT ![i] = TRUE]
    /\ UNCHANGED <<vars, via, mode, confirmed, evidence, binding, voucher, req>>

-----------------------------------------------------------------------------
(* A voucher request: it reads its row, waits for the lock on it, reads the *)
(* latest block, then the bounty's state, then signs and commits.          *)

Linked == IF mode = "sponsored" THEN SmartAccount ELSE Wallet

\* The statement's snapshot, taken before the row lock is granted.
VoucherBegin(r, i) ==
    /\ req[r] = Idle
    /\ allocated[i]
    /\ fundingSeen[i] # Never
    /\ req' = [req EXCEPT ![r] =
           [pc |-> "waiting", bounty |-> i,
            recipient |-> IF binding[i] # NoOne THEN binding[i] ELSE Linked]]
    /\ UNCHANGED <<vars, via, mode, confirmed, evidence, claims>>

\* Fault: select without "for update of a".
NoLock(i) == TRUE

\* for update of a: one request at a time holds an allocation's row.
LockFree(i) ==
    \A r \in Requests : req[r].pc \in {"locked", "checked"} => req[r].bounty # i

Live(i) == {s \in DOMAIN voucher : s.bountyId = i /\ voucher[s] = "live"}

\* The lock is granted; the latest block's timestamp is "now" to the request.
\* A live voucher that has time left is returned again; too late is refused.
VoucherLock(r) ==
    LET i == req[r].bounty
    IN  /\ req[r].pc = "waiting"
        /\ LockFree(i)
        /\ now > 0
        /\ IF \/ \E s \in Live(i) : s.deadline > latest
              \/ latest >= claimUntil(i)
              \/ claimUntil(i) - latest < Margin
           THEN req' = [req EXCEPT ![r] = Idle]
           ELSE req' = [req EXCEPT ![r] = [pc |-> "locked", bounty |-> i,
                                           recipient |-> req[r].recipient, at |-> latest]]
        /\ UNCHANGED <<vars, via, mode, confirmed, evidence, claims>>

Earlier(a, b) == IF a < b THEN a ELSE b

typed_data(i, recipient, at) ==
    [bountyId |-> i, recipient |-> recipient, token |-> Token,
     amount |-> Reward[i].amount, nonce |-> 0,
     deadline |-> Earlier(at + VoucherLife, claimUntil(i))]

\* Fault: the binding another request made meanwhile is not compared.
AnyBinding(i, recipient) == TRUE

\* insert ... on conflict do nothing, then read back: else "This reward is
\* permanently bound to another wallet".
BoundTo(i, recipient) == binding[i] \in {NoOne, recipient}

\* Fault: the voucher is issued on the block's timestamp alone.
AnyChainState(i) == TRUE

\* The live contract state matches this reward.
OnChain(i) ==
    /\ bounty_state(i) = "Funded"
    /\ bounties[i].amount = Reward[i].amount
    /\ bounties[i].workEndsAt = Reward[i].workEndsAt
    /\ bounties[i].claimUntil = claimUntil(i)

\* The answer of the node, which is already old when it is used.
VoucherCheck(r) ==
    /\ req[r].pc = "locked"
    /\ OnChain(req[r].bounty)
    /\ req' = [req EXCEPT ![r].pc = "checked"]
    /\ UNCHANGED <<vars, via, mode, confirmed, evidence, claims>>

\* Fault: one row per allocation, the new voucher in the place of the old.
IssueReplacing(i, s) ==
    [v \in {u \in DOMAIN voucher : u.bountyId # i} \cup {s} |->
        IF v = s THEN "live" ELSE voucher[v]]

\* Live vouchers of the allocation expire, the new one is inserted.
Issue(i, s) ==
    [v \in DOMAIN voucher \cup {s} |->
        IF v = s THEN "live" ELSE IF v \in Live(i) THEN "expired" ELSE voucher[v]]

\* The recipient is bound and the voucher signed (its digest is unique).
VoucherSign(r) ==
    LET i == req[r].bounty
        s == typed_data(i, req[r].recipient, req[r].at)
    IN  /\ req[r].pc = "checked"
        /\ BoundTo(i, req[r].recipient)
        /\ s \notin signed
        /\ binding' = [binding EXCEPT ![i] = req[r].recipient]
        /\ voucher' = Issue(i, s)
        /\ signed' = signed \cup {s}
        /\ req' = [req EXCEPT ![r] = Idle]
        /\ UNCHANGED <<now, contract, token, via, mode, confirmed, evidence, allocated>>

\* 409, an error or a lost connection: the transaction is rolled back.
VoucherRefuse(r) ==
    /\ req[r].pc # "idle"
    /\ req' = [req EXCEPT ![r] = Idle]
    /\ UNCHANGED <<vars, via, mode, confirmed, evidence, claims>>

-----------------------------------------------------------------------------
Verify(i, k) == verify_funding(i, k) \/ verify_settlement(i, k) \/ verify_refund(i, k)

VoucherRequest(r) ==
    \/ \E i \in Registered : VoucherBegin(r, i)
    \/ VoucherLock(r)
    \/ VoucherCheck(r)
    \/ VoucherSign(r)
    \/ VoucherRefuse(r)

ClaimNext ==
    \/ Chain
    \/ Redeploy
    \/ \E k \in 1..Len(log) : ConfirmOperation(k) \/ ResendOperation(k)
    \/ \E i \in Registered, k \in 1..Len(log) : Verify(i, k)
    \/ \E i \in Registered, t \in Merges : reserve_cash_allocation(i, t)
    \/ \E r \in Requests : VoucherRequest(r)

ClaimSpec == ClaimInit /\ [][ClaimNext]_allVars

-----------------------------------------------------------------------------
(* Properties.                                                             *)

\* What holds of each variable's values; every authorization in circulation
\* is on record, so that its settlement can be recognised.
ClaimTypeOK ==
    /\ TypeOK
    /\ mode \in Modes
    /\ via \in Seq(Vias)
    /\ Len(via) = Len(log)
    /\ confirmed \subseteq 1..Len(log)
    /\ fundingSeen \in [Registered -> 0..Len(log)]
    /\ settledSeen \in [Registered -> 0..Len(log)]
    /\ refundSeen \in [Registered -> 0..Len(log)]
    /\ allocated \in [Registered -> BOOLEAN]
    /\ binding \in [Registered -> Accounts \cup {NoOne}]
    /\ DOMAIN voucher = signed
    /\ \A s \in signed : voucher[s] \in {"live", "expired", "used"}
    /\ \A r \in Requests : req[r].pc \in {"idle", "waiting", "locked", "checked"}

\* At any moment the contract would accept at most one authorization for a
\* bounty: renewals never overlap, whoever asks how often and however long a
\* request sits between its reads of the chain.
OneUsable ==
    \A s, u \in signed :
        /\ s.bountyId = u.bountyId
        /\ bounties[s.bountyId].state = "Funded"
        /\ now < s.deadline
        /\ now < u.deadline
        => s = u

\* The recipient is frozen at the first voucher: each later one, whatever
\* wallet the settings of the moment point at, pays the same address, and so
\* does the contract.
PaysBound ==
    /\ \A s \in signed : s.recipient = binding[s.bountyId]
    /\ \A k \in 1..Len(log) :
           log[k].event = "BountySettled" => log[k].party = binding[log[k].id]

\* What the site shows is what the chain did with the published reward, though
\* the payer may have funded the same reference with other terms: funding on
\* record is of the published amount and deadline, and a bounty shown paid or
\* refunded is so in the contract, for that amount.
EvidenceTrue ==
    \A i \in Registered :
        /\ \/ fundingSeen[i] = Never /\ settledSeen[i] = Never /\ refundSeen[i] = Never
           \/ bounties[i].amount = Reward[i].amount
        /\ fundingSeen[i] # Never => /\ bounties[i].workEndsAt = Reward[i].workEndsAt
                                     /\ bounties[i].state # "Absent"
        /\ settledSeen[i] # Never => bounties[i].state = "Settled"
        /\ refundSeen[i] # Never => bounties[i].state = "Refunded"

\* A voucher counts as used exactly when its own settlement is recorded; then
\* none is left live to be handed out again.
VouchersAccounted ==
    \A i \in Registered :
        LET used == {s \in DOMAIN voucher : s.bountyId = i /\ voucher[s] = "used"}
        IN  IF settledSeen[i] = Never THEN used = {}
            ELSE used = {log[settledSeen[i]].digest} /\ Live(i) = {}
=============================================================================
