--------------------------- MODULE EscrowContract ---------------------------
(***************************************************************************)
(* GitBountyEscrow.sol: the contract that keeps the cash of escrowed       *)
(* bounties.  A transaction is one action: it runs to its end or reverts,  *)
(* and nonReentrant closes the one gap there is, the call to the token.    *)
(* The token and the backend's signing key are the contract's environment. *)
(***************************************************************************)
EXTENDS Naturals, Sequences, FiniteSets, Functions

CONSTANTS Accounts,     \* addresses that call, pay and are paid
          ZeroAddress,  \* address(0)
          Tokens,       \* token addresses a settlement may name
          Token,        \* the immutable token of this contract
          Refs,         \* reference ids, bytes32
          ZeroRef,      \* bytes32(0)
          Amounts,      \* amounts a caller may ask for
          WorkEnds,     \* work deadlines a caller may ask for
          Offers,       \* settlements the authorization signer may sign
          Grace,        \* CLAIM_GRACE
          MaxUint,      \* type(uint256).max
          Funds,        \* what each account holds at first
          MaxTime,      \* bound: the last block timestamp
          MaxSigned     \* bound: signatures in circulation

Escrow == "escrow"      \* address(this)

BountyIds == Accounts \X (Refs \ {ZeroRef})

Settlements == [bountyId : BountyIds, recipient : Accounts \cup {ZeroAddress},
                token : Tokens, amount : Nat, nonce : Nat, deadline : Nat]

ASSUME EscrowConstants ==
    /\ ZeroAddress \notin Accounts
    /\ Escrow \notin Accounts \cup {ZeroAddress}
    /\ Token \in Tokens
    /\ Amounts \subseteq Nat
    /\ WorkEnds \subseteq Nat
    /\ Offers \subseteq Settlements
    /\ Grace \in Nat
    /\ MaxUint \in Nat
    /\ Grace <= MaxUint
    /\ Funds \in Nat
    /\ MaxTime \in Nat
    /\ MaxSigned \in Nat

VARIABLES now,              \* block.timestamp of the block being built
          bounties,         \* mapping(bytes32 => Bounty)
          totalLiabilities, \* uint256
          balance,          \* the token's ledger
          fee, blocked,     \* how the token treats transfers at the moment
          signed,           \* settlements that carry a valid signature
          log               \* the events emitted, in order

contract == <<bounties, totalLiabilities, log>>
token    == <<balance, fee, blocked>>
vars     == <<now, contract, token, signed>>

State == {"Absent", "Funded", "Settled", "Refunded"}

Absent == [payer |-> ZeroAddress, amount |-> 0, fundedAt |-> 0, workEndsAt |-> 0,
           claimUntil |-> 0, state |-> "Absent", recipient |-> ZeroAddress]

Init == /\ now = 0
        /\ bounties = [i \in BountyIds |-> Absent]
        /\ totalLiabilities = 0
        /\ log = <<>>
        /\ balance = [a \in Accounts \cup {Escrow} |-> IF a = Escrow THEN 0 ELSE Funds]
        /\ fee = 0
        /\ blocked = FALSE
        /\ signed = {}

-----------------------------------------------------------------------------
(* The token: an ERC-20 whose transfers may be stopped or taxed.           *)

\* What of an amount arrives: the token keeps its fee.
Arriving(amount) == amount - (IF fee <= amount THEN fee ELSE amount)

\* Fault: a token that lets an account go below zero.
TransferOverdraft(from, to, amount) ==
    /\ ~blocked
    /\ balance' = [balance EXCEPT ![from] = @ - amount,
                                  ![to] = @ + Arriving(amount)]
    /\ UNCHANGED <<fee, blocked>>

\* A transfer: it reverts when stopped or when the sender has too little.
Transfer(from, to, amount) ==
    /\ ~blocked
    /\ balance[from] >= amount
    /\ balance' = [balance EXCEPT ![from] = @ - amount,
                                  ![to] = @ + Arriving(amount)]
    /\ UNCHANGED <<fee, blocked>>

\* Anyone may send tokens to the contract's address without calling it.
Donate(from, amount) ==
    /\ Transfer(from, Escrow, amount)
    /\ UNCHANGED <<now, contract, signed>>

\* The token's operator stops or resumes transfers, or sets a fee.
TokenChange(f, b) ==
    /\ <<f, b>> # <<fee, blocked>>
    /\ fee' = f
    /\ blocked' = b
    /\ UNCHANGED <<now, contract, balance, signed>>

-----------------------------------------------------------------------------
(* The contract's transactions; a guard that fails is a revert.            *)

\* An id is the hash of the payer and the reference (and of the chain and
\* the contract, which are fixed here).
bountyIdFor(payer, ref) == <<payer, ref>>

\* The terms that are not InvalidFundingTerms; the last keeps the checked sum
\* workEndsAt + CLAIM_GRACE within uint256.
FundingTerms(ref, amount, workEndsAt) ==
    /\ ref # ZeroRef
    /\ amount # 0
    /\ workEndsAt > now
    /\ workEndsAt <= MaxUint - Grace

\* Fault: whatever arrives counts as the whole amount.
AnyAmount(amount) == TRUE

\* The transfer in changes the balance by exactly the amount, or it reverts.
ExactAmount(amount) == Arriving(amount) = amount

\* Fault: funding a reference again starts its bounty anew.
AnyState(id) == TRUE

\* Else BountyAlreadyExists.
Unused(id) == bounties[id].state = "Absent"

fund(sender, ref, amount, workEndsAt) ==
    LET id == bountyIdFor(sender, ref)
        claimUntil == workEndsAt + Grace
    IN  /\ FundingTerms(ref, amount, workEndsAt)
        /\ Unused(id)
        /\ bounties' = [bounties EXCEPT ![id] =
               [payer |-> sender, amount |-> amount, fundedAt |-> now,
                workEndsAt |-> workEndsAt, claimUntil |-> claimUntil,
                state |-> "Funded", recipient |-> ZeroAddress]]
        /\ totalLiabilities + amount <= MaxUint
        /\ totalLiabilities' = totalLiabilities + amount
        /\ Transfer(sender, Escrow, amount)
        /\ ExactAmount(amount)
        /\ log' = Append(log, [event |-> "BountyFunded", id |-> id, party |-> sender,
                               amount |-> amount, at |-> now])
        /\ UNCHANGED <<now, signed>>

\* Fault: any bounty that was ever funded can be closed.
EverFunded(id) == bounties[id].state # "Absent"

\* Else BountyNotFunded.
Holding(id) == bounties[id].state = "Funded"

\* The settlement that is not InvalidSettlement for this bounty.
SettlementTerms(s, bounty) ==
    /\ s.recipient # ZeroAddress
    /\ s.token = Token
    /\ s.amount = bounty.amount
    /\ s.nonce = 0
    /\ s.deadline <= bounty.claimUntil

\* Fault: the settlement's own deadline is not looked at.
NoDeadline(s) == TRUE

\* Else ClaimWindowClosed.
ClaimOpen(s) == now < s.deadline

\* Fault: any signature will do.
AnySignature(s) == TRUE

\* The signature recovers to authorizationSigner, else InvalidAuthorization.
Authorized(s) == s \in signed

\* Fault: the refund opens when the work window closes, without the grace.
RefundAfterWork(bounty) == now >= bounty.workEndsAt

\* Fault: off by one at the boundary.
RefundLate(bounty) == now > bounty.claimUntil

\* Else RefundNotAvailable.
Refundable(bounty) == now >= bounty.claimUntil

\* A bounty keeps its terms when it is closed.
Closed(b, state, recipient) ==
    [payer |-> b.payer, amount |-> b.amount, fundedAt |-> b.fundedAt,
     workEndsAt |-> b.workEndsAt, claimUntil |-> b.claimUntil,
     state |-> state, recipient |-> recipient]

\* Fault: the liability of a closed bounty stays.
ReleaseNothing(id, state, recipient) ==
    /\ UNCHANGED totalLiabilities
    /\ bounties' = [bounties EXCEPT ![id] = Closed(bounties[id], state, recipient)]

\* Closing a bounty: totalLiabilities -= amount reverts rather than wrap.
Release(id, state, recipient) ==
    /\ totalLiabilities >= bounties[id].amount
    /\ totalLiabilities' = totalLiabilities - bounties[id].amount
    /\ bounties' = [bounties EXCEPT ![id] = Closed(bounties[id], state, recipient)]

\* Whoever sends it; only the signature of the authorization signer counts.
settle(s) ==
    LET bounty == bounties[s.bountyId]
    IN  /\ Holding(s.bountyId)
        /\ SettlementTerms(s, bounty)
        /\ ClaimOpen(s)
        /\ Authorized(s)
        /\ Release(s.bountyId, "Settled", s.recipient)
        /\ Transfer(Escrow, s.recipient, bounty.amount)
        /\ log' = Append(log, [event |-> "BountySettled", id |-> s.bountyId,
                               party |-> s.recipient, amount |-> bounty.amount,
                               at |-> now, digest |-> s])
        /\ UNCHANGED <<now, signed>>

refund(id) ==
    LET bounty == bounties[id]
    IN  /\ Holding(id)
        /\ Refundable(bounty)
        /\ Release(id, "Refunded", bounty.recipient)
        /\ Transfer(Escrow, bounty.payer, bounty.amount)
        /\ log' = Append(log, [event |-> "BountyRefunded", id |-> id, party |-> bounty.payer,
                               amount |-> bounty.amount, at |-> now])
        /\ UNCHANGED <<now, signed>>

-----------------------------------------------------------------------------
\* The key signs a settlement: a mistaken one too, the contract has to cope.
Sign(s) ==
    /\ s \notin signed
    /\ Cardinality(signed) < MaxSigned
    /\ signed' = signed \cup {s}
    /\ UNCHANGED <<now, contract, token>>

\* The next block has a later timestamp.
Tick == /\ now < MaxTime
        /\ now' = now + 1
        /\ UNCHANGED <<contract, token, signed>>

ContractStep ==
    \/ \E a \in Accounts, r \in Refs, m \in Amounts, t \in WorkEnds : fund(a, r, m, t)
    \/ \E s \in Offers : settle(s)
    \/ \E i \in BountyIds : refund(i)

Environment ==
    \/ \E a \in Accounts, m \in Amounts : Donate(a, m)
    \/ \E f \in 0..1, b \in BOOLEAN : TokenChange(f, b)
    \/ \E s \in Offers : Sign(s)
    \/ Tick

Next == ContractStep \/ Environment

Spec == Init /\ [][Next]_vars

-----------------------------------------------------------------------------
(* Properties.                                                             *)

Bounty == [payer : Accounts \cup {ZeroAddress}, amount : Nat, fundedAt : Nat,
           workEndsAt : Nat, claimUntil : Nat, state : State,
           recipient : Accounts \cup {ZeroAddress}]

Party == Accounts \cup {ZeroAddress}

Events == [event : {"BountyFunded", "BountyRefunded"}, id : BountyIds,
           party : Party, amount : Nat, at : Nat]
          \cup [event : {"BountySettled"}, id : BountyIds, party : Party,
                amount : Nat, at : Nat, digest : Settlements]

TypeOK ==
    /\ now \in Nat
    /\ bounties \in [BountyIds -> Bounty]
    /\ totalLiabilities \in Nat
    /\ balance \in [Accounts \cup {Escrow} -> Nat]
    /\ fee \in Nat
    /\ blocked \in BOOLEAN
    /\ signed \in SUBSET Settlements
    /\ log \in Seq(Events)

\* The contract holds at least what it owes, whatever the token charges and
\* whatever is sent to it uncalled: fund's balance check and totalLiabilities.
Solvent == balance[Escrow] >= totalLiabilities

Owing == {i \in BountyIds : bounties[i].state = "Funded"}

\* totalLiabilities is the sum of the funded bounties, so that closing one
\* can never underflow and a donation is never paid out.
LiabilitiesExact ==
    totalLiabilities = SumFunctionOnSet([i \in BountyIds |-> bounties[i].amount], Owing)

Closing(e) == e.event \in {"BountySettled", "BountyRefunded"}

\* The money of a bounty leaves once: no replayed authorization, no refund of
\* a settled bounty and no settlement of a refunded one.
LeavesOnce ==
    \A i, j \in 1..Len(log) :
        Closing(log[i]) /\ Closing(log[j]) /\ log[i].id = log[j].id => i = j

\* What left is what came in for that bounty before, to the one who may have
\* it: the signed recipient, or the payer of that very bounty.
LeavesAsItCame ==
    \A j \in 1..Len(log) : Closing(log[j]) =>
        \E i \in 1..(j - 1) :
            /\ log[i].event = "BountyFunded"
            /\ log[i].id = log[j].id
            /\ log[i].amount = log[j].amount
            /\ IF log[j].event = "BountyRefunded"
               THEN log[j].party = log[i].party
               ELSE log[j].digest \in signed /\ log[j].party = log[j].digest.recipient

\* Contributor and payer never race for the same second: a settlement is
\* mined before claimUntil, a refund at or after it.
WindowsDisjoint ==
    \A i \in 1..Len(log) :
        /\ log[i].event = "BountySettled" => log[i].at < bounties[log[i].id].claimUntil
        /\ log[i].event = "BountyRefunded" => log[i].at >= bounties[log[i].id].claimUntil

SameTerms(i) ==
    /\ bounties'[i].payer = bounties[i].payer
    /\ bounties'[i].amount = bounties[i].amount
    /\ bounties'[i].fundedAt = bounties[i].fundedAt
    /\ bounties'[i].workEndsAt = bounties[i].workEndsAt
    /\ bounties'[i].claimUntil = bounties[i].claimUntil

TermsStay ==
    \A i \in BountyIds :
        /\ bounties[i].state # "Absent" => SameTerms(i) /\ bounties'[i].state # "Absent"
        /\ bounties[i].state \in {"Settled", "Refunded"} => bounties'[i] = bounties[i]

\* A deposit is final: a funding sent twice, with other terms or after the
\* bounty was closed changes no payer, amount or window of it.  The backend
\* reads the terms at one moment and the contract applies them at another.
TermsFinal == [][TermsStay]_vars

\* A bounty nobody settles is never stuck: from claimUntil on, a refund is
\* possible as long as the token lets transfers through.  No revert of the
\* liability subtraction or of the transfer can keep the payer's money.
NeverStuck ==
    \A i \in BountyIds :
        bounties[i].state = "Funded" /\ now >= bounties[i].claimUntil /\ ~blocked
            => ENABLED refund(i)

-----------------------------------------------------------------------------
(* The contract implements the promise.                                    *)

PhaseOf(state) == CASE state = "Absent"   -> "none"
                    [] state = "Funded"   -> "held"
                    [] state = "Settled"  -> "paid"
                    [] state = "Refunded" -> "returned"

Promise == INSTANCE EscrowPromise
    WITH Ids <- BountyIds, clock <- now,
         phase <- [i \in BountyIds |-> PhaseOf(bounties[i].state)],
         held <- [i \in BountyIds |-> bounties[i].amount],
         closesAt <- [i \in BountyIds |-> bounties[i].claimUntil],
         custody <- totalLiabilities

\* Every step of the contract is a deposit, a payment in its window, a return
\* after it, or nothing at all to the promise.
KeepsPromise == Promise!Spec
=============================================================================
