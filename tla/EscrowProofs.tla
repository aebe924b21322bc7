---------------------------- MODULE EscrowProofs ----------------------------
(***************************************************************************)
(* What the contract guarantees for any accounts, bounties, amounts and    *)
(* windows: the promise it implements, and the money it holds; and then    *)
(* what the backend's records and vouchers guarantee beside it for any     *)
(* terms, voucher lives, numbers of concurrent requests and deployments.   *)
(***************************************************************************)
EXTENDS EscrowClaims, SumsAndRanks, TLAPS

\* A transfer moves Nat balances to Nat balances; from the contract's own, it
\* takes exactly the amount.
LEMMA TransferBalance ==
    ASSUME NEW from \in Accounts \cup {Escrow}, NEW to \in Party \cup {Escrow}, NEW amount \in Nat,
           balance \in [Accounts \cup {Escrow} -> Nat], fee \in Nat,
           from # to, EscrowConstants,
           Transfer(from, to, amount)
    PROVE  /\ balance' \in [Accounts \cup {Escrow} -> Nat]
           /\ balance[from] >= amount
           /\ balance'[from] = balance[from] - amount
           /\ to = Escrow => balance'[Escrow] = balance[Escrow] + Arriving(amount)
<1> DEFINE taken == [balance EXCEPT ![from] = balance[from] - amount]
<1>1. Arriving(amount) \in Nat
  BY DEF Arriving
<1>2. balance[from] >= amount /\ balance[from] - amount \in Nat
  BY DEF Transfer
<1>3. taken \in [Accounts \cup {Escrow} -> Nat]
  BY <1>2
<1>4. balance' = [taken EXCEPT ![to] = taken[to] + Arriving(amount)]
  BY DEF Transfer
<1>5. to \in Accounts \cup {Escrow} => taken[to] = balance[to]
  OBVIOUS
<1> HIDE DEF taken
<1>6. balance' \in [Accounts \cup {Escrow} -> Nat]
  <2>1. CASE to \in Accounts \cup {Escrow}
    <3>1. taken[to] + Arriving(amount) \in Nat
      BY <1>1, <1>3, <2>1
    <3>2. QED BY <1>3, <1>4, <3>1
  <2>2. CASE to \notin Accounts \cup {Escrow}
    BY <1>3, <1>4, <2>2
  <2>3. QED BY <2>1, <2>2
<1>7. balance'[from] = taken[from] /\ taken[from] = balance[from] - amount
  BY <1>2, <1>3, <1>4 DEF taken
<1>8. QED
  BY <1>2, <1>3, <1>4, <1>5, <1>6, <1>7

\* A funding, a settlement and a refund keep the types.
LEMMA FundTyped ==
    ASSUME EscrowConstants, TypeOK, NEW a \in Accounts, NEW r \in Refs,
           NEW m \in Nat, NEW t \in Nat, fund(a, r, m, t)
    PROVE  TypeOK'
<1> USE EscrowConstants DEF TypeOK
<1>1. bountyIdFor(a, r) \in BountyIds
  BY DEF fund, FundingTerms, bountyIdFor, BountyIds
<1>2. bounties' \in [BountyIds -> Bounty]
  BY <1>1 DEF fund, Bounty, State
<1>3. balance' \in [Accounts \cup {Escrow} -> Nat]
  BY TransferBalance DEF fund, Party
<1>4. log' \in Seq(Events)
  <2>1. [event |-> "BountyFunded", id |-> bountyIdFor(a, r), party |-> a,
         amount |-> m, at |-> now] \in Events
    BY <1>1 DEF Events, Party
  <2>2. QED BY <2>1 DEF fund
<1>5. totalLiabilities' \in Nat /\ now' = now /\ signed' = signed
  BY DEF fund
<1>6. fee' = fee /\ blocked' = blocked
  BY DEF fund, Transfer
<1>7. QED
  BY <1>2, <1>3, <1>4, <1>5, <1>6

LEMMA SettleTyped ==
    ASSUME EscrowConstants, TypeOK, NEW s \in Settlements, settle(s)
    PROVE  TypeOK'
<1> USE EscrowConstants DEF TypeOK
<1>1. s.bountyId \in BountyIds /\ s.recipient \in Accounts
  BY DEF settle, SettlementTerms, Settlements
<1>2. bounties' \in [BountyIds -> Bounty]
  BY <1>1 DEF settle, Release, Closed, Bounty, State
<1>3. bounties[s.bountyId].amount \in Nat
  BY <1>1 DEF Bounty
<1>4. balance' \in [Accounts \cup {Escrow} -> Nat]
  BY <1>1, <1>3, TransferBalance DEF settle, Party
<1>5. log' \in Seq(Events)
  <2>1. [event |-> "BountySettled", id |-> s.bountyId, party |-> s.recipient,
         amount |-> bounties[s.bountyId].amount, at |-> now, digest |-> s] \in Events
    BY <1>1, <1>3 DEF Events, Party
  <2>2. QED BY <2>1 DEF settle
<1>6. totalLiabilities' \in Nat
  BY <1>3 DEF settle, Release
<1>7. QED
  BY <1>2, <1>4, <1>5, <1>6 DEF settle, Transfer

LEMMA RefundTyped ==
    ASSUME EscrowConstants, TypeOK, NEW i \in BountyIds, refund(i)
    PROVE  TypeOK'
<1> USE EscrowConstants DEF TypeOK
<1>1. bounties' \in [BountyIds -> Bounty]
  BY DEF refund, Release, Closed, Bounty, State
<1>2. bounties[i].amount \in Nat /\ bounties[i].payer \in Party
  BY DEF Bounty, Party
<1>3. balance' \in [Accounts \cup {Escrow} -> Nat]
  BY <1>2, TransferBalance DEF refund, Party
<1>4. log' \in Seq(Events)
  <2>1. [event |-> "BountyRefunded", id |-> i, party |-> bounties[i].payer,
         amount |-> bounties[i].amount, at |-> now] \in Events
    BY <1>2 DEF Events
  <2>2. QED BY <2>1 DEF refund
<1>5. totalLiabilities' \in Nat
  BY <1>2 DEF refund, Release
<1>6. QED
  BY <1>1, <1>3, <1>4, <1>5 DEF refund, Transfer

-----------------------------------------------------------------------------
(* The contract among any callers.  What it guarantees does not depend on  *)
(* what the key signs, or on how much: so it is proved of OpenSpec, where  *)
(* any settlements may become authorized at any time.  Spec, and the whole *)
(* system of EscrowClaims, EscrowIndexer and SponsoredOps, imply OpenSpec. *)

Authorize ==
    /\ signed \subseteq signed'
    /\ signed' \in SUBSET Settlements
    /\ UNCHANGED <<now, contract, token>>

OpenNext ==
    \/ \E a \in Accounts, r \in Refs, m \in Amounts, t \in WorkEnds : fund(a, r, m, t)
    \/ \E s \in Settlements : settle(s)
    \/ \E i \in BountyIds : refund(i)
    \/ \E a \in Accounts, m \in Amounts : Donate(a, m)
    \/ \E f \in 0..1, b \in BOOLEAN : TokenChange(f, b)
    \/ Authorize
    \/ Tick

OpenSpec == Init /\ [][OpenNext]_vars

\* Every step keeps the types: no balance, liability or time leaves Nat, and
\* every event is about a bounty that can exist.
LEMMA TypeStep == TypeOK /\ [OpenNext]_vars => TypeOK'
<1> SUFFICES ASSUME TypeOK, [OpenNext]_vars PROVE TypeOK'
  OBVIOUS
<1> USE EscrowConstants
<1>1. ASSUME NEW a \in Accounts, NEW r \in Refs, NEW m \in Amounts, NEW t \in WorkEnds,
             fund(a, r, m, t)
      PROVE  TypeOK'
  BY <1>1, FundTyped
<1>2. ASSUME NEW s \in Settlements, settle(s)
      PROVE  TypeOK'
  BY <1>2, SettleTyped
<1>3. ASSUME NEW i \in BountyIds, refund(i)
      PROVE  TypeOK'
  BY <1>3, RefundTyped
<1>4. ASSUME NEW a \in Accounts, NEW m \in Amounts, Donate(a, m)
      PROVE  TypeOK'
  <2>1. balance' \in [Accounts \cup {Escrow} -> Nat]
    BY <1>4, TransferBalance DEF Donate, Party, TypeOK
  <2>2. QED BY <1>4, <2>1 DEF Donate, Transfer, contract, TypeOK
<1>5. ASSUME NEW f \in 0..1, NEW b \in BOOLEAN, TokenChange(f, b)
      PROVE  TypeOK'
  BY <1>5 DEF TokenChange, contract, TypeOK
<1>6. CASE Authorize
  BY <1>6 DEF Authorize, contract, token, TypeOK
<1>7. CASE Tick
  BY <1>7 DEF Tick, contract, token, TypeOK
<1>8. CASE UNCHANGED vars
  BY <1>8 DEF vars, contract, token, TypeOK
<1>9. QED
  BY <1>1, <1>2, <1>3, <1>4, <1>5, <1>6, <1>7, <1>8 DEF OpenNext

LEMMA InitTyped == Init => TypeOK
<1> SUFFICES ASSUME Init PROVE TypeOK
  OBVIOUS
<1>1. Absent \in Bounty
  BY DEF Absent, Bounty, State
<1>2. balance \in [Accounts \cup {Escrow} -> Nat]
  BY EscrowConstants DEF Init
<1>3. log \in Seq(Events)
  BY DEF Init
<1> QED BY <1>1, <1>2, <1>3 DEF Init, TypeOK

LEMMA OpenTyped == OpenSpec => []TypeOK
BY InitTyped, TypeStep, PTL DEF OpenSpec

\* The contract of the runs, whose key signs a few offers, is a case of it.
LEMMA SpecIsOpen == Spec => OpenSpec
<1>1. TypeOK /\ [Next]_vars => [OpenNext]_vars
  <2> SUFFICES ASSUME TypeOK, [Next]_vars PROVE [OpenNext]_vars
    OBVIOUS
  <2>1. ASSUME NEW s \in Offers, settle(s) PROVE OpenNext
    BY <2>1, EscrowConstants DEF EscrowConstants, OpenNext
  <2>2. ASSUME NEW s \in Offers, Sign(s) PROVE Authorize
    BY <2>2, EscrowConstants DEF EscrowConstants, Sign, Authorize, TypeOK
  <2> QED BY <2>1, <2>2 DEF Next, ContractStep, Environment, OpenNext
<1>2. Init /\ [][Next]_vars => []TypeOK
  <2>1. TypeOK /\ [Next]_vars => TypeOK'
    BY <1>1, TypeStep
  <2> QED BY <2>1, InitTyped, PTL
<1> QED BY <1>1, <1>2, PTL DEF Spec, OpenSpec

\* The contract's variables only ever hold values of their types.
THEOREM TypeCorrect == Spec => []TypeOK
BY SpecIsOpen, OpenTyped, PTL

-----------------------------------------------------------------------------
(* Solvency.  A deposit adds to the balance exactly what it adds to the    *)
(* liabilities, because fund compares the balance before and after; a      *)
(* payment takes the same from both; nobody else can take anything.        *)

\* What a payment from the contract does to balance and liabilities.
LEMMA PaymentKeepsSolvent ==
    ASSUME TypeOK, Solvent, EscrowConstants, NEW i \in BountyIds, NEW to \in Party, NEW state,
           NEW recipient, Release(i, state, recipient), Transfer(Escrow, to, bounties[i].amount)
    PROVE  Solvent'
<1>1. bounties[i].amount \in Nat
  BY DEF TypeOK, Bounty
<1>2. /\ balance[Escrow] >= bounties[i].amount
      /\ balance'[Escrow] = balance[Escrow] - bounties[i].amount
  BY <1>1, TransferBalance DEF TypeOK, Party, EscrowConstants
<1>3. balance[Escrow] \in Nat /\ totalLiabilities \in Nat
  BY DEF TypeOK
<1>4. totalLiabilities' = totalLiabilities - bounties[i].amount
  BY DEF Release
<1>5. QED
  BY <1>1, <1>2, <1>3, <1>4 DEF Solvent

\* The invariant of the balance, on every step.
LEMMA OpenSolvent == OpenSpec => []Solvent
<1>1. Init => Solvent
  BY EscrowConstants DEF Init, Solvent
<1>2. TypeOK /\ Solvent /\ [OpenNext]_vars => Solvent'
  <2> SUFFICES ASSUME TypeOK, Solvent, [OpenNext]_vars PROVE Solvent'
    OBVIOUS
  <2> USE EscrowConstants
  <2>1. ASSUME NEW a \in Accounts, NEW r \in Refs, NEW m \in Amounts, NEW t \in WorkEnds,
               fund(a, r, m, t)
        PROVE  Solvent'
    <3>1. balance'[Escrow] = balance[Escrow] + m
      BY <2>1, TransferBalance DEF fund, ExactAmount, TypeOK, Party, EscrowConstants
    <3>2. totalLiabilities' = totalLiabilities + m
      BY <2>1 DEF fund
    <3>3. balance[Escrow] \in Nat /\ totalLiabilities \in Nat /\ m \in Nat
      BY DEF TypeOK, EscrowConstants
    <3>4. QED BY <3>1, <3>2, <3>3 DEF Solvent
  <2>2. ASSUME NEW s \in Settlements, settle(s)
        PROVE  Solvent'
    <3>1. s.bountyId \in BountyIds /\ s.recipient \in Party
      BY DEF EscrowConstants, Settlements, Party
    <3>2. QED BY <2>2, <3>1, PaymentKeepsSolvent DEF settle
  <2>3. ASSUME NEW i \in BountyIds, refund(i)
        PROVE  Solvent'
    <3>1. bounties[i].payer \in Party
      BY DEF TypeOK, Bounty, Party
    <3>2. QED BY <2>3, <3>1, PaymentKeepsSolvent DEF refund
  <2>4. ASSUME NEW a \in Accounts, NEW m \in Amounts, Donate(a, m)
        PROVE  Solvent'
    <3>1. /\ balance'[Escrow] = balance[Escrow] + Arriving(m)
          /\ m \in Nat
      BY <2>4, TransferBalance DEF Donate, TypeOK, Party, EscrowConstants
    <3>2. Arriving(m) \in Nat
      BY <3>1 DEF Arriving, TypeOK
    <3>3. totalLiabilities' = totalLiabilities
      BY <2>4 DEF Donate, contract
    <3>4. QED BY <3>1, <3>2, <3>3 DEF Solvent, TypeOK
  <2>5. ASSUME UNCHANGED <<totalLiabilities, balance>>
        PROVE  Solvent'
    BY <2>5 DEF Solvent
  <2>6. QED
    BY <2>1, <2>2, <2>3, <2>4, <2>5
    DEF OpenNext, TokenChange, Authorize, Tick, vars, contract, token
<1>3. QED
  BY <1>1, <1>2, OpenTyped, PTL DEF OpenSpec

\* The contract can always pay what it owes: its token balance never falls
\* below totalLiabilities, with any token fee, pause or donation.
THEOREM Solvency == Spec => []Solvent
BY SpecIsOpen, OpenSolvent, PTL

-----------------------------------------------------------------------------
(* Exact liabilities.  A deposit adds one member to the live bounties, a   *)
(* payment takes one out, and the amounts of the others do not change.     *)

Amount == [i \in BountyIds |-> bounties[i].amount]

\* Finitely many bounties are live at a time, though ids may be infinitely many.
LiabilityInv == IsFiniteSet(Owing) /\ LiabilitiesExact

\* A new live bounty adds its amount.
LEMMA FundKeepsLiabilities ==
    ASSUME TypeOK, LiabilityInv, EscrowConstants, NEW a \in Accounts, NEW r \in Refs,
           NEW m \in Amounts, NEW t \in WorkEnds, fund(a, r, m, t)
    PROVE  LiabilityInv'
<1> DEFINE id == bountyIdFor(a, r)
<1>1. /\ id \in BountyIds /\ m \in Nat /\ bounties[id].state = "Absent"
  BY DEF fund, FundingTerms, bountyIdFor, BountyIds, Unused, EscrowConstants
<1>2. /\ \A i \in BountyIds : i # id => bounties'[i] = bounties[i]
      /\ bounties'[id].state = "Funded" /\ bounties'[id].amount = m
      /\ totalLiabilities' = totalLiabilities + m
  BY <1>1 DEF fund, TypeOK
<1> HIDE DEF id
<1>3. id \notin Owing /\ Owing' = Owing \cup {id}
  BY <1>1, <1>2 DEF Owing
<1>4. /\ Amount'[id] = m
      /\ \A i \in Owing : Amount'[i] = Amount[i] /\ Amount[i] \in Nat
  BY <1>1, <1>2, <1>3 DEF Amount, Owing, TypeOK, Bounty
<1>5. IsFiniteSet(Owing) /\ totalLiabilities = SumFunctionOnSet(Amount, Owing)
  BY DEF LiabilityInv, LiabilitiesExact, Amount
<1>6. \A i \in Owing \cup {id} : Amount'[i] \in Int
  BY <1>1, <1>4
<1>7. SumFunctionOnSet(Amount', Owing \cup {id}) = m + SumFunctionOnSet(Amount', Owing)
  BY <1>3, <1>4, <1>5, <1>6, SumAdds
<1>8. SumFunctionOnSet(Amount', Owing) = SumFunctionOnSet(Amount, Owing)
  BY <1>4, <1>5, SumSame
<1>9. totalLiabilities' = SumFunctionOnSet(Amount', Owing')
  BY <1>1, <1>2, <1>3, <1>5, <1>7, <1>8 DEF TypeOK
<1>10. IsFiniteSet(Owing')
  BY <1>3, <1>5, FS_AddElement
<1> QED BY <1>9, <1>10 DEF LiabilityInv, LiabilitiesExact, Amount

\* A closed one takes its amount away.
LEMMA CloseKeepsLiabilities ==
    ASSUME TypeOK, LiabilityInv, NEW i \in BountyIds, NEW to,
           NEW state \in {"Settled", "Refunded"}, Holding(i), Release(i, state, to)
    PROVE  LiabilityInv'
<1>1. /\ \A n \in BountyIds : n # i => bounties'[n] = bounties[n]
      /\ bounties'[i].state = state
      /\ totalLiabilities' = totalLiabilities - bounties[i].amount
  BY DEF Release, Closed, TypeOK
<1>2. i \in Owing /\ Owing' = Owing \ {i}
  BY <1>1 DEF Owing, Holding
<1>3. /\ Amount[i] = bounties[i].amount
      /\ \A n \in Owing : Amount[n] \in Nat
      /\ \A n \in Owing \ {i} : Amount'[n] = Amount[n]
  BY <1>1 DEF Amount, Owing, TypeOK, Bounty
<1>4. IsFiniteSet(Owing) /\ totalLiabilities = SumFunctionOnSet(Amount, Owing)
  BY DEF LiabilityInv, LiabilitiesExact, Amount
<1>5. IsFiniteSet(Owing \ {i})
  BY <1>4, FS_RemoveElement
<1>6. SumFunctionOnSet(Amount, Owing) = Amount[i] + SumFunctionOnSet(Amount, Owing \ {i})
  BY <1>2, <1>3, <1>4, SumTakesOut
<1>7. SumFunctionOnSet(Amount', Owing \ {i}) = SumFunctionOnSet(Amount, Owing \ {i})
  BY <1>3, <1>5, SumSame
<1>8. SumFunctionOnSet(Amount, Owing \ {i}) \in Nat
  BY <1>3, <1>5, SumIsNat
<1>9. totalLiabilities' = SumFunctionOnSet(Amount', Owing')
  BY <1>1, <1>2, <1>3, <1>4, <1>6, <1>7, <1>8
<1> QED BY <1>2, <1>5, <1>9 DEF LiabilityInv, LiabilitiesExact, Amount

\* The invariant of the sum, on every step.
LEMMA LiabilityInvariant == OpenSpec => []LiabilityInv
<1>1. Init => LiabilityInv
  <2> SUFFICES ASSUME Init PROVE LiabilityInv
    OBVIOUS
  <2>1. Owing = {}
    BY DEF Init, Owing, Absent
  <2> QED BY <2>1, FS_EmptySet, SumOfNone DEF Init, LiabilityInv, LiabilitiesExact
<1>2. TypeOK /\ LiabilityInv /\ [OpenNext]_vars => LiabilityInv'
  <2> SUFFICES ASSUME TypeOK, LiabilityInv, [OpenNext]_vars PROVE LiabilityInv'
    OBVIOUS
  <2> USE EscrowConstants
  <2>1. ASSUME NEW a \in Accounts, NEW r \in Refs, NEW m \in Amounts, NEW t \in WorkEnds,
               fund(a, r, m, t)
        PROVE  LiabilityInv'
    BY <2>1, FundKeepsLiabilities
  <2>2. ASSUME NEW s \in Settlements, settle(s) PROVE LiabilityInv'
    <3>1. s.bountyId \in BountyIds
      BY DEF EscrowConstants, Settlements
    <3> QED BY <2>2, <3>1, CloseKeepsLiabilities DEF settle
  <2>3. ASSUME NEW i \in BountyIds, refund(i) PROVE LiabilityInv'
    BY <2>3, CloseKeepsLiabilities DEF refund
  <2>4. ASSUME UNCHANGED <<bounties, totalLiabilities>> PROVE LiabilityInv'
    BY <2>4 DEF LiabilityInv, LiabilitiesExact, Owing
  <2> QED BY <2>1, <2>2, <2>3, <2>4
          DEF OpenNext, Donate, TokenChange, Authorize, Tick, vars, contract, token
<1> QED BY <1>1, <1>2, OpenTyped, PTL DEF OpenSpec

\* totalLiabilities is what the funded bounties add up to, however many there
\* are: no deposit is forgotten and none is counted when it has been paid.
THEOREM Exact == Spec => []LiabilitiesExact
BY SpecIsOpen, LiabilityInvariant, PTL DEF LiabilityInv

Payable ==
    \A i \in BountyIds : Holding(i) => /\ totalLiabilities >= bounties[i].amount
                                      /\ balance[Escrow] >= bounties[i].amount

LEMMA OpenPayable == OpenSpec => []Payable
<1>1. ASSUME TypeOK, Solvent, LiabilityInv, NEW i \in BountyIds, Holding(i)
      PROVE  totalLiabilities >= bounties[i].amount /\ balance[Escrow] >= bounties[i].amount
  <2>1. i \in Owing /\ Amount[i] = bounties[i].amount /\ \A n \in Owing : Amount[n] \in Nat
    BY <1>1 DEF Holding, Owing, Amount, TypeOK, Bounty
  <2>2. IsFiniteSet(Owing) /\ totalLiabilities = SumFunctionOnSet(Amount, Owing)
    BY <1>1 DEF LiabilityInv, LiabilitiesExact, Amount
  <2>3. totalLiabilities >= bounties[i].amount
    BY <2>1, <2>2, MemberWithin
  <2>4. balance[Escrow] \in Nat /\ totalLiabilities \in Nat /\ bounties[i].amount \in Nat
    BY <1>1 DEF TypeOK, Bounty
  <2> QED BY <1>1, <2>3, <2>4 DEF Solvent
<1>2. TypeOK /\ Solvent /\ LiabilityInv => Payable
  BY <1>1 DEF Payable
<1> QED BY <1>2, OpenTyped, OpenSolvent, LiabilityInvariant, PTL

\* Every live bounty can be paid: neither the checked subtraction from
\* totalLiabilities nor the transfer of its amount can revert for want of it.
THEOREM Covered == Spec => []Payable
BY SpecIsOpen, OpenPayable, PTL

-----------------------------------------------------------------------------
(* What the events say.  The invariant ties every event to the state of    *)
(* its bounty: a closing event stands for a closed bounty, so that no      *)
(* second one can be emitted, and every live bounty has its deposit.       *)

Deposited(i) ==
    \E k \in 1..Len(log) : /\ log[k].event = "BountyFunded"
                           /\ log[k].id = i
                           /\ log[k].amount = bounties[i].amount
                           /\ log[k].party = bounties[i].payer

ClosedStays ==
    \A j \in 1..Len(log) :
        Closing(log[j]) => bounties[log[j].id].state \in {"Settled", "Refunded"}

EventInv == /\ ClosedStays
            /\ LeavesOnce
            /\ WindowsDisjoint
            /\ LeavesAsItCame
            /\ \A i \in BountyIds : bounties[i].state # "Absent" => Deposited(i)

\* The shape of a step that emits: one event more, the old ones in place.
Emits(e) == /\ Len(log') = Len(log) + 1
            /\ log'[Len(log) + 1] = e
            /\ \A k \in 1..Len(log) : log'[k] = log[k]

LEMMA AppendEmits ==
    ASSUME NEW e, log \in Seq(Events), e \in Events, log' = Append(log, e)
    PROVE  Emits(e) /\ Len(log) \in Nat
BY DEF Emits

\* A funding event keeps the invariant: its bounty was Absent, so no event
\* was about closing it.
LEMMA FundKeepsEvents ==
    ASSUME TypeOK, EventInv, EscrowConstants, NEW a \in Accounts, NEW r \in Refs,
           NEW m \in Amounts, NEW t \in WorkEnds, fund(a, r, m, t)
    PROVE  EventInv'
<1> DEFINE id == bountyIdFor(a, r)
           e == [event |-> "BountyFunded", id |-> id, party |-> a, amount |-> m, at |-> now]
<1>1. id \in BountyIds /\ m \in Nat /\ bounties[id].state = "Absent"
  BY DEF fund, FundingTerms, bountyIdFor, BountyIds, Unused, EscrowConstants
<1>2. e \in Events
  BY <1>1 DEF Events, Party, TypeOK
<1>3. Emits(e) /\ Len(log) \in Nat
  BY <1>2, AppendEmits DEF fund, TypeOK
<1>4. ~Closing(e) /\ e.id = id /\ e.event = "BountyFunded" /\ e.amount = m /\ e.party = a
  BY DEF Closing
<1>5. /\ \A i \in BountyIds : i # id => bounties'[i] = bounties[i]
      /\ bounties'[id].state = "Funded" /\ bounties'[id].amount = m /\ bounties'[id].payer = a
      /\ signed' = signed
  BY <1>1 DEF fund, TypeOK
<1>6. \A k \in 1..Len(log) : log[k].id \in BountyIds
  BY DEF TypeOK, Events
<1>7. \A k \in 1..Len(log) : Closing(log[k]) => log[k].id # id
  BY <1>1 DEF EventInv, ClosedStays
<1> HIDE DEF e, id
<1>8. ClosedStays'
  BY <1>3, <1>4, <1>5, <1>6, <1>7 DEF EventInv, ClosedStays, Emits, Closing
<1>9. LeavesOnce'
  BY <1>3, <1>4, <1>5 DEF EventInv, LeavesOnce, Emits, Closing
<1>10. WindowsDisjoint'
  BY <1>3, <1>4, <1>5, <1>6, <1>7 DEF EventInv, WindowsDisjoint, Emits, Closing
<1>11. LeavesAsItCame'
  BY <1>3, <1>4, <1>5 DEF EventInv, LeavesAsItCame, Emits, Closing
<1>12. \A i \in BountyIds : (bounties'[i].state # "Absent" => Deposited(i)')
  BY <1>3, <1>4, <1>5 DEF EventInv, Deposited, Emits
<1>13. QED
  BY <1>8, <1>9, <1>10, <1>11, <1>12 DEF EventInv

\* What settle and refund share: a live bounty is closed by one event that
\* carries its amount, within the window of that kind of event.
LEMMA CloseKeepsEvents ==
    ASSUME TypeOK, EventInv, NEW i \in BountyIds, NEW to, NEW state \in {"Settled", "Refunded"},
           bounties[i].state = "Funded", Release(i, state, to),
           NEW e \in Events, log' = Append(log, e), signed' = signed,
           Closing(e), e.id = i, e.amount = bounties[i].amount,
           e.event = "BountySettled" => /\ e.at < bounties[i].claimUntil
                                        /\ e.digest \in signed
                                        /\ e.party = e.digest.recipient,
           e.event = "BountyRefunded" => /\ e.at >= bounties[i].claimUntil
                                         /\ e.party = bounties[i].payer
    PROVE  EventInv'
<1>1. Emits(e) /\ Len(log) \in Nat
  BY AppendEmits DEF TypeOK
<1>2. /\ \A n \in BountyIds : n # i => bounties'[n] = bounties[n]
      /\ bounties'[i].state = state
      /\ bounties'[i].amount = bounties[i].amount
      /\ bounties'[i].payer = bounties[i].payer
      /\ bounties'[i].claimUntil = bounties[i].claimUntil
  BY DEF Release, Closed, TypeOK
<1>3. \A k \in 1..Len(log) : log[k].id \in BountyIds
  BY DEF TypeOK, Events
<1>4. \A k \in 1..Len(log) : Closing(log[k]) => log[k].id # i
  BY DEF EventInv, ClosedStays
<1>5. ClosedStays'
  BY <1>1, <1>2, <1>3 DEF EventInv, ClosedStays, Emits, Closing
<1>6. LeavesOnce'
  BY <1>1, <1>4 DEF EventInv, LeavesOnce, Emits, Closing
<1>7. WindowsDisjoint'
  BY <1>1, <1>2, <1>3 DEF EventInv, WindowsDisjoint, Emits, Closing
<1>8. LeavesAsItCame'
  <2>1. PICK k \in 1..Len(log) : /\ log[k].event = "BountyFunded"
                                 /\ log[k].id = i
                                 /\ log[k].amount = bounties[i].amount
                                 /\ log[k].party = bounties[i].payer
    BY DEF EventInv, Deposited
  <2> SUFFICES ASSUME NEW j \in 1..Len(log'), Closing(log'[j])
               PROVE  \E n \in 1..(j - 1) :
                         /\ log'[n].event = "BountyFunded"
                         /\ log'[n].id = log'[j].id
                         /\ log'[n].amount = log'[j].amount
                         /\ IF log'[j].event = "BountyRefunded"
                            THEN log'[j].party = log'[n].party
                            ELSE log'[j].digest \in signed' /\ log'[j].party = log'[j].digest.recipient
    BY DEF LeavesAsItCame, Closing
  <2>2. CASE j = Len(log) + 1
    <3>1. log'[j] = e /\ k \in 1..(j - 1) /\ log'[k] = log[k]
      BY <1>1, <2>2 DEF Emits
    <3>2. QED BY <2>1, <3>1 DEF Closing
  <2>3. CASE j \in 1..Len(log)
    <3>1. log'[j] = log[j] /\ \A n \in 1..(j - 1) : log'[n] = log[n]
      BY <1>1, <2>3 DEF Emits
    <3>2. QED BY <2>3, <3>1 DEF EventInv, LeavesAsItCame
  <2>4. QED BY <1>1, <2>2, <2>3 DEF Emits
<1>9. \A n \in BountyIds : (bounties'[n].state # "Absent" => Deposited(n)')
  BY <1>1, <1>2 DEF EventInv, Deposited, Emits
<1>10. QED
  BY <1>5, <1>6, <1>7, <1>8, <1>9 DEF EventInv

LEMMA SettleKeepsEvents ==
    ASSUME TypeOK, EventInv, EscrowConstants, NEW s \in Settlements, settle(s)
    PROVE  EventInv'
<1> DEFINE e == [event |-> "BountySettled", id |-> s.bountyId, party |-> s.recipient,
                 amount |-> bounties[s.bountyId].amount, at |-> now, digest |-> s]
<1>1. s \in Settlements /\ s.bountyId \in BountyIds /\ s.recipient \in Party /\ s.deadline \in Nat
  BY DEF EscrowConstants, Settlements, Party
<1>2. bounties[s.bountyId].amount \in Nat /\ bounties[s.bountyId].claimUntil \in Nat /\ now \in Nat
  BY <1>1 DEF TypeOK, Bounty
<1>3. e \in Events
  BY <1>1, <1>2 DEF Events
<1>4. now < s.deadline /\ s.deadline <= bounties[s.bountyId].claimUntil /\ s \in signed
  BY DEF settle, ClaimOpen, SettlementTerms, Authorized
<1>5. now < bounties[s.bountyId].claimUntil
  BY <1>1, <1>2, <1>4
<1>6. /\ Closing(e) /\ e.id = s.bountyId /\ e.amount = bounties[s.bountyId].amount
      /\ e.event = "BountySettled" /\ e.at = now /\ e.digest = s /\ e.party = s.recipient
  BY DEF Closing
<1>7. /\ bounties[s.bountyId].state = "Funded" /\ signed' = signed /\ log' = Append(log, e)
      /\ Release(s.bountyId, "Settled", s.recipient)
  BY DEF settle, Holding
<1> HIDE DEF e
<1>8. QED
  BY <1>1, <1>3, <1>4, <1>5, <1>6, <1>7, CloseKeepsEvents

LEMMA RefundKeepsEvents ==
    ASSUME TypeOK, EventInv, EscrowConstants, NEW i \in BountyIds, refund(i)
    PROVE  EventInv'
<1> DEFINE e == [event |-> "BountyRefunded", id |-> i, party |-> bounties[i].payer,
                 amount |-> bounties[i].amount, at |-> now]
<1>1. bounties[i].amount \in Nat /\ bounties[i].payer \in Party /\ now \in Nat
  BY DEF TypeOK, Bounty, Party
<1>2. e \in Events
  BY <1>1 DEF Events
<1>3. /\ Closing(e) /\ e.id = i /\ e.amount = bounties[i].amount
      /\ e.event = "BountyRefunded" /\ e.at = now /\ e.party = bounties[i].payer
  BY DEF Closing
<1>4. /\ bounties[i].state = "Funded" /\ signed' = signed /\ log' = Append(log, e)
      /\ Release(i, "Refunded", bounties[i].recipient) /\ now >= bounties[i].claimUntil
  BY DEF refund, Holding, Refundable
<1> HIDE DEF e
<1>5. QED
  BY <1>2, <1>3, <1>4, CloseKeepsEvents

LEMMA EventInvariant == OpenSpec => []EventInv
<1>1. Init => EventInv
  BY DEF Init, Absent, EventInv, ClosedStays, LeavesOnce, WindowsDisjoint, LeavesAsItCame
<1>2. TypeOK /\ EventInv /\ [OpenNext]_vars => EventInv'
  <2> SUFFICES ASSUME TypeOK, EventInv, [OpenNext]_vars PROVE EventInv'
    OBVIOUS
  <2> USE EscrowConstants
  <2>1. ASSUME NEW a \in Accounts, NEW r \in Refs, NEW m \in Amounts, NEW t \in WorkEnds,
               fund(a, r, m, t)
        PROVE  EventInv'
    BY <2>1, FundKeepsEvents
  <2>2. ASSUME NEW s \in Settlements, settle(s) PROVE EventInv'
    BY <2>2, SettleKeepsEvents
  <2>3. ASSUME NEW i \in BountyIds, refund(i) PROVE EventInv'
    BY <2>3, RefundKeepsEvents
  <2>4. ASSUME UNCHANGED <<bounties, log>>, signed \subseteq signed' PROVE EventInv'
    BY <2>4 DEF EventInv, ClosedStays, LeavesOnce, WindowsDisjoint, LeavesAsItCame, Deposited, Closing
  <2>5. QED
    BY <2>1, <2>2, <2>3, <2>4
    DEF OpenNext, Donate, TokenChange, Authorize, Tick, vars, contract, token
<1>3. QED
  BY <1>1, <1>2, OpenTyped, PTL DEF OpenSpec

\* No bounty is paid out twice, by two settlements, two refunds or one of each.
THEOREM PaidOnce == Spec => []LeavesOnce
BY SpecIsOpen, EventInvariant, PTL DEF EventInv

\* What is paid out is the very amount of that bounty's own deposit, to the
\* recipient of a signed settlement or back to its payer.
THEOREM PaidAsDeposited == Spec => []LeavesAsItCame
BY SpecIsOpen, EventInvariant, PTL DEF EventInv

\* A settlement is mined before claimUntil and a refund at or after it.
THEOREM Windows == Spec => []WindowsDisjoint
BY SpecIsOpen, EventInvariant, PTL DEF EventInv

-----------------------------------------------------------------------------
(* What was agreed at the funding is final.                                *)

LEMMA TermsStep == TypeOK /\ [OpenNext]_vars => TermsStay
<1> SUFFICES ASSUME TypeOK, [OpenNext]_vars PROVE TermsStay
  OBVIOUS
<1>1. ASSUME NEW a \in Accounts, NEW r \in Refs, NEW m \in Amounts, NEW t \in WorkEnds,
             fund(a, r, m, t)
      PROVE  TermsStay
  <2> DEFINE id == bountyIdFor(a, r)
  <2>1. bounties[id].state = "Absent" /\ \A i \in BountyIds : i # id => bounties'[i] = bounties[i]
    BY <1>1 DEF fund, Unused, TypeOK
  <2> HIDE DEF id
  <2> QED BY <2>1 DEF TermsStay, SameTerms
<1>2. ASSUME NEW n \in BountyIds, NEW state \in State \ {"Absent"}, NEW to,
             Release(n, state, to), bounties[n].state = "Funded"
      PROVE  TermsStay
  <2>1. /\ \A i \in BountyIds : i # n => bounties'[i] = bounties[i]
        /\ bounties'[n] = Closed(bounties[n], state, to)
    BY <1>2 DEF Release, TypeOK
  <2>2. SameTerms(n) /\ bounties'[n].state # "Absent"
    BY <1>2, <2>1 DEF Closed, SameTerms
  <2> QED BY <1>2, <2>1, <2>2 DEF TermsStay, SameTerms
<1>3. ASSUME UNCHANGED bounties PROVE TermsStay
  BY <1>3 DEF TermsStay, SameTerms
<1>4. ASSUME NEW s \in Settlements, settle(s) PROVE TermsStay
  <2>1. s.bountyId \in BountyIds
    BY DEF Settlements
  <2> QED BY <1>2, <1>4, <2>1 DEF settle, Holding, State
<1>5. ASSUME NEW i \in BountyIds, refund(i) PROVE TermsStay
  BY <1>2, <1>5 DEF refund, Holding, State
<1> QED
  BY <1>1, <1>3, <1>4, <1>5
  DEF OpenNext, Donate, TokenChange, Authorize, Tick, vars, contract, token

LEMMA OpenTerms == OpenSpec => TermsFinal
<1>1. TypeOK /\ [OpenNext]_vars => [TermsStay]_vars
  BY TermsStep
<1> QED BY <1>1, OpenTyped, PTL DEF OpenSpec, TermsFinal

\* The contributor works for an amount and a deadline that nobody can change,
\* and a reference that was used never holds money again.
THEOREM TermsAreFinal == Spec => TermsFinal
BY SpecIsOpen, OpenTerms, PTL

-----------------------------------------------------------------------------
(* Refinement: the contract implements EscrowPromise.                      *)

\* Whatever the contract does is a step of the promise, or nothing to it.
LEMMA PromiseStep == TypeOK /\ [OpenNext]_vars => [Promise!Next]_(Promise!vars)
<1> SUFFICES ASSUME TypeOK, [OpenNext]_vars PROVE [Promise!Next]_(Promise!vars)
  OBVIOUS
<1> DEFINE phase == [i \in BountyIds |-> PhaseOf(bounties[i].state)]
           held == [i \in BountyIds |-> bounties[i].amount]
           closesAt == [i \in BountyIds |-> bounties[i].claimUntil]
<1>1. ASSUME NEW a \in Accounts, NEW r \in Refs, NEW m \in Amounts, NEW t \in WorkEnds,
             fund(a, r, m, t)
      PROVE  Promise!Deposit(bountyIdFor(a, r))
  <2> DEFINE id == bountyIdFor(a, r)
  <2>1. id \in BountyIds /\ m \in Nat \ {0} /\ t + Grace \in Nat /\ t + Grace > now
    BY <1>1, EscrowConstants DEF fund, FundingTerms, bountyIdFor, BountyIds, EscrowConstants, TypeOK
  <2>2. /\ \A i \in BountyIds : i # id => bounties'[i] = bounties[i]
        /\ bounties[id].state = "Absent" /\ bounties'[id].state = "Funded"
        /\ bounties'[id].amount = m /\ bounties'[id].claimUntil = t + Grace
        /\ totalLiabilities' = totalLiabilities + m /\ now' = now
    BY <1>1, <2>1 DEF fund, Unused, TypeOK
  <2> HIDE DEF id
  <2>3. phase[id] = "none" /\ phase' = [phase EXCEPT ![id] = "held"]
    <3>1. \A n \in BountyIds : n # id => PhaseOf(bounties'[n].state) = PhaseOf(bounties[n].state)
      BY <2>2
    <3>2. PhaseOf(bounties[id].state) = "none" /\ PhaseOf(bounties'[id].state) = "held"
      BY <2>2 DEF PhaseOf
    <3>3. QED BY <2>1, <3>1, <3>2
  <2>4. held'[id] = m /\ held' = [held EXCEPT ![id] = m]
    BY <2>1, <2>2
  <2>5. closesAt'[id] = t + Grace /\ closesAt' = [closesAt EXCEPT ![id] = t + Grace]
    BY <2>1, <2>2
  <2>6. QED
    BY <2>1, <2>2, <2>3, <2>4, <2>5 DEF Promise!Deposit, id
<1>2. ASSUME NEW i \in BountyIds, NEW s, NEW to, bounties[i].state = "Funded",
             s \in {"Settled", "Refunded"}, Release(i, s, to), now' = now
      PROVE  Promise!Leave(i, PhaseOf(s))
  <2>1. /\ \A n \in BountyIds : n # i => bounties'[n] = bounties[n]
        /\ bounties'[i].state = s /\ bounties'[i].amount = bounties[i].amount
        /\ bounties'[i].claimUntil = bounties[i].claimUntil
    BY <1>2 DEF Release, Closed, TypeOK
  <2>2. phase[i] = "held" /\ phase' = [phase EXCEPT ![i] = PhaseOf(s)]
    <3>1. \A n \in BountyIds : n # i => PhaseOf(bounties'[n].state) = PhaseOf(bounties[n].state)
      BY <2>1
    <3>2. PhaseOf(bounties[i].state) = "held" /\ PhaseOf(bounties'[i].state) = PhaseOf(s)
      BY <1>2, <2>1 DEF PhaseOf
    <3>3. QED BY <3>1, <3>2
  <2>3. held' = held /\ closesAt' = closesAt
    BY <2>1
  <2>4. /\ totalLiabilities >= held[i]
        /\ totalLiabilities' = totalLiabilities - held[i]
    BY <1>2 DEF Release
  <2>5. QED
    BY <1>2, <2>2, <2>3, <2>4 DEF Promise!Leave
<1>3. ASSUME NEW s \in Settlements, settle(s)
      PROVE  Promise!PayOut(s.bountyId) /\ s.bountyId \in BountyIds
  <2>1. s.bountyId \in BountyIds /\ s.deadline \in Nat
    BY EscrowConstants DEF EscrowConstants, Settlements
  <2>2. now < closesAt[s.bountyId]
    BY <1>3, <2>1 DEF settle, ClaimOpen, SettlementTerms, TypeOK, Bounty
  <2>3. Promise!Leave(s.bountyId, PhaseOf("Settled"))
    BY <1>2, <1>3, <2>1 DEF settle, Holding
  <2>4. QED
    BY <2>1, <2>2, <2>3 DEF Promise!PayOut, PhaseOf
<1>4. ASSUME NEW i \in BountyIds, refund(i)
      PROVE  Promise!GiveBack(i)
  <2>1. now >= closesAt[i]
    BY <1>4 DEF refund, Refundable
  <2>2. Promise!Leave(i, PhaseOf("Refunded"))
    BY <1>2, <1>4 DEF refund, Holding
  <2>3. QED
    BY <2>1, <2>2 DEF Promise!GiveBack, PhaseOf
<1>5. CASE Tick
  <2>1. now' > now /\ bounties' = bounties /\ totalLiabilities' = totalLiabilities
    BY <1>5 DEF Tick, contract, TypeOK
  <2>2. QED
    BY <2>1 DEF Promise!Next, Promise!Pass
<1>6. ASSUME UNCHANGED <<now, bounties, totalLiabilities>>
      PROVE  UNCHANGED Promise!vars
  BY <1>6 DEF Promise!vars
<1>7. \A a \in Accounts, r \in Refs : \A m \in Amounts, t \in WorkEnds :
          fund(a, r, m, t) => bountyIdFor(a, r) \in BountyIds
  BY DEF fund, FundingTerms, bountyIdFor, BountyIds
<1>8. QED
  BY <1>1, <1>3, <1>4, <1>5, <1>6, <1>7
  DEF OpenNext, Donate, TokenChange, Authorize, vars, contract, token, Promise!Next

LEMMA OpenImplements == OpenSpec => KeepsPromise
<1>1. Init => Promise!Init
  BY DEF Init, Absent, PhaseOf, Promise!Init
<1>2. QED
  BY <1>1, PromiseStep, OpenTyped, PTL DEF OpenSpec, KeepsPromise, Promise!Spec

\* GitBountyEscrow.sol keeps the promise of an escrow: money in once, out
\* once, to the contributor in time or to the payer afterwards.
THEOREM Implements == Spec => KeepsPromise
BY SpecIsOpen, OpenImplements, PTL

-----------------------------------------------------------------------------
(* The claims: what is on record and what was signed.                     *)

Reqs ==
    {Idle}
    \cup [pc : {"waiting"}, bounty : Registered, recipient : Accounts]
    \cup [pc : {"locked", "checked"}, bounty : Registered, recipient : Accounts, at : Nat]

Typed ==
    /\ TypeOK
    /\ mode \in Modes
    /\ via \in Seq(Vias)
    /\ Len(via) = Len(log)
    /\ confirmed \subseteq 1..Len(log)
    /\ fundingSeen \in [Registered -> 0..Len(log)]
    /\ settledSeen \in [Registered -> 0..Len(log)]
    /\ refundSeen \in [Registered -> 0..Len(log)]
    /\ allocated \in [Registered -> BOOLEAN]
    /\ binding \in [Registered -> Accounts \cup {NoOne}]
    /\ req \in [Requests -> Reqs]

\* Every authorization was made by a voucher request and is on record.
VouchersTyped ==
    /\ DOMAIN voucher = signed
    /\ \A s \in signed : /\ voucher[s] \in {"live", "expired", "used"}
                         /\ s.bountyId \in Registered
                         /\ s.recipient \in Accounts
                         /\ s.recipient = binding[s.bountyId]

\* What an event says of its bounty stays true.
EventTrue(k) ==
    /\ log[k].at <= now
    /\ bounties[log[k].id].amount = log[k].amount
    /\ log[k].event = "BountyFunded" => bounties[log[k].id].state # "Absent"
    /\ log[k].event = "BountySettled" =>
           /\ bounties[log[k].id].state = "Settled"
           /\ log[k].digest \in signed
           /\ log[k].digest.bountyId = log[k].id
           /\ log[k].digest.recipient = log[k].party
           /\ log[k].at < log[k].digest.deadline
    /\ log[k].event = "BountyRefunded" => bounties[log[k].id].state = "Refunded"

EventsTrue == \A k \in 1..Len(log) : EventTrue(k)

SettledLogged ==
    \A i \in BountyIds : bounties[i].state = "Settled" =>
        \E k \in 1..Len(log) : log[k].event = "BountySettled" /\ log[k].id = i

\* What is recorded is an event of that bounty, of that kind, some blocks ago.
RecordsHold ==
    \A i \in Registered :
        /\ fundingSeen[i] # Never => /\ log[fundingSeen[i]].event = "BountyFunded"
                                     /\ log[fundingSeen[i]].id = i
                                     /\ bounties[i].amount = Reward[i].amount
                                     /\ bounties[i].workEndsAt = Reward[i].workEndsAt
        /\ settledSeen[i] # Never => /\ log[settledSeen[i]].event = "BountySettled"
                                     /\ log[settledSeen[i]].id = i
                                     /\ log[settledSeen[i]].at < latest
                                     /\ bounties[i].amount = Reward[i].amount
        /\ refundSeen[i] # Never => /\ log[refundSeen[i]].event = "BountyRefunded"
                                    /\ log[refundSeen[i]].id = i
                                    /\ bounties[i].amount = Reward[i].amount

\* A voucher that was replaced has run out, and was never settled.
ExpiredOver ==
    \A s \in signed : voucher[s] = "expired" =>
        /\ s.deadline < now
        /\ \A k \in 1..Len(log) : log[k].event = "BountySettled" => log[k].digest # s

UsedSettled ==
    \A s \in signed : voucher[s] = "used" => bounties[s.bountyId].state = "Settled"

OneLive ==
    \A s, u \in signed :
        s.bountyId = u.bountyId /\ voucher[s] = "live" /\ voucher[u] = "live" => s = u

Holds(r) == req[r].pc \in {"locked", "checked"}

\* One request at a time holds a bounty's allocation.
OneHolder ==
    \A r, q \in Requests : Holds(r) /\ Holds(q) /\ req[r].bounty = req[q].bounty => r = q

\* Nobody can use a live voucher any more when its holder read the block, and
\* nobody has once the holder has also read the bounty's state.
HolderRead ==
    \A r \in Requests : Holds(r) =>
        /\ req[r].at < now
        /\ \A s \in signed : s.bountyId = req[r].bounty /\ voucher[s] = "live" =>
               s.deadline <= req[r].at
        /\ req[r].pc = "checked" => bounties[req[r].bounty].state # "Settled"

\* VouchersAccounted, one voucher at a time.
Accounted ==
    \A i \in Registered :
        /\ settledSeen[i] = Never =>
               \A s \in signed : s.bountyId = i => voucher[s] # "used"
        /\ settledSeen[i] # Never =>
               /\ log[settledSeen[i]].digest \in signed
               /\ log[settledSeen[i]].digest.bountyId = i
               /\ \A s \in signed : s.bountyId = i =>
                      /\ voucher[s] # "live"
                      /\ voucher[s] = "used" <=> s = log[settledSeen[i]].digest

Inv1 == Typed /\ VouchersTyped
Inv2 == EventsTrue /\ SettledLogged /\ LeavesOnce /\ RecordsHold
Inv3 == ExpiredOver /\ UsedSettled /\ OneLive
Inv4 == OneHolder /\ HolderRead /\ Accounted

ClaimInv == Inv1 /\ Inv2 /\ Inv3 /\ Inv4

-----------------------------------------------------------------------------
(* The chain's transactions, as the backend's records see them.            *)

LEMMA EventAt ==
    ASSUME TypeOK, NEW k \in 1..Len(log)
    PROVE  log[k] \in Events /\ log[k].at \in Nat
<1>1. log[k] \in Events
  BY DEF TypeOK
<1> QED BY <1>1 DEF Events

\* A transaction emits one event about bounty i, and changes no other bounty.
Happens(e, i) ==
    /\ TypeOK'
    /\ Emits(e)
    /\ e.id = i
    /\ e.at = now
    /\ UNCHANGED <<now, signed>>
    /\ \A n \in BountyIds : n # i => bounties'[n] = bounties[n]

LEMMA FundHappens ==
    ASSUME EscrowConstants, TypeOK, NEW a \in Accounts, NEW r \in Refs,
           NEW m \in Nat, NEW t \in Nat, fund(a, r, m, t)
    PROVE  \E e : /\ Happens(e, <<a, r>>)
                  /\ e.event = "BountyFunded"
                  /\ bounties[<<a, r>>].state = "Absent"
                  /\ bounties'[<<a, r>>].state = "Funded"
                  /\ bounties'[<<a, r>>].amount = e.amount
<1> DEFINE id == <<a, r>>
           e == [event |-> "BountyFunded", id |-> id, party |-> a, amount |-> m, at |-> now]
<1>1. id \in BountyIds
  BY DEF fund, FundingTerms, BountyIds
<1>2. e \in Events
  BY <1>1 DEF Events, Party, TypeOK
<1>3. log' = Append(log, e)
  BY DEF fund, bountyIdFor
<1>4. Emits(e)
  BY <1>2, <1>3, AppendEmits DEF TypeOK
<1>5. TypeOK'
  BY FundTyped
<1>6. /\ bounties[id].state = "Absent"
      /\ bounties'[id].state = "Funded"
      /\ bounties'[id].amount = m
      /\ \A n \in BountyIds : n # id => bounties'[n] = bounties[n]
  BY <1>1 DEF fund, Unused, bountyIdFor, TypeOK
<1>7. UNCHANGED <<now, signed>>
  BY DEF fund
<1>8. e.event = "BountyFunded" /\ e.id = id /\ e.at = now /\ e.amount = m
  OBVIOUS
<1> HIDE DEF e
<1>9. Happens(e, id)
  BY <1>4, <1>5, <1>6, <1>7, <1>8 DEF Happens
<1> QED BY <1>6, <1>8, <1>9

LEMMA SettleHappens ==
    ASSUME EscrowConstants, TypeOK, NEW s \in signed, settle(s)
    PROVE  \E e : /\ Happens(e, s.bountyId)
                  /\ e.event = "BountySettled"
                  /\ e.digest = s /\ e.party = s.recipient
                  /\ now < s.deadline
                  /\ bounties[s.bountyId].state = "Funded"
                  /\ bounties'[s.bountyId].state = "Settled"
                  /\ bounties'[s.bountyId].amount = bounties[s.bountyId].amount
                  /\ e.amount = bounties[s.bountyId].amount
                  /\ bounties'[s.bountyId].workEndsAt = bounties[s.bountyId].workEndsAt
<1> DEFINE id == s.bountyId
           e == [event |-> "BountySettled", id |-> id, party |-> s.recipient,
                 amount |-> bounties[id].amount, at |-> now, digest |-> s]
<1>1. s \in Settlements /\ id \in BountyIds /\ s.recipient \in Party
  BY DEF TypeOK, Settlements, Party
<1>2. e \in Events
  BY <1>1 DEF Events, TypeOK, Bounty
<1>3. log' = Append(log, e)
  BY DEF settle
<1>4. Emits(e)
  BY <1>2, <1>3, AppendEmits DEF TypeOK
<1>5. TypeOK'
  BY <1>1, SettleTyped
<1>6. /\ now < s.deadline
      /\ bounties[id].state = "Funded"
      /\ bounties' = [bounties EXCEPT ![id] = Closed(bounties[id], "Settled", s.recipient)]
      /\ UNCHANGED <<now, signed>>
  BY DEF settle, ClaimOpen, Holding, Release
<1>7. /\ bounties'[id].state = "Settled"
      /\ bounties'[id].amount = bounties[id].amount
      /\ bounties'[id].workEndsAt = bounties[id].workEndsAt
      /\ \A n \in BountyIds : n # id => bounties'[n] = bounties[n]
  BY <1>1, <1>6 DEF Closed, TypeOK
<1>8. /\ e.event = "BountySettled" /\ e.id = id /\ e.at = now
      /\ e.digest = s /\ e.party = s.recipient /\ e.amount = bounties[id].amount
  OBVIOUS
<1> HIDE DEF e
<1>9. Happens(e, id)
  BY <1>4, <1>5, <1>6, <1>7, <1>8 DEF Happens
<1> QED BY <1>6, <1>7, <1>8, <1>9

LEMMA RefundHappens ==
    ASSUME EscrowConstants, TypeOK, NEW i \in BountyIds, refund(i)
    PROVE  \E e : /\ Happens(e, i)
                  /\ e.event = "BountyRefunded"
                  /\ bounties[i].state = "Funded"
                  /\ bounties'[i].state = "Refunded"
                  /\ bounties'[i].amount = bounties[i].amount
                  /\ e.amount = bounties[i].amount
                  /\ bounties'[i].workEndsAt = bounties[i].workEndsAt
<1> DEFINE e == [event |-> "BountyRefunded", id |-> i, party |-> bounties[i].payer,
                 amount |-> bounties[i].amount, at |-> now]
<1>1. e \in Events
  BY DEF Events, TypeOK, Bounty, Party
<1>2. log' = Append(log, e)
  BY DEF refund
<1>3. Emits(e)
  BY <1>1, <1>2, AppendEmits DEF TypeOK
<1>4. TypeOK'
  BY RefundTyped
<1>5. /\ bounties[i].state = "Funded"
      /\ bounties' = [bounties EXCEPT ![i] = Closed(bounties[i], "Refunded", bounties[i].recipient)]
      /\ UNCHANGED <<now, signed>>
  BY DEF refund, Holding, Release
<1>6. /\ bounties'[i].state = "Refunded"
      /\ bounties'[i].amount = bounties[i].amount
      /\ bounties'[i].workEndsAt = bounties[i].workEndsAt
      /\ \A n \in BountyIds : n # i => bounties'[n] = bounties[n]
  BY <1>5 DEF Closed, TypeOK
<1>7. e.event = "BountyRefunded" /\ e.id = i /\ e.at = now /\ e.amount = bounties[i].amount
  OBVIOUS
<1> HIDE DEF e
<1>8. Happens(e, i)
  BY <1>3, <1>4, <1>5, <1>6, <1>7 DEF Happens
<1> QED BY <1>5, <1>6, <1>7, <1>8

\* Whatever is called, the records and the vouchers stay true of the chain.
LEMMA ChainKeeps ==
    ASSUME ClaimConstants, ClaimInv, NEW i \in BountyIds, NEW e, NEW v \in Vias,
           Happens(e, i), via' = Append(via, v), UNCHANGED backend,
           \/ /\ e.event = "BountyFunded"
              /\ bounties[i].state = "Absent"
              /\ bounties'[i].state = "Funded"
              /\ bounties'[i].amount = e.amount
           \/ /\ bounties[i].state = "Funded"
              /\ bounties'[i].amount = bounties[i].amount
              /\ e.amount = bounties[i].amount
              /\ bounties'[i].workEndsAt = bounties[i].workEndsAt
              /\ \/ /\ e.event = "BountySettled"
                    /\ e.digest \in signed /\ e.digest.bountyId = i
                    /\ e.party = e.digest.recipient
                    /\ now < e.digest.deadline
                    /\ bounties'[i].state = "Settled"
                 \/ /\ e.event = "BountyRefunded"
                    /\ bounties'[i].state = "Refunded"
    PROVE  ClaimInv'
<1>1. /\ Typed /\ VouchersTyped /\ EventsTrue /\ RecordsHold /\ ExpiredOver /\ UsedSettled
      /\ OneLive /\ OneHolder /\ HolderRead /\ Accounted
  BY DEF ClaimInv, Inv1, Inv2, Inv3, Inv4
<1>2. /\ TypeOK'
      /\ Len(log) \in Nat /\ Len(log') = Len(log) + 1
      /\ log'[Len(log) + 1] = e
      /\ \A k \in 1..Len(log) : log'[k] = log[k]
      /\ e.id = i /\ e.at = now
      /\ UNCHANGED <<now, signed>>
      /\ \A n \in BountyIds : n # i => bounties'[n] = bounties[n]
  BY <1>1 DEF Happens, Emits, Typed, TypeOK
<1>3. UNCHANGED <<mode, confirmed, fundingSeen, settledSeen, refundSeen, allocated, binding,
                  voucher, req>>
  BY DEF backend, evidence, claims
<1>4. now \in Nat /\ Registered \subseteq BountyIds
  BY <1>1 DEF Typed, TypeOK, ClaimConstants
<1>5. \A k \in 1..Len(log) : log[k].id \in BountyIds
  BY <1>1 DEF Typed, TypeOK, Events
<1>6. Inv1'
  <2>1. via' \in Seq(Vias) /\ Len(via') = Len(log')
    BY <1>1, <1>2 DEF Typed
  <2>2. Typed'
    BY <1>1, <1>2, <1>3, <2>1 DEF Typed
  <2>3. VouchersTyped'
    BY <1>1, <1>2, <1>3 DEF VouchersTyped
  <2> QED BY <2>2, <2>3 DEF Inv1
<1>7. ASSUME NEW k \in 1..Len(log') PROVE EventTrue(k)'
  <2>1. CASE k = Len(log) + 1
    <3>1. log'[k] = e
      BY <1>2, <2>1
    <3> QED BY <1>2, <1>4, <3>1 DEF EventTrue
  <2>2. CASE k \in 1..Len(log)
    <3>1. EventTrue(k) /\ log'[k] = log[k]
      BY <1>1, <1>2, <2>2 DEF EventsTrue
    <3>2. CASE log[k].id # i
      BY <1>2, <1>5, <2>2, <3>1, <3>2 DEF EventTrue
    <3>3. CASE log[k].id = i
      <4>1. log[k].event \in {"BountyFunded", "BountySettled", "BountyRefunded"}
        BY <1>1, <2>2 DEF Typed, TypeOK, Events
      <4>2. bounties[i].state # "Absent"
        BY <3>1, <3>3, <4>1 DEF EventTrue
      <4> QED BY <1>2, <3>1, <3>3, <4>1, <4>2 DEF EventTrue
    <3> QED BY <3>2, <3>3
  <2> QED BY <1>2, <2>1, <2>2
<1>9. EventsTrue'
  BY <1>7 DEF EventsTrue
<1>15. SettledLogged'
  <2>1. SettledLogged
    BY DEF ClaimInv, Inv2
  <2> SUFFICES ASSUME NEW n \in BountyIds, bounties'[n].state = "Settled"
               PROVE  \E k \in 1..Len(log') : log'[k].event = "BountySettled" /\ log'[k].id = n
    BY DEF SettledLogged
  <2>2. CASE n = i
    <3>1. log'[Len(log) + 1].event = "BountySettled" /\ log'[Len(log) + 1].id = n
      BY <1>2, <2>2
    <3> QED BY <1>2, <3>1
  <2>3. CASE n # i
    BY <1>2, <2>1, <2>3 DEF SettledLogged
  <2> QED BY <2>2, <2>3
<1>16. LeavesOnce'
  <2>1. Closing(e) => \A k \in 1..Len(log) : Closing(log[k]) => log[k].id # i
    BY <1>1 DEF Closing, EventsTrue, EventTrue
  <2>2. LeavesOnce
    BY DEF ClaimInv, Inv2
  <2> SUFFICES ASSUME NEW j \in 1..Len(log'), NEW k \in 1..Len(log'), Closing(log'[j]),
                      Closing(log'[k]), log'[j].id = log'[k].id
               PROVE  j = k
    BY DEF LeavesOnce, Closing
  <2> QED BY <1>2, <2>1, <2>2 DEF LeavesOnce
<1>10. RecordsHold'
  <2> SUFFICES ASSUME NEW n \in Registered
               PROVE
        /\ fundingSeen[n] # Never => /\ log'[fundingSeen[n]].event = "BountyFunded"
                                     /\ log'[fundingSeen[n]].id = n
                                     /\ bounties'[n].amount = Reward[n].amount
                                     /\ bounties'[n].workEndsAt = Reward[n].workEndsAt
        /\ settledSeen[n] # Never => /\ log'[settledSeen[n]].event = "BountySettled"
                                     /\ log'[settledSeen[n]].id = n
                                     /\ log'[settledSeen[n]].at < now - 1
                                     /\ bounties'[n].amount = Reward[n].amount
        /\ refundSeen[n] # Never => /\ log'[refundSeen[n]].event = "BountyRefunded"
                                    /\ log'[refundSeen[n]].id = n
                                    /\ bounties'[n].amount = Reward[n].amount
    BY <1>2, <1>3 DEF RecordsHold, latest
  <2>1. /\ fundingSeen[n] # Never => fundingSeen[n] \in 1..Len(log)
        /\ settledSeen[n] # Never => settledSeen[n] \in 1..Len(log)
        /\ refundSeen[n] # Never => refundSeen[n] \in 1..Len(log)
    BY <1>1, <1>2 DEF Typed, Never
  <2>2. \/ fundingSeen[n] = Never /\ settledSeen[n] = Never /\ refundSeen[n] = Never
        \/ bounties[n].state # "Absent"
    BY <1>1, <2>1 DEF RecordsHold, EventsTrue, EventTrue
  <2>3. \/ fundingSeen[n] = Never /\ settledSeen[n] = Never /\ refundSeen[n] = Never
        \/ /\ bounties'[n].amount = bounties[n].amount
           /\ bounties'[n].workEndsAt = bounties[n].workEndsAt
    BY <1>2, <1>4, <2>2
  <2>4. fundingSeen[n] # Never => /\ log'[fundingSeen[n]].event = "BountyFunded"
                                  /\ log'[fundingSeen[n]].id = n
                                  /\ bounties'[n].amount = Reward[n].amount
                                  /\ bounties'[n].workEndsAt = Reward[n].workEndsAt
    BY <1>1, <1>2, <2>1, <2>3 DEF RecordsHold
  <2>5. settledSeen[n] # Never => /\ log'[settledSeen[n]].event = "BountySettled"
                                  /\ log'[settledSeen[n]].id = n
                                  /\ log'[settledSeen[n]].at < now - 1
                                  /\ bounties'[n].amount = Reward[n].amount
    BY <1>1, <1>2, <2>1, <2>3 DEF RecordsHold, latest
  <2>6. refundSeen[n] # Never => /\ log'[refundSeen[n]].event = "BountyRefunded"
                                 /\ log'[refundSeen[n]].id = n
                                 /\ bounties'[n].amount = Reward[n].amount
    BY <1>1, <1>2, <2>1, <2>3 DEF RecordsHold
  <2> QED BY <2>4, <2>5, <2>6
<1>11. Inv3'
  <2>1. ExpiredOver'
    <3> SUFFICES ASSUME NEW s \in signed, voucher[s] = "expired"
                 PROVE  /\ s.deadline < now
                        /\ \A k \in 1..Len(log') : log'[k].event = "BountySettled" =>
                                                       log'[k].digest # s
      BY <1>2, <1>3 DEF ExpiredOver
    <3>1. s.deadline < now /\ s.deadline \in Nat
      BY <1>1 DEF ExpiredOver, Typed, TypeOK, Settlements
    <3>2. e.event = "BountySettled" => e.digest # s
      BY <1>4, <3>1
    <3> QED BY <1>1, <1>2, <3>1, <3>2 DEF ExpiredOver
  <2>2. UsedSettled'
    BY <1>1, <1>2, <1>3, <1>4 DEF UsedSettled, VouchersTyped
  <2>3. OneLive'
    BY <1>1, <1>2, <1>3 DEF OneLive
  <2> QED BY <2>1, <2>2, <2>3 DEF Inv3
<1>12. OneHolder'
  BY <1>1, <1>3 DEF OneHolder, Holds
<1>13. HolderRead'
  <2> SUFFICES ASSUME NEW r \in Requests, Holds(r)
               PROVE  /\ req[r].at < now
                      /\ \A s \in signed : s.bountyId = req[r].bounty /\ voucher[s] = "live" =>
                             s.deadline <= req[r].at
                      /\ req[r].pc = "checked" => bounties'[req[r].bounty].state # "Settled"
    BY <1>2, <1>3 DEF HolderRead, Holds
  <2>1. /\ req[r].bounty \in BountyIds /\ req[r].at \in Nat /\ req[r].at < now
        /\ \A s \in signed : s.bountyId = req[r].bounty /\ voucher[s] = "live" =>
               s.deadline <= req[r].at
        /\ req[r].pc = "checked" => bounties[req[r].bounty].state # "Settled"
    <3>1. req[r] \in [pc : {"locked", "checked"}, bounty : Registered, recipient : Accounts,
                      at : Nat]
      BY <1>1 DEF Typed, Reqs, Holds, Idle
    <3> QED BY <1>1, <1>4, <3>1 DEF HolderRead
  <2>2. ASSUME e.event = "BountySettled", req[r].bounty = i PROVE FALSE
    <3>1. /\ bounties[i].state = "Funded" /\ e.digest \in signed /\ e.digest.bountyId = i
          /\ now < e.digest.deadline
      BY <2>2
    <3>2. e.digest.deadline \in Nat
      BY <1>1, <3>1 DEF Typed, TypeOK, Settlements
    <3>3. voucher[e.digest] # "used"
      BY <1>1, <3>1 DEF UsedSettled
    <3>4. voucher[e.digest] # "expired"
      BY <1>1, <1>4, <3>1, <3>2 DEF ExpiredOver
    <3>5. voucher[e.digest] = "live"
      BY <1>1, <3>1, <3>3, <3>4 DEF VouchersTyped
    <3> QED BY <1>4, <2>1, <2>2, <3>1, <3>2, <3>5
  <2> QED BY <1>2, <2>1, <2>2
<1>14. Accounted'
  <2> SUFFICES ASSUME NEW n \in Registered
               PROVE
        /\ settledSeen[n] = Never =>
               \A s \in signed : s.bountyId = n => voucher[s] # "used"
        /\ settledSeen[n] # Never =>
               /\ log'[settledSeen[n]].digest \in signed
               /\ log'[settledSeen[n]].digest.bountyId = n
               /\ \A s \in signed : s.bountyId = n =>
                      /\ voucher[s] # "live"
                      /\ voucher[s] = "used" <=> s = log'[settledSeen[n]].digest
    BY <1>2, <1>3 DEF Accounted
  <2>1. settledSeen[n] # Never => log'[settledSeen[n]] = log[settledSeen[n]]
    BY <1>1, <1>2 DEF Typed, Never
  <2> QED BY <1>1, <2>1 DEF Accounted
<1> QED BY <1>6, <1>9, <1>10, <1>11, <1>12, <1>13, <1>14, <1>15, <1>16 DEF ClaimInv, Inv2, Inv4

\* The same of what the transactions themselves do.
LEMMA FundKeeps ==
    ASSUME EscrowConstants, ClaimConstants, ClaimInv, NEW i \in Registered,
           NEW m \in Nat, NEW t \in Nat, NEW v \in Vias,
           fund(i[1], i[2], m, t), via' = Append(via, v), UNCHANGED backend
    PROVE  ClaimInv'
<1>1. TypeOK
  BY DEF ClaimInv, Inv1, Typed
<1>2. i \in BountyIds /\ i[1] \in Accounts /\ i[2] \in Refs /\ i = <<i[1], i[2]>>
  BY DEF ClaimConstants, BountyIds
<1>3. PICK e : /\ Happens(e, <<i[1], i[2]>>)
               /\ e.event = "BountyFunded"
               /\ bounties[<<i[1], i[2]>>].state = "Absent"
               /\ bounties'[<<i[1], i[2]>>].state = "Funded"
               /\ bounties'[<<i[1], i[2]>>].amount = e.amount
  BY <1>1, <1>2, FundHappens
<1>4. /\ Happens(e, i)
      /\ e.event = "BountyFunded"
      /\ bounties[i].state = "Absent"
      /\ bounties'[i].state = "Funded"
      /\ bounties'[i].amount = e.amount
  BY <1>2, <1>3, Zenon
<1> QED BY <1>2, <1>4, ChainKeeps

LEMMA SettleKeeps ==
    ASSUME EscrowConstants, ClaimConstants, ClaimInv, NEW s \in signed, NEW v \in Vias,
           settle(s), via' = Append(via, v), UNCHANGED backend
    PROVE  ClaimInv'
<1>1. TypeOK /\ s.bountyId \in BountyIds
  BY DEF ClaimInv, Inv1, Typed, TypeOK, Settlements
<1>2. PICK e : /\ Happens(e, s.bountyId)
               /\ e.event = "BountySettled"
               /\ e.digest = s /\ e.party = s.recipient
               /\ now < s.deadline
               /\ bounties[s.bountyId].state = "Funded"
               /\ bounties'[s.bountyId].state = "Settled"
               /\ bounties'[s.bountyId].amount = bounties[s.bountyId].amount
               /\ e.amount = bounties[s.bountyId].amount
               /\ bounties'[s.bountyId].workEndsAt = bounties[s.bountyId].workEndsAt
  BY <1>1, SettleHappens
<1> QED BY <1>1, <1>2, ChainKeeps

LEMMA RefundKeeps ==
    ASSUME EscrowConstants, ClaimConstants, ClaimInv, NEW i \in Registered, NEW v \in Vias,
           refund(i), via' = Append(via, v), UNCHANGED backend
    PROVE  ClaimInv'
<1>1. TypeOK /\ i \in BountyIds
  BY DEF ClaimInv, Inv1, Typed, ClaimConstants
<1>2. PICK e : /\ Happens(e, i)
               /\ e.event = "BountyRefunded"
               /\ bounties[i].state = "Funded"
               /\ bounties'[i].state = "Refunded"
               /\ bounties'[i].amount = bounties[i].amount
               /\ e.amount = bounties[i].amount
               /\ bounties'[i].workEndsAt = bounties[i].workEndsAt
  BY <1>1, RefundHappens
<1> QED BY <1>1, <1>2, ChainKeeps

LEMMA BlockKeeps ==
    ASSUME ClaimInv, NextBlock PROVE ClaimInv'
<1>1. /\ now \in Nat /\ now' = now + 1
      /\ UNCHANGED <<contract, token, signed, via, backend>>
  BY DEF ClaimInv, Inv1, Typed, TypeOK, NextBlock, Tick
<1> USE <1>1 DEF contract, token, backend, evidence, claims
<1>2. Inv1'
  BY DEF ClaimInv, Inv1, Typed, TypeOK, VouchersTyped
<1>3. EventsTrue'
  <2> SUFFICES ASSUME NEW k \in 1..Len(log) PROVE EventTrue(k)'
    BY DEF EventsTrue
  <2>1. log[k].at \in Nat
    BY DEF ClaimInv, Inv1, Typed, TypeOK, Events
  <2> QED BY <2>1 DEF ClaimInv, Inv2, EventsTrue, EventTrue
<1>7. SettledLogged' /\ LeavesOnce'
  BY DEF ClaimInv, Inv2, SettledLogged, LeavesOnce, Closing
<1>4. RecordsHold'
  <2>1. \A i \in Registered : settledSeen[i] # Never => log[settledSeen[i]].at \in Nat
    BY DEF ClaimInv, Inv1, Typed, TypeOK, Events, Never
  <2> QED BY <2>1 DEF ClaimInv, Inv2, RecordsHold, latest
<1>5. Inv3'
  <2>1. \A s \in signed : s.deadline \in Nat
    BY DEF ClaimInv, Inv1, Typed, TypeOK, Settlements
  <2> QED BY <2>1 DEF ClaimInv, Inv3, ExpiredOver, UsedSettled, OneLive
<1>6. Inv4'
  <2>1. \A r \in Requests : Holds(r) => req[r].at \in Nat
    BY DEF ClaimInv, Inv1, Typed, Reqs, Holds, Idle
  <2> QED BY <2>1 DEF ClaimInv, Inv4, OneHolder, HolderRead, Holds, Accounted
<1> QED BY <1>2, <1>3, <1>4, <1>5, <1>6, <1>7 DEF ClaimInv, Inv2

-----------------------------------------------------------------------------
(* The handlers.                                                           *)

\* A handler that touches neither records nor vouchers.
LEMMA HandlerKeeps ==
    ASSUME ClaimInv, UNCHANGED <<vars, via, evidence, binding, voucher>>,
           mode' \in Modes, confirmed' \subseteq 1..Len(log),
           allocated' \in [Registered -> BOOLEAN],
           req' \in [Requests -> Reqs], OneHolder', HolderRead'
    PROVE  ClaimInv'
<1> USE DEF vars, contract, token, evidence
<1>1. Inv1'
  BY DEF ClaimInv, Inv1, Typed, TypeOK, VouchersTyped
<1>2. Inv2'
  BY DEF ClaimInv, Inv2, EventsTrue, EventTrue, SettledLogged, LeavesOnce, Closing, RecordsHold, latest
<1>3. Inv3'
  BY DEF ClaimInv, Inv3, ExpiredOver, UsedSettled, OneLive
<1>4. Accounted'
  BY DEF ClaimInv, Inv4, Accounted
<1> QED BY <1>1, <1>2, <1>3, <1>4 DEF ClaimInv, Inv4

\* A handler that is no voucher request.
LEMMA OtherHandlerKeeps ==
    ASSUME ClaimInv, UNCHANGED <<vars, via, evidence, binding, voucher, req>>,
           mode' \in Modes, confirmed' \subseteq 1..Len(log),
           allocated' \in [Registered -> BOOLEAN]
    PROVE  ClaimInv'
<1>1. req' \in [Requests -> Reqs]
  BY DEF ClaimInv, Inv1, Typed
<1>2. OneHolder' /\ HolderRead'
  BY DEF ClaimInv, Inv4, OneHolder, HolderRead, Holds, vars, contract
<1> QED BY <1>1, <1>2, HandlerKeeps

\* Recording a funding or a refund that the chain has made.
LEMMA EvidenceKeeps ==
    ASSUME ClaimInv, NEW i \in Registered, NEW k \in 1..Len(log),
           verify_funding(i, k) \/ verify_refund(i, k)
    PROVE  ClaimInv'
<1> USE DEF vars, contract, token, claims
<1>1. UNCHANGED <<vars, via, mode, confirmed, settledSeen, claims, req>>
  BY DEF verify_funding, verify_refund
<1>2. Len(log) \in Nat /\ k \in 0..Len(log)
  BY DEF ClaimInv, Inv1, Typed, TypeOK
<1>3. /\ fundingSeen' \in [Registered -> 0..Len(log)]
      /\ refundSeen' \in [Registered -> 0..Len(log)]
  BY <1>2 DEF verify_funding, verify_refund, ClaimInv, Inv1, Typed
<1>4. Inv1'
  BY <1>1, <1>3 DEF ClaimInv, Inv1, Typed, TypeOK, VouchersTyped
<1>5. EventsTrue' /\ SettledLogged' /\ LeavesOnce'
  BY <1>1 DEF ClaimInv, Inv2, EventsTrue, EventTrue, SettledLogged, LeavesOnce, Closing
<1>6. RecordsHold'
  <2>1. EventTrue(k)
    BY DEF ClaimInv, Inv2, EventsTrue
  <2>2. CASE verify_funding(i, k)
    <3>1. /\ fundingSeen' = [fundingSeen EXCEPT ![i] = k] /\ refundSeen' = refundSeen
          /\ log[k].event = "BountyFunded" /\ log[k].id = i
          /\ log[k].amount = Reward[i].amount
          /\ bounties[i].workEndsAt = Reward[i].workEndsAt
      BY <2>2 DEF verify_funding, FundingProof, verify_funding_receipt
    <3>2. bounties[i].amount = Reward[i].amount
      BY <2>1, <3>1 DEF EventTrue
    <3> QED BY <1>1, <3>1, <3>2 DEF ClaimInv, Inv1, Inv2, Typed, RecordsHold, latest
  <2>3. CASE verify_refund(i, k)
    <3>1. /\ refundSeen' = [refundSeen EXCEPT ![i] = k] /\ fundingSeen' = fundingSeen
          /\ log[k].event = "BountyRefunded" /\ log[k].id = i
          /\ log[k].amount = Reward[i].amount
      BY <2>3 DEF verify_refund, RefundProof, verify_refund_receipt
    <3>2. bounties[i].amount = Reward[i].amount
      BY <2>1, <3>1 DEF EventTrue
    <3> QED BY <1>1, <3>1, <3>2 DEF ClaimInv, Inv1, Inv2, Typed, RecordsHold, latest
  <2> QED BY <2>2, <2>3
<1>7. Inv3'
  BY <1>1 DEF ClaimInv, Inv3, ExpiredOver, UsedSettled, OneLive
<1>8. Inv4'
  BY <1>1 DEF ClaimInv, Inv4, OneHolder, HolderRead, Holds, Accounted
<1> QED BY <1>4, <1>5, <1>6, <1>7, <1>8 DEF ClaimInv, Inv2

\* Recording a settlement: the voucher that was mined is the live one.
LEMMA SettlementKeeps ==
    ASSUME ClaimInv, NEW i \in Registered, NEW k \in 1..Len(log), verify_settlement(i, k)
    PROVE  ClaimInv'
<1> DEFINE d == log[k].digest
<1> USE DEF vars, contract, token
<1>1. /\ Typed /\ VouchersTyped /\ EventsTrue /\ RecordsHold /\ ExpiredOver /\ UsedSettled
      /\ OneLive /\ OneHolder /\ HolderRead /\ Accounted
  BY DEF ClaimInv, Inv1, Inv2, Inv3, Inv4
<1>2. /\ settledSeen[i] = Never
      /\ log[k].event = "BountySettled" /\ log[k].id = i
      /\ log[k].amount = Reward[i].amount
      /\ d \in DOMAIN voucher
      /\ latest >= log[k].at + 1
      /\ settledSeen' = [settledSeen EXCEPT ![i] = k]
      /\ voucher' = [voucher EXCEPT ![d] = "used"]
      /\ UNCHANGED <<vars, via, mode, confirmed, fundingSeen, refundSeen, allocated,
                     binding, req>>
  BY DEF verify_settlement, SettlementProof, verify_settlement_receipt, transaction_evidence
<1>3. /\ Len(log) \in Nat /\ k \in 0..Len(log) /\ k # Never
      /\ now \in Nat /\ log[k].at \in Nat
  BY <1>1 DEF Typed, TypeOK, Events, Never
<1>4. /\ d \in signed /\ d.bountyId = i
      /\ bounties[i].state = "Settled"
      /\ bounties[i].amount = Reward[i].amount
  BY <1>1, <1>2 DEF EventsTrue, EventTrue
<1>5. voucher[d] = "live"
  BY <1>1, <1>2, <1>4 DEF VouchersTyped, ExpiredOver, Accounted
<1>6. /\ DOMAIN voucher' = signed
      /\ voucher'[d] = "used"
      /\ \A s \in signed : s # d => voucher'[s] = voucher[s]
  BY <1>1, <1>2 DEF VouchersTyped
<1>7. \A s \in signed : s.bountyId = i /\ s # d => voucher[s] = "expired"
  BY <1>1, <1>2, <1>4, <1>5 DEF OneLive, Accounted, VouchersTyped
<1> HIDE DEF d
<1>8. Inv1'
  <2>1. settledSeen' \in [Registered -> 0..Len(log)]
    BY <1>1, <1>2, <1>3 DEF Typed
  <2>2. Typed'
    BY <1>1, <1>2, <2>1 DEF Typed, TypeOK
  <2>3. VouchersTyped'
    BY <1>1, <1>2, <1>6 DEF VouchersTyped
  <2> QED BY <2>2, <2>3 DEF Inv1
<1>9. EventsTrue' /\ SettledLogged' /\ LeavesOnce'
  BY <1>1, <1>2 DEF EventsTrue, EventTrue, SettledLogged, LeavesOnce, Closing, ClaimInv, Inv2
<1>10. RecordsHold'
  <2>1. log[k].at < latest
    BY <1>2, <1>3 DEF latest
  <2> QED BY <1>1, <1>2, <1>4, <2>1 DEF Typed, RecordsHold, latest
<1>11. Inv3'
  <2>1. ExpiredOver'
    BY <1>1, <1>2, <1>6 DEF ExpiredOver
  <2>2. UsedSettled'
    BY <1>1, <1>2, <1>4, <1>6 DEF UsedSettled
  <2>3. OneLive'
    BY <1>1, <1>2, <1>6 DEF OneLive
  <2> QED BY <2>1, <2>2, <2>3 DEF Inv3
<1>12. Inv4'
  <2>1. OneHolder'
    BY <1>1, <1>2 DEF OneHolder, Holds
  <2>2. HolderRead'
    BY <1>1, <1>2, <1>6 DEF HolderRead, Holds
  <2>3. Accounted'
    <3> SUFFICES ASSUME NEW n \in Registered
                 PROVE
        /\ settledSeen'[n] = Never =>
               \A s \in signed : s.bountyId = n => voucher'[s] # "used"
        /\ settledSeen'[n] # Never =>
               /\ log[settledSeen'[n]].digest \in signed
               /\ log[settledSeen'[n]].digest.bountyId = n
               /\ \A s \in signed : s.bountyId = n =>
                      /\ voucher'[s] # "live"
                      /\ voucher'[s] = "used" <=> s = log[settledSeen'[n]].digest
      BY <1>2 DEF Accounted
    <3>1. CASE n = i
      <4>1. settledSeen'[n] = k /\ log[k].digest = d
        BY <1>1, <1>2, <3>1 DEF Typed, d
      <4> QED BY <1>3, <1>4, <1>6, <1>7, <3>1, <4>1
    <3>2. CASE n # i
      <4>1. settledSeen'[n] = settledSeen[n]
        BY <1>1, <1>2, <3>2 DEF Typed
      <4>2. \A s \in signed : s.bountyId = n => voucher'[s] = voucher[s]
        BY <1>4, <1>6, <3>2
      <4> QED BY <1>1, <4>1, <4>2 DEF Accounted
    <3> QED BY <3>1, <3>2
  <2> QED BY <2>1, <2>2, <2>3 DEF Inv4
<1> QED BY <1>8, <1>9, <1>10, <1>11, <1>12 DEF ClaimInv, Inv2

-----------------------------------------------------------------------------
(* Voucher requests.                                                       *)

\* A request that reads, refuses or waits: its own entry alone changes.
LEMMA RequestKeeps ==
    ASSUME ClaimInv, NEW r \in Requests, NEW x \in Reqs,
           req' = [req EXCEPT ![r] = x],
           UNCHANGED <<vars, via, mode, confirmed, evidence, claims>>,
           x.pc \in {"locked", "checked"} =>
               /\ x.at < now
               /\ \A s \in signed : s.bountyId = x.bounty /\ voucher[s] = "live" =>
                      s.deadline <= x.at
               /\ x.pc = "checked" => bounties[x.bounty].state # "Settled"
               /\ \A q \in Requests : q # r /\ Holds(q) => req[q].bounty # x.bounty
    PROVE  ClaimInv'
<1>1. Typed /\ OneHolder /\ HolderRead
  BY DEF ClaimInv, Inv1, Inv4
<1>2. req' \in [Requests -> Reqs]
  BY <1>1 DEF Typed
<1>3. req'[r] = x /\ \A q \in Requests : q # r => req'[q] = req[q]
  BY <1>1 DEF Typed
<1>4. OneHolder'
  BY <1>1, <1>3 DEF OneHolder, Holds
<1>5. HolderRead'
  BY <1>1, <1>3 DEF HolderRead, Holds, vars, contract, claims
<1>6. mode' \in Modes /\ confirmed' \subseteq 1..Len(log) /\ allocated' \in [Registered -> BOOLEAN]
  BY <1>1 DEF Typed, claims
<1> QED BY <1>2, <1>4, <1>5, <1>6, HandlerKeeps DEF claims

LEMMA BeginKeeps ==
    ASSUME ClaimConstants, ClaimInv, NEW r \in Requests, NEW i \in Registered, VoucherBegin(r, i)
    PROVE  ClaimInv'
<1> DEFINE x == [pc |-> "waiting", bounty |-> i,
                 recipient |-> IF binding[i] # NoOne THEN binding[i] ELSE Linked]
<1>1. x \in Reqs
  BY DEF ClaimInv, Inv1, Typed, Reqs, Linked, ClaimConstants
<1>2. x.pc = "waiting"
  OBVIOUS
<1>3. /\ req' = [req EXCEPT ![r] = x]
      /\ UNCHANGED <<vars, via, mode, confirmed, evidence, claims>>
  BY DEF VoucherBegin
<1> HIDE DEF x
<1> QED BY <1>1, <1>2, <1>3, RequestKeeps

LEMMA RefuseKeeps ==
    ASSUME ClaimInv, NEW r \in Requests, req' = [req EXCEPT ![r] = Idle],
           UNCHANGED <<vars, via, mode, confirmed, evidence, claims>>
    PROVE  ClaimInv'
<1>1. Idle \in Reqs /\ Idle.pc = "idle"
  BY DEF Reqs, Idle
<1> QED BY <1>1, RequestKeeps

\* The lock is granted when nobody else holds the allocation.
LEMMA LockKeeps ==
    ASSUME ClaimInv, NEW r \in Requests, VoucherLock(r)
    PROVE  ClaimInv'
<1> DEFINE i == req[r].bounty
           x == [pc |-> "locked", bounty |-> i, recipient |-> req[r].recipient, at |-> latest]
<1>1. Typed /\ VouchersTyped
  BY DEF ClaimInv, Inv1
<1>2. /\ req[r].pc = "waiting" /\ LockFree(i) /\ now > 0
      /\ UNCHANGED <<vars, via, mode, confirmed, evidence, claims>>
      /\ \/ req' = [req EXCEPT ![r] = Idle]
         \/ /\ req' = [req EXCEPT ![r] = x]
            /\ ~ \E s \in Live(i) : s.deadline > latest
  BY DEF VoucherLock
<1>3. CASE req' = [req EXCEPT ![r] = Idle]
  BY <1>2, <1>3, RefuseKeeps
<1>4. CASE /\ req' = [req EXCEPT ![r] = x]
           /\ ~ \E s \in Live(i) : s.deadline > latest
  <2>1. now \in Nat /\ latest \in Nat /\ latest < now
    BY <1>1, <1>2 DEF Typed, TypeOK, latest
  <2>2. i \in Registered /\ req[r].recipient \in Accounts
    BY <1>1, <1>2 DEF Typed, Reqs, Idle
  <2>3. x \in Reqs
    BY <2>1, <2>2 DEF Reqs
  <2>4. \A s \in signed : s.bountyId = i /\ voucher[s] = "live" => s.deadline <= latest
    <3> SUFFICES ASSUME NEW s \in signed, s.bountyId = i, voucher[s] = "live"
                 PROVE  s.deadline <= latest
      OBVIOUS
    <3>1. s \in Live(i)
      BY <1>1 DEF VouchersTyped, Live
    <3>2. s.deadline \in Nat
      BY <1>1 DEF Typed, TypeOK, Settlements
    <3> QED BY <1>4, <2>1, <3>1, <3>2
  <2>5. \A q \in Requests : q # r /\ Holds(q) => req[q].bounty # i
    BY <1>2 DEF LockFree, Holds
  <2>6. x.pc = "locked" /\ x.bounty = i /\ x.at = latest
    OBVIOUS
  <2> HIDE DEF x, i
  <2> QED BY <1>2, <1>4, <2>1, <2>3, <2>4, <2>5, <2>6, RequestKeeps
<1> QED BY <1>2, <1>3, <1>4

\* What the contract showed at the latest block, no settlement since can have
\* changed: nobody held an authorization that was still good.
LEMMA CheckKeeps ==
    ASSUME ClaimConstants, ClaimInv, NEW r \in Requests, VoucherCheck(r)
    PROVE  ClaimInv'
<1> DEFINE i == req[r].bounty
           x == [pc |-> "checked", bounty |-> i, recipient |-> req[r].recipient,
                 at |-> req[r].at]
<1>1. /\ Typed /\ VouchersTyped /\ EventsTrue /\ RecordsHold /\ ExpiredOver /\ OneHolder
      /\ HolderRead /\ Accounted
  BY DEF ClaimInv, Inv1, Inv2, Inv3, Inv4
<1>2. /\ req[r].pc = "locked" /\ bounty_state(i) = "Funded"
      /\ req' = [req EXCEPT ![r].pc = "checked"]
      /\ UNCHANGED <<vars, via, mode, confirmed, evidence, claims>>
  BY DEF VoucherCheck, OnChain
<1>3. req[r] \in [pc : {"locked", "checked"}, bounty : Registered, recipient : Accounts, at : Nat]
  BY <1>1, <1>2 DEF Typed, Reqs, Idle
<1>4. req' = [req EXCEPT ![r] = x]
  <2>1. [req[r] EXCEPT !.pc = "checked"] = x
    BY <1>3
  <2> QED BY <1>2, <2>1
<1>5. x \in Reqs /\ i \in Registered /\ req[r].at \in Nat /\ Holds(r)
  BY <1>2, <1>3 DEF Reqs, Holds
<1>6. /\ req[r].at < now
      /\ \A s \in signed : s.bountyId = i /\ voucher[s] = "live" => s.deadline <= req[r].at
  BY <1>1, <1>5 DEF HolderRead
<1>7. \A k \in 1..Len(log) : log[k].id = i /\ Closing(log[k]) => ~(log[k].at <= latest)
  BY <1>2 DEF bounty_state, Sealed
<1>8. bounties[i].state # "Settled"
  <2> SUFFICES ASSUME bounties[i].state = "Settled" PROVE FALSE
    OBVIOUS
  <2>1. PICK k \in 1..Len(log) : log[k].event = "BountySettled" /\ log[k].id = i
    BY <1>5 DEF ClaimInv, Inv2, SettledLogged, ClaimConstants
  <2>2. now \in Nat /\ log[k].at \in Nat /\ log[k].at > latest
    <3>1. now \in Nat /\ log[k].at \in Nat
      BY <1>1, EventAt DEF Typed, TypeOK
    <3>2. ~(log[k].at <= latest)
      BY <1>7, <2>1 DEF Closing
    <3> QED BY <3>1, <3>2 DEF latest
  <2> DEFINE d == log[k].digest
  <2>3. d \in signed /\ d.bountyId = i /\ log[k].at < d.deadline /\ d.deadline \in Nat
    BY <1>1, <2>1 DEF EventsTrue, EventTrue, Typed, TypeOK, Settlements
  <2>4. CASE voucher[d] = "live"
    BY <1>5, <1>6, <2>2, <2>3, <2>4 DEF latest
  <2>5. CASE voucher[d] = "expired"
    BY <1>1, <2>1, <2>3, <2>5 DEF ExpiredOver
  <2>6. CASE voucher[d] = "used"
    <3>1. settledSeen[i] # Never /\ settledSeen[i] \in 1..Len(log)
      BY <1>1, <1>5, <2>3, <2>6 DEF Accounted, Typed, Never
    <3>2. /\ log[settledSeen[i]].event = "BountySettled"
          /\ log[settledSeen[i]].id = i
          /\ log[settledSeen[i]].at < latest
      BY <1>1, <1>5, <3>1 DEF RecordsHold
    <3>3. log[settledSeen[i]].at \in Nat
      BY <1>1, <3>1, EventAt DEF Typed
    <3> QED BY <1>7, <2>2, <3>1, <3>2, <3>3 DEF Closing, latest
  <2> QED BY <1>1, <2>3, <2>4, <2>5, <2>6 DEF VouchersTyped
<1>9. \A q \in Requests : q # r /\ Holds(q) => req[q].bounty # i
  BY <1>1, <1>5 DEF OneHolder
<1>10. x.pc = "checked" /\ x.bounty = i /\ x.at = req[r].at
  OBVIOUS
<1> HIDE DEF x, i
<1>11. /\ x.at < now
       /\ \A s \in signed : s.bountyId = x.bounty /\ voucher[s] = "live" => s.deadline <= x.at
       /\ x.pc = "checked" => bounties[x.bounty].state # "Settled"
       /\ \A q \in Requests : q # r /\ Holds(q) => req[q].bounty # x.bounty
  BY <1>6, <1>8, <1>9, <1>10
<1>12. UNCHANGED <<vars, via, mode, confirmed, evidence, claims>>
  BY <1>2
<1>13. x \in Reqs
  BY <1>5
<1> QED BY <1>4, <1>11, <1>12, <1>13, RequestKeeps

\* A new authorization: the one before it has run out, and was not settled.
LEMMA SignKeeps ==
    ASSUME EscrowConstants, ClaimConstants, ClaimInv, NEW r \in Requests, VoucherSign(r)
    PROVE  ClaimInv'
<1> DEFINE i == req[r].bounty
           who == req[r].recipient
           s == typed_data(i, who, req[r].at)
<1>1. /\ Typed /\ VouchersTyped /\ EventsTrue /\ SettledLogged /\ LeavesOnce /\ RecordsHold
      /\ ExpiredOver /\ UsedSettled /\ OneLive /\ OneHolder /\ HolderRead /\ Accounted
  BY DEF ClaimInv, Inv1, Inv2, Inv3, Inv4
<1>2. /\ req[r].pc = "checked"
      /\ binding[i] \in {NoOne, who}
      /\ s \notin signed
      /\ binding' = [binding EXCEPT ![i] = who]
      /\ voucher' = Issue(i, s)
      /\ signed' = signed \cup {s}
      /\ req' = [req EXCEPT ![r] = Idle]
      /\ UNCHANGED <<now, contract, token, via, mode, confirmed, evidence, allocated>>
  BY DEF VoucherSign, BoundTo
<1>3. i \in Registered /\ who \in Accounts /\ req[r].at \in Nat /\ Holds(r)
  BY <1>1, <1>2 DEF Typed, Reqs, Idle, Holds
<1>4. i \in BountyIds /\ now \in Nat
  BY <1>1, <1>3 DEF ClaimConstants, Typed, TypeOK
<1>5. /\ req[r].at < now
      /\ \A u \in signed : u.bountyId = i /\ voucher[u] = "live" => u.deadline <= req[r].at
      /\ bounties[i].state # "Settled"
  BY <1>1, <1>2, <1>3 DEF HolderRead
<1>6. s.bountyId = i /\ s.recipient = who /\ s \in Settlements
  <2>1. claimUntil(i) \in Nat /\ Reward[i].amount \in Nat
    BY <1>3 DEF claimUntil, ClaimConstants, EscrowConstants
  <2>2. Earlier(req[r].at + VoucherLife, claimUntil(i)) \in Nat
    BY <1>3, <2>1 DEF Earlier, ClaimConstants
  <2> QED BY <1>3, <1>4, <2>1, <2>2 DEF typed_data, Settlements, EscrowConstants
<1> HIDE DEF s
<1>7. DOMAIN voucher = signed
  BY <1>1 DEF VouchersTyped
<1>8. /\ DOMAIN voucher' = signed'
      /\ voucher'[s] = "live"
      /\ \A u \in signed : voucher'[u] = IF u.bountyId = i /\ voucher[u] = "live"
                                         THEN "expired" ELSE voucher[u]
  BY <1>2, <1>7 DEF Issue, Live
<1>9. \A u \in signed : u.bountyId = i => voucher[u] # "used"
  BY <1>1, <1>5 DEF UsedSettled
<1>10. \A u \in signed : u.bountyId = i => u.recipient = who /\ u.recipient = binding[i]
  BY <1>1, <1>2, <1>3 DEF VouchersTyped, ClaimConstants
<1> USE DEF contract, token, evidence
<1>11. /\ binding'[i] = who
       /\ \A n \in Registered : n # i => binding'[n] = binding[n]
  BY <1>1, <1>2, <1>3 DEF Typed
<1>12. Inv1'
  <2>1. binding' \in [Registered -> Accounts \cup {NoOne}]
    BY <1>1, <1>2, <1>3 DEF Typed
  <2>2. req' \in [Requests -> Reqs]
    BY <1>1, <1>2 DEF Typed, Reqs
  <2>3. TypeOK'
    BY <1>1, <1>2, <1>6 DEF Typed, TypeOK
  <2>4. Typed'
    BY <1>1, <1>2, <2>1, <2>2, <2>3 DEF Typed
  <2>5. VouchersTyped'
    <3> SUFFICES ASSUME NEW u \in signed'
                 PROVE  /\ voucher'[u] \in {"live", "expired", "used"}
                        /\ u.bountyId \in Registered
                        /\ u.recipient \in Accounts
                        /\ u.recipient = binding'[u.bountyId]
      BY <1>8 DEF VouchersTyped
    <3>1. CASE u = s
      BY <1>3, <1>6, <1>8, <1>11, <3>1
    <3>2. CASE u \in signed
      BY <1>1, <1>8, <1>10, <1>11, <3>2 DEF VouchersTyped
    <3> QED BY <1>2, <3>1, <3>2
  <2> QED BY <2>4, <2>5 DEF Inv1
<1>13. EventsTrue' /\ SettledLogged' /\ LeavesOnce' /\ RecordsHold'
  BY <1>1, <1>2 DEF EventsTrue, EventTrue, SettledLogged, LeavesOnce, Closing, RecordsHold, latest
<1>14. ExpiredOver'
  <2> SUFFICES ASSUME NEW u \in signed', voucher'[u] = "expired"
               PROVE  /\ u.deadline < now
                      /\ \A k \in 1..Len(log) : log[k].event = "BountySettled" =>
                                                    log[k].digest # u
    BY <1>2 DEF ExpiredOver
  <2>1. u \in signed
    BY <1>2, <1>8
  <2>2. CASE u.bountyId = i /\ voucher[u] = "live"
    <3>1. u.deadline \in Nat /\ u.deadline <= req[r].at
      BY <1>1, <1>5, <2>1, <2>2 DEF Typed, TypeOK, Settlements
    <3>2. \A k \in 1..Len(log) : log[k].event = "BountySettled" => log[k].digest # u
      BY <1>1, <1>5, <2>2 DEF EventsTrue, EventTrue
    <3> QED BY <1>3, <1>4, <1>5, <3>1, <3>2
  <2>3. CASE voucher[u] = "expired"
    BY <1>1, <2>1, <2>3 DEF ExpiredOver
  <2> QED BY <1>8, <2>1, <2>2, <2>3
<1>15. UsedSettled'
  <2> SUFFICES ASSUME NEW u \in signed', voucher'[u] = "used"
               PROVE  bounties[u.bountyId].state = "Settled"
    BY <1>2 DEF UsedSettled
  <2>1. u \in signed /\ voucher[u] = "used"
    BY <1>2, <1>8
  <2> QED BY <1>1, <2>1 DEF UsedSettled
<1>16. OneLive'
  <2> SUFFICES ASSUME NEW u \in signed', NEW w \in signed', u.bountyId = w.bountyId,
                      voucher'[u] = "live", voucher'[w] = "live"
               PROVE  u = w
    BY DEF OneLive
  <2>1. \A x \in signed' : x # s /\ voucher'[x] = "live" =>
            x \in signed /\ voucher[x] = "live" /\ x.bountyId # i
    BY <1>2, <1>8
  <2> QED BY <1>1, <1>6, <2>1 DEF OneLive
<1>17. OneHolder'
  BY <1>1, <1>2 DEF Typed, OneHolder, Holds, Idle
<1>18. HolderRead'
  <2> SUFFICES ASSUME NEW q \in Requests, Holds(q)'
               PROVE  /\ req'[q].at < now
                      /\ \A u \in signed' : u.bountyId = req'[q].bounty /\ voucher'[u] = "live" =>
                             u.deadline <= req'[q].at
                      /\ req'[q].pc = "checked" => bounties[req'[q].bounty].state # "Settled"
    BY <1>2 DEF HolderRead
  <2>1. q # r /\ req'[q] = req[q] /\ Holds(q)
    BY <1>1, <1>2 DEF Typed, Holds, Idle
  <2>2. req[q].bounty # i
    BY <1>1, <1>3, <2>1 DEF OneHolder
  <2>3. \A u \in signed' : u.bountyId = req[q].bounty /\ voucher'[u] = "live" =>
            u \in signed /\ voucher[u] = "live"
    BY <1>2, <1>6, <1>8, <2>2
  <2> QED BY <1>1, <2>1, <2>3 DEF HolderRead
<1>19. Accounted'
  <2> SUFFICES ASSUME NEW n \in Registered
               PROVE
        /\ settledSeen[n] = Never =>
               \A u \in signed' : u.bountyId = n => voucher'[u] # "used"
        /\ settledSeen[n] # Never =>
               /\ log[settledSeen[n]].digest \in signed'
               /\ log[settledSeen[n]].digest.bountyId = n
               /\ \A u \in signed' : u.bountyId = n =>
                      /\ voucher'[u] # "live"
                      /\ voucher'[u] = "used" <=> u = log[settledSeen[n]].digest
    BY <1>2 DEF Accounted
  <2>1. CASE n = i
    <3>1. settledSeen[i] = Never
      <4> SUFFICES ASSUME settledSeen[i] # Never PROVE FALSE
        OBVIOUS
      <4>1. settledSeen[i] \in 1..Len(log)
        BY <1>1, <1>3 DEF Typed, Never
      <4> QED BY <1>1, <1>3, <1>5, <4>1 DEF RecordsHold, EventsTrue, EventTrue
    <3> QED BY <1>2, <1>8, <1>9, <2>1, <3>1
  <2>2. CASE n # i
    <3>1. \A u \in signed' : u.bountyId = n => u \in signed /\ voucher'[u] = voucher[u]
      BY <1>2, <1>6, <1>8, <2>2
    <3> QED BY <1>1, <1>2, <3>1 DEF Accounted
  <2> QED BY <2>1, <2>2
<1> QED BY <1>12, <1>13, <1>14, <1>15, <1>16, <1>17, <1>18, <1>19
        DEF ClaimInv, Inv2, Inv3, Inv4

-----------------------------------------------------------------------------
(* The chain and the records only go forward.                              *)

Onward ==
    /\ now \in Nat /\ now' \in Nat /\ now <= now'
    /\ signed \subseteq signed'
    /\ Len(log) \in Nat /\ Len(log') \in Nat /\ Len(log) <= Len(log')
    /\ \A k \in 1..Len(log) : log'[k] = log[k]
    /\ \A k \in (Len(log) + 1)..Len(log') : log'[k].at = now
    /\ \A i \in Registered :
           /\ fundingSeen[i] # Never => fundingSeen'[i] = fundingSeen[i]
           /\ settledSeen[i] # Never => settledSeen'[i] # Never
           /\ refundSeen[i] # Never => refundSeen'[i] # Never

LEMMA HappensOnward ==
    ASSUME ClaimInv, NEW e, NEW i \in BountyIds, Happens(e, i), UNCHANGED backend
    PROVE  Onward
<1>1. TypeOK /\ Len(log) \in Nat /\ now \in Nat
  BY DEF ClaimInv, Inv1, Typed, TypeOK
<1> QED BY <1>1 DEF Happens, Emits, Onward, backend, evidence

LEMMA EvidenceOnward ==
    ASSUME ClaimInv, NEW i \in Registered, NEW k \in 1..Len(log), Verify(i, k)
    PROVE  Onward /\ UNCHANGED confirmed
<1>1. Typed /\ Len(log) \in Nat /\ now \in Nat
  BY DEF ClaimInv, Inv1, Typed, TypeOK
<1>2. k # Never
  BY <1>1 DEF Never
<1>3. UNCHANGED <<now, log, confirmed>> /\ signed \subseteq signed'
  BY DEF Verify, verify_funding, verify_settlement, verify_refund, vars, contract
<1>4. \A n \in Registered : /\ fundingSeen[n] # Never => fundingSeen'[n] = fundingSeen[n]
                            /\ settledSeen[n] # Never => settledSeen'[n] # Never
                            /\ refundSeen[n] # Never => refundSeen'[n] # Never
  <2>1. CASE verify_funding(i, k)
    BY <1>1, <2>1 DEF verify_funding, Typed
  <2>2. CASE verify_settlement(i, k)
    BY <1>1, <1>2, <2>2 DEF verify_settlement, Typed
  <2>3. CASE verify_refund(i, k)
    BY <1>1, <1>2, <2>3 DEF verify_refund, Typed
  <2> QED BY <2>1, <2>2, <2>3 DEF Verify
<1> QED BY <1>1, <1>3, <1>4 DEF Onward

LEMMA StillOnward ==
    ASSUME ClaimInv, UNCHANGED <<now, log, evidence>>, signed \subseteq signed'
    PROVE  Onward
<1>1. Len(log) \in Nat /\ now \in Nat
  BY DEF ClaimInv, Inv1, Typed, TypeOK
<1> QED BY <1>1 DEF Onward, evidence

\* So does every step.
LEMMA ClaimsOnward ==
    ASSUME EscrowConstants, ClaimConstants, ClaimInv, [ClaimNext]_allVars
    PROVE  Onward
<1>1. TypeOK /\ now \in Nat /\ Len(log) \in Nat
  BY DEF ClaimInv, Inv1, Typed, TypeOK
<1>2. ASSUME NEW i \in Registered, NEW m \in Amounts, NEW t \in WorkEnds, Fund(i, m, t)
      PROVE  Onward
  <2>1. /\ i \in BountyIds /\ i[1] \in Accounts /\ i[2] \in Refs /\ i = <<i[1], i[2]>>
        /\ m \in Nat /\ t \in Nat
    BY DEF BountyIds, ClaimConstants, EscrowConstants
  <2>2. fund(i[1], i[2], m, t) /\ UNCHANGED backend
    BY <1>2 DEF Fund
  <2> QED BY <1>1, <2>1, <2>2, FundHappens, HappensOnward
<1>3. ASSUME NEW s \in signed, Settle(s) PROVE Onward
  <2>1. s.bountyId \in BountyIds
    BY <1>1 DEF TypeOK, Settlements
  <2>2. settle(s) /\ UNCHANGED backend
    BY <1>3 DEF Settle
  <2> QED BY <1>1, <2>1, <2>2, SettleHappens, HappensOnward
<1>4. ASSUME NEW i \in Registered, Refund(i) PROVE Onward
  <2>1. i \in BountyIds
    BY DEF ClaimConstants
  <2>2. refund(i) /\ UNCHANGED backend
    BY <1>4 DEF Refund
  <2> QED BY <1>1, <2>1, <2>2, RefundHappens, HappensOnward
<1>5. CASE NextBlock
  <2>1. now' = now + 1 /\ UNCHANGED <<log, signed, fundingSeen, settledSeen, refundSeen>>
    BY <1>5 DEF NextBlock, Tick, contract, backend, evidence
  <2> QED BY <1>1, <2>1 DEF Onward
<1>6. ASSUME NEW i \in Registered, NEW k \in 1..Len(log), Verify(i, k) PROVE Onward
  BY <1>6, EvidenceOnward
<1>7. CASE \/ Redeploy
           \/ \E k \in 1..Len(log) : ConfirmOperation(k) \/ ResendOperation(k)
           \/ \E i \in Registered, t \in Merges : reserve_cash_allocation(i, t)
           \/ UNCHANGED allVars
  <2>1. UNCHANGED <<vars, evidence>>
    BY <1>7 DEF Redeploy, ConfirmOperation, ResendOperation, reserve_cash_allocation, allVars, backend
  <2> QED BY <2>1, StillOnward DEF vars, contract
<1>8. ASSUME NEW r \in Requests, VoucherRequest(r) PROVE Onward
  <2>1. UNCHANGED <<now, log, evidence>> /\ signed \subseteq signed'
    BY <1>8 DEF VoucherRequest, VoucherBegin, VoucherLock, VoucherCheck, VoucherSign,
                VoucherRefuse, vars, contract
  <2> QED BY <2>1, StillOnward
<1> QED BY <1>2, <1>3, <1>4, <1>5, <1>6, <1>7, <1>8 DEF ClaimNext, Chain

-----------------------------------------------------------------------------
(* The specification.                                                      *)

LEMMA ClaimInitHolds ==
    ASSUME EscrowConstants, ClaimInit PROVE ClaimInv
<1>1. TypeOK /\ Len(log) = 0 /\ signed = {}
  <2>1. Absent \in Bounty
    BY DEF Absent, Bounty, State
  <2>2. balance \in [Accounts \cup {Escrow} -> Nat]
    BY EscrowConstants DEF ClaimInit, Init
  <2>3. log \in Seq(Events) /\ Len(log) = 0
    BY DEF ClaimInit, Init
  <2> QED BY <2>1, <2>2, <2>3 DEF ClaimInit, Init, TypeOK
<1>2. Typed
  <2>1. via \in Seq(Vias) /\ Len(via) = 0
    BY DEF ClaimInit
  <2> QED BY <1>1, <2>1 DEF ClaimInit, Typed, Reqs, Never
<1>3. DOMAIN voucher = {}
  <2>1. voucher = <<>>
    BY DEF ClaimInit
  <2> QED BY <2>1
<1>4. VouchersTyped
  BY <1>1, <1>3 DEF VouchersTyped
<1>5. EventsTrue /\ SettledLogged /\ LeavesOnce /\ RecordsHold
  BY <1>1 DEF ClaimInit, Init, Absent, EventsTrue, SettledLogged, LeavesOnce, RecordsHold
<1>6. Inv3
  BY <1>1 DEF Inv3, ExpiredOver, UsedSettled, OneLive
<1>7. OneHolder /\ HolderRead
  BY DEF ClaimInit, Idle, OneHolder, HolderRead, Holds
<1>8. Accounted
  BY <1>1 DEF ClaimInit, Accounted
<1> QED BY <1>2, <1>4, <1>5, <1>6, <1>7, <1>8 DEF ClaimInv, Inv1, Inv2, Inv4

\* Whatever the chain and the requests do, in whatever order.
LEMMA ClaimStep ==
    ASSUME EscrowConstants, ClaimConstants, ClaimInv, [ClaimNext]_allVars
    PROVE  ClaimInv'
<1>1. Typed
  BY DEF ClaimInv, Inv1
<1>2. ASSUME NEW i \in Registered, NEW m \in Amounts, NEW t \in WorkEnds, Fund(i, m, t)
      PROVE  ClaimInv'
  BY <1>2, FundKeeps DEF Fund, EscrowConstants
<1>3. ASSUME NEW s \in signed, Settle(s) PROVE ClaimInv'
  BY <1>3, SettleKeeps DEF Settle
<1>4. ASSUME NEW i \in Registered, Refund(i) PROVE ClaimInv'
  BY <1>4, RefundKeeps DEF Refund
<1>5. CASE NextBlock
  BY <1>5, BlockKeeps
<1>6. CASE Redeploy
  BY <1>1, <1>6, OtherHandlerKeeps DEF Redeploy, Typed, claims
<1>7. ASSUME NEW k \in 1..Len(log), ConfirmOperation(k) \/ ResendOperation(k)
      PROVE  ClaimInv'
  BY <1>1, <1>7, OtherHandlerKeeps DEF ConfirmOperation, ResendOperation, Typed, claims
<1>8. ASSUME NEW i \in Registered, NEW k \in 1..Len(log), Verify(i, k) PROVE ClaimInv'
  BY <1>8, EvidenceKeeps, SettlementKeeps DEF Verify
<1>9. ASSUME NEW i \in Registered, NEW t \in Merges, reserve_cash_allocation(i, t)
      PROVE  ClaimInv'
  <2>1. allocated' \in [Registered -> BOOLEAN]
    BY <1>1, <1>9 DEF reserve_cash_allocation, Typed
  <2> QED BY <1>1, <1>9, <2>1, OtherHandlerKeeps DEF reserve_cash_allocation, Typed
<1>10. ASSUME NEW r \in Requests, VoucherRequest(r) PROVE ClaimInv'
  BY <1>10, BeginKeeps, LockKeeps, CheckKeeps, SignKeeps, RefuseKeeps
     DEF VoucherRequest, VoucherRefuse
<1>11. CASE UNCHANGED allVars
  BY <1>1, <1>11, OtherHandlerKeeps DEF allVars, backend, claims, Typed
<1> QED BY <1>2, <1>3, <1>4, <1>5, <1>6, <1>7, <1>8, <1>9, <1>10, <1>11 DEF ClaimNext, Chain

\* The inductive invariant holds of every reachable state.
THEOREM ClaimInvariant == ClaimSpec => []ClaimInv
<1>1. ClaimInit => ClaimInv
  BY EscrowConstants, ClaimInitHolds
<1>2. ClaimInv /\ [ClaimNext]_allVars => ClaimInv'
  BY EscrowConstants, ClaimConstants, ClaimStep
<1> QED BY <1>1, <1>2, PTL DEF ClaimSpec

LEMMA InvTyped == ClaimInv => ClaimTypeOK
<1> SUFFICES ASSUME ClaimInv PROVE ClaimTypeOK
  OBVIOUS
<1>1. Typed /\ VouchersTyped
  BY DEF ClaimInv, Inv1
<1>2. \A r \in Requests : req[r].pc \in {"idle", "waiting", "locked", "checked"}
  BY <1>1 DEF Typed, Reqs, Idle
<1> QED BY <1>1, <1>2 DEF Typed, VouchersTyped, ClaimTypeOK

LEMMA InvUsable == ClaimInv => OneUsable
<1> SUFFICES ASSUME ClaimInv, NEW s \in signed, NEW u \in signed,
                    s.bountyId = u.bountyId, bounties[s.bountyId].state = "Funded",
                    now < s.deadline, now < u.deadline
             PROVE  s = u
  BY DEF OneUsable
<1>1. /\ Typed /\ VouchersTyped /\ ExpiredOver /\ UsedSettled /\ OneLive
  BY DEF ClaimInv, Inv1, Inv3
<1>2. now \in Nat /\ s.deadline \in Nat /\ u.deadline \in Nat
  BY <1>1 DEF Typed, TypeOK, Settlements
<1>3. voucher[s] = "live" /\ voucher[u] = "live"
  BY <1>1, <1>2 DEF VouchersTyped, ExpiredOver, UsedSettled
<1> QED BY <1>1, <1>3 DEF OneLive

LEMMA InvPaysBound == ClaimInv => PaysBound
BY DEF ClaimInv, Inv1, Inv2, VouchersTyped, EventsTrue, EventTrue, PaysBound

LEMMA InvEvidence == ClaimInv => EvidenceTrue
<1> SUFFICES ASSUME ClaimInv, NEW i \in Registered
             PROVE  /\ \/ /\ fundingSeen[i] = Never /\ settledSeen[i] = Never
                          /\ refundSeen[i] = Never
                       \/ bounties[i].amount = Reward[i].amount
                    /\ fundingSeen[i] # Never => /\ bounties[i].workEndsAt = Reward[i].workEndsAt
                                                 /\ bounties[i].state # "Absent"
                    /\ settledSeen[i] # Never => bounties[i].state = "Settled"
                    /\ refundSeen[i] # Never => bounties[i].state = "Refunded"
  BY DEF EvidenceTrue
<1>1. Typed /\ EventsTrue /\ RecordsHold
  BY DEF ClaimInv, Inv1, Inv2
<1>2. /\ fundingSeen[i] # Never => fundingSeen[i] \in 1..Len(log)
      /\ settledSeen[i] # Never => settledSeen[i] \in 1..Len(log)
      /\ refundSeen[i] # Never => refundSeen[i] \in 1..Len(log)
  BY <1>1 DEF Typed, Never
<1> QED BY <1>1, <1>2 DEF RecordsHold, EventsTrue, EventTrue

LEMMA InvVouchers == ClaimInv => VouchersAccounted
<1> SUFFICES ASSUME ClaimInv, NEW i \in Registered
             PROVE  LET used == {s \in DOMAIN voucher : s.bountyId = i /\ voucher[s] = "used"}
                    IN  IF settledSeen[i] = Never THEN used = {}
                        ELSE used = {log[settledSeen[i]].digest} /\ Live(i) = {}
  BY DEF VouchersAccounted
<1>1. DOMAIN voucher = signed /\ Accounted
  BY DEF ClaimInv, Inv1, Inv4, VouchersTyped
<1>2. CASE settledSeen[i] = Never
  BY <1>1, <1>2 DEF Accounted
<1>3. CASE settledSeen[i] # Never
  BY <1>1, <1>3 DEF Accounted, Live
<1> QED BY <1>2, <1>3

\* Records, vouchers and requests keep their shape, and every authorization in
\* circulation is on record.
THEOREM ClaimsTyped == ClaimSpec => []ClaimTypeOK
BY ClaimInvariant, InvTyped, PTL

\* The contract would accept at most one authorization for a bounty at any
\* moment, with any number of overlapping requests and any delay between their
\* reads of the chain.
THEOREM OneAuthorization == ClaimSpec => []OneUsable
BY ClaimInvariant, InvUsable, PTL

\* The recipient of a reward is frozen at its first voucher.
THEOREM RecipientFrozen == ClaimSpec => []PaysBound
BY ClaimInvariant, InvPaysBound, PTL

\* What is recorded of funding, payment and refund is so in the contract.
THEOREM RecordsTrue == ClaimSpec => []EvidenceTrue
BY ClaimInvariant, InvEvidence, PTL

\* The used voucher of a bounty is the one whose settlement is recorded.
THEOREM VouchersTrue == ClaimSpec => []VouchersAccounted
BY ClaimInvariant, InvVouchers, PTL

-----------------------------------------------------------------------------
(* The contract inside the system: the backend signs what requests ask for *)
(* and never more than the contract was proved to bear.                    *)

\* Every step of the system is one of the contract's, a signature, or nothing
\* to the contract.
LEMMA ClaimStepIsOpen == ClaimInv /\ [ClaimNext]_allVars => [OpenNext]_vars
<1> SUFFICES ASSUME ClaimInv, ClaimInv', [ClaimNext]_allVars PROVE [OpenNext]_vars
  BY EscrowConstants, ClaimConstants, ClaimStep
<1>1. TypeOK /\ TypeOK'
  BY DEF ClaimInv, Inv1, Typed
<1>2. ASSUME NEW i \in Registered, NEW m \in Amounts, NEW t \in WorkEnds, Fund(i, m, t)
      PROVE  OpenNext
  <2>1. i[1] \in Accounts /\ i[2] \in Refs
    BY ClaimConstants DEF ClaimConstants, BountyIds
  <2> QED BY <1>2, <2>1 DEF Fund, OpenNext
<1>3. ASSUME NEW s \in signed, Settle(s) PROVE OpenNext
  BY <1>1, <1>3 DEF Settle, OpenNext, TypeOK
<1>4. ASSUME NEW i \in Registered, Refund(i) PROVE OpenNext
  BY <1>4, ClaimConstants DEF ClaimConstants, Refund, OpenNext
<1>5. ASSUME NEW r \in Requests, VoucherSign(r) PROVE Authorize
  <2>1. signed \subseteq signed' /\ UNCHANGED <<now, contract, token>>
    BY <1>5 DEF VoucherSign
  <2> QED BY <1>1, <2>1 DEF Authorize, TypeOK
<1>6. ASSUME NEW r \in Requests, VoucherRequest(r), ~VoucherSign(r) PROVE UNCHANGED vars
  BY <1>6 DEF VoucherRequest, VoucherBegin, VoucherLock, VoucherCheck, VoucherRefuse
<1>7. ASSUME NEW i \in Registered, NEW k \in 1..Len(log), Verify(i, k) PROVE UNCHANGED vars
  BY <1>7 DEF Verify, verify_funding, verify_settlement, verify_refund
<1>8. CASE \/ Redeploy
           \/ \E k \in 1..Len(log) : ConfirmOperation(k) \/ ResendOperation(k)
           \/ \E i \in Registered, t \in Merges : reserve_cash_allocation(i, t)
           \/ UNCHANGED allVars
  BY <1>8 DEF Redeploy, ConfirmOperation, ResendOperation, reserve_cash_allocation, allVars
<1>9. CASE NextBlock
  BY <1>9 DEF NextBlock, OpenNext
<1> QED BY <1>2, <1>3, <1>4, <1>5, <1>6, <1>7, <1>8, <1>9 DEF ClaimNext, Chain, OpenNext

LEMMA ClaimsAreOpen == ClaimSpec => OpenSpec
<1>1. ClaimInit => Init
  BY DEF ClaimInit
<1> QED BY <1>1, ClaimStepIsOpen, ClaimInvariant, PTL DEF ClaimSpec, OpenSpec

\* With the vouchers the backend signs, whoever asks for them and however its
\* requests overlap, the escrow takes the money of a bounty in once and lets it
\* out once, in time.
THEOREM SystemKeepsPromise == ClaimSpec => KeepsPromise
BY ClaimsAreOpen, OpenImplements, PTL

\* What the contract owes stays exact and covered beside the backend, so that
\* a voucher the contract accepts never fails for want of money.
THEOREM SystemCovered == ClaimSpec => [](Solvent /\ LiabilitiesExact /\ Payable)
BY ClaimsAreOpen, OpenSolvent, LiabilityInvariant, OpenPayable, PTL DEF LiabilityInv

\* No two vouchers of a bounty, renewed or raced, and no voucher and refund ever
\* take its money twice, and what leaves is its own deposit, inside its window.
THEOREM SystemPaysOnce ==
    ClaimSpec => [](LeavesOnce /\ LeavesAsItCame /\ WindowsDisjoint)
BY ClaimsAreOpen, EventInvariant, PTL DEF EventInv

\* Beside the backend too, a funded bounty keeps its terms for ever.
THEOREM SystemTermsFinal == ClaimSpec => TermsFinal
BY ClaimsAreOpen, OpenTerms, PTL

-----------------------------------------------------------------------------
(* What a voucher is worth.  The backend reads the terms of its table and  *)
(* the state of the chain at one moment and signs at another; the contract *)
(* checks the authorization at a third.  Because the terms are final, the  *)
(* three agree, and every voucher in time is accepted.                     *)

\* When the contract takes a settlement and a refund; the rest of the two
\* transactions are assignments, which cannot fail.
SettleGuard(s) ==
    /\ Holding(s.bountyId)
    /\ SettlementTerms(s, bounties[s.bountyId])
    /\ ClaimOpen(s)
    /\ Authorized(s)
    /\ totalLiabilities >= bounties[s.bountyId].amount
    /\ ~blocked
    /\ balance[Escrow] >= bounties[s.bountyId].amount

RefundGuard(i) ==
    /\ Holding(i)
    /\ Refundable(bounties[i])
    /\ totalLiabilities >= bounties[i].amount
    /\ ~blocked
    /\ balance[Escrow] >= bounties[i].amount

CloseEffect(i, state, closer, to, event) ==
    /\ totalLiabilities' = totalLiabilities - bounties[i].amount
    /\ bounties' = [bounties EXCEPT ![i] = Closed(bounties[i], state, closer)]
    /\ balance' = [balance EXCEPT ![Escrow] = @ - bounties[i].amount,
                                  ![to] = @ + Arriving(bounties[i].amount)]
    /\ log' = Append(log, event)
    /\ UNCHANGED <<now, signed, fee, blocked>>

LEMMA SettleIs ==
    ASSUME NEW s PROVE
    settle(s) <=> /\ SettleGuard(s)
                  /\ CloseEffect(s.bountyId, "Settled", s.recipient, s.recipient,
                                 [event |-> "BountySettled", id |-> s.bountyId,
                                  party |-> s.recipient, amount |-> bounties[s.bountyId].amount,
                                  at |-> now, digest |-> s])
BY DEF settle, Release, Transfer, SettleGuard, CloseEffect

LEMMA RefundIs ==
    ASSUME NEW i PROVE
    refund(i) <=> /\ RefundGuard(i)
                  /\ CloseEffect(i, "Refunded", bounties[i].recipient, bounties[i].payer,
                                 [event |-> "BountyRefunded", id |-> i,
                                  party |-> bounties[i].payer, amount |-> bounties[i].amount,
                                  at |-> now])
BY DEF refund, Release, Transfer, RefundGuard, CloseEffect

\* From claimUntil on the payer's refund is never refused, whatever was donated,
\* taxed or paid before, while the token lets transfers through.
RefundNeverRefused ==
    \A i \in BountyIds : Holding(i) /\ Refundable(bounties[i]) /\ ~blocked => RefundGuard(i)

\* Every authorization in circulation is taken by the contract as long as its
\* bounty is funded and its deadline has not come, and all of it arrives.
VouchersHonoured ==
    \A s \in signed : Holding(s.bountyId) /\ ClaimOpen(s) =>
        SettleGuard(s) /\ Arriving(s.amount) = s.amount

\* The reward's funding is on record and the merge has allocated it.
Granted(i) == allocated[i] /\ fundingSeen[i] # Never

\* Nobody is authorized to be paid for a bounty whose funding was not recorded,
\* or that no merged pull request had allocated.
EarnedFirst == \A s \in signed : Granted(s.bountyId)

\* The bounty in the contract is the published one.
OnTerms(i) ==
    /\ bounties[i].state # "Absent"
    /\ bounties[i].amount = Reward[i].amount
    /\ bounties[i].claimUntil = claimUntil(i)

Untaxed == fee = 0 /\ blocked = FALSE

AsksEarned ==
    \A r \in Requests :
        /\ req[r].pc # "idle" => Granted(req[r].bounty)
        /\ req[r].pc = "checked" => OnTerms(req[r].bounty)

SignedTerms ==
    \A s \in signed :
        /\ s.token = Token
        /\ s.amount = Reward[s.bountyId].amount
        /\ s.nonce = 0
        /\ s.deadline <= claimUntil(s.bountyId)
        /\ OnTerms(s.bountyId)

WorthInv == Untaxed /\ AsksEarned /\ SignedTerms /\ EarnedFirst

\* What a step leaves alone: terms that agree, records and the token's manners.
LEMMA WorthKept ==
    ASSUME ClaimConstants, ClaimInv, WorthInv, TermsStay,
           UNCHANGED <<signed, fee, blocked>>,
           \A i \in Registered : Granted(i) => Granted(i)',
           \A r \in Requests : req'[r] = req[r] \/ req'[r].pc = "idle"
    PROVE  WorthInv'
<1>1. \A i \in Registered : OnTerms(i) => OnTerms(i)'
  BY DEF ClaimConstants, TermsStay, SameTerms, OnTerms, claimUntil
<1>2. \A s \in signed : s.bountyId \in Registered
  BY DEF ClaimInv, Inv1, VouchersTyped
<1>3. \A r \in Requests : req[r].pc # "idle" => req[r].bounty \in Registered
  BY DEF ClaimInv, Inv1, Typed, Reqs, Idle
<1>4. AsksEarned'
  <2> SUFFICES ASSUME NEW r \in Requests, req'[r].pc # "idle"
               PROVE  /\ Granted(req[r].bounty)'
                      /\ req'[r].pc = "checked" => OnTerms(req[r].bounty)'
    BY DEF AsksEarned
  <2>1. req'[r] = req[r] /\ req[r].bounty \in Registered
    BY <1>3
  <2> QED BY <1>1, <2>1 DEF WorthInv, AsksEarned
<1>5. SignedTerms'
  BY <1>1, <1>2 DEF WorthInv, SignedTerms, claimUntil
<1>6. EarnedFirst'
  BY <1>2 DEF WorthInv, EarnedFirst
<1> QED BY <1>4, <1>5, <1>6 DEF WorthInv, Untaxed

\* What the latest block showed was a funding of this bounty, on these terms.
LEMMA CheckedOnTerms ==
    ASSUME ClaimInv, NEW i \in Registered, OnChain(i)
    PROVE  OnTerms(i)
<1>1. PICK k \in 1..Len(log) : log[k].id = i
  BY DEF OnChain, bounty_state
<1>2. log[k].event \in {"BountyFunded", "BountySettled", "BountyRefunded"}
  BY EventAt DEF ClaimInv, Inv1, Typed, Events
<1>3. bounties[i].state # "Absent"
  BY <1>1, <1>2 DEF ClaimInv, Inv2, EventsTrue, EventTrue
<1> QED BY <1>3 DEF OnChain, OnTerms

\* A new authorization carries the terms its request has compared.
LEMMA SignWorth ==
    ASSUME EscrowConstants, ClaimConstants, ClaimInv, WorthInv, NEW r \in Requests, VoucherSign(r)
    PROVE  WorthInv'
<1> DEFINE i == req[r].bounty
           s == typed_data(i, req[r].recipient, req[r].at)
<1>1. Typed
  BY DEF ClaimInv, Inv1
<1>2. /\ req[r].pc = "checked" /\ signed' = signed \cup {s}
      /\ req' = [req EXCEPT ![r] = Idle]
      /\ UNCHANGED <<bounties, fee, blocked, allocated, fundingSeen>>
  BY DEF VoucherSign, contract, token, evidence
<1>3. i \in Registered /\ req[r].at \in Nat
  BY <1>1, <1>2 DEF Typed, Reqs, Idle
<1>4. Granted(i) /\ OnTerms(i)
  BY <1>2 DEF WorthInv, AsksEarned
<1>5. /\ s.bountyId = i /\ s.token = Token /\ s.amount = Reward[i].amount /\ s.nonce = 0
      /\ s.deadline <= claimUntil(i)
  <2>1. claimUntil(i) \in Nat /\ req[r].at + VoucherLife \in Nat
    BY <1>3 DEF claimUntil, ClaimConstants, EscrowConstants
  <2> QED BY <2>1 DEF typed_data, Earlier
<1> HIDE DEF s
<1>6. AsksEarned'
  <2>1. req'[r].pc = "idle" /\ \A q \in Requests : q # r => req'[q] = req[q]
    BY <1>1, <1>2 DEF Typed, Idle
  <2> QED BY <1>2, <2>1 DEF WorthInv, AsksEarned, Granted, OnTerms, claimUntil
<1>7. SignedTerms' /\ EarnedFirst'
  BY <1>2, <1>4, <1>5
  DEF WorthInv, SignedTerms, EarnedFirst, Granted, OnTerms, claimUntil
<1> QED BY <1>2, <1>6, <1>7 DEF WorthInv, Untaxed

LEMMA WorthStep ==
    ASSUME EscrowConstants, ClaimConstants, ClaimInv, WorthInv, [ClaimNext]_allVars
    PROVE  WorthInv'
<1>1. Typed /\ TypeOK
  BY DEF ClaimInv, Inv1, Typed
<1>2. TermsStay
  BY <1>1, ClaimStepIsOpen, TermsStep
<1>3. ASSUME UNCHANGED <<signed, fee, blocked, req, fundingSeen>>,
             \A i \in Registered : allocated[i] => allocated'[i]
      PROVE  WorthInv'
  <2>1. \A i \in Registered : Granted(i) => Granted(i)'
    BY <1>3 DEF Granted
  <2> QED BY <1>2, <1>3, <2>1, WorthKept
<1>4. CASE \/ Chain \/ Redeploy \/ UNCHANGED allVars
           \/ \E k \in 1..Len(log) : ConfirmOperation(k) \/ ResendOperation(k)
  <2>1. UNCHANGED <<signed, fee, blocked, req, fundingSeen, allocated>>
    BY <1>4 DEF Chain, Fund, Settle, Refund, NextBlock, fund, settle, refund, Transfer, Tick,
                Redeploy, ConfirmOperation, ResendOperation, allVars, vars, token, backend,
                evidence, claims
  <2> QED BY <1>3, <2>1
<1>5. ASSUME NEW i \in Registered, NEW k \in 1..Len(log), Verify(i, k) PROVE WorthInv'
  <2>1. UNCHANGED <<signed, fee, blocked, req, allocated>>
    BY <1>5 DEF Verify, verify_funding, verify_settlement, verify_refund, vars, token, claims
  <2>2. Onward
    BY <1>5, EvidenceOnward
  <2>3. \A n \in Registered : Granted(n) => Granted(n)'
    BY <2>1, <2>2 DEF Granted, Onward
  <2> QED BY <1>2, <2>1, <2>3, WorthKept
<1>6. ASSUME NEW i \in Registered, NEW t \in Merges, reserve_cash_allocation(i, t)
      PROVE  WorthInv'
  <2>1. UNCHANGED <<signed, fee, blocked, req, fundingSeen>>
    BY <1>6 DEF reserve_cash_allocation, vars, token, evidence
  <2>2. \A n \in Registered : allocated[n] => allocated'[n]
    BY <1>1, <1>6 DEF reserve_cash_allocation, Typed
  <2> QED BY <1>3, <2>1, <2>2
<1>7. ASSUME NEW r \in Requests, NEW x, req' = [req EXCEPT ![r] = x],
             UNCHANGED <<vars, evidence, claims>>,
             x.pc # "idle" => Granted(x.bounty),
             x.pc = "checked" => OnTerms(x.bounty)
      PROVE  WorthInv'
  <2>1. req'[r] = x /\ \A q \in Requests : q # r => req'[q] = req[q]
    BY <1>1, <1>7 DEF Typed
  <2>2. UNCHANGED <<signed, fee, blocked, bounties, allocated, fundingSeen>>
    BY <1>7 DEF vars, contract, token, evidence, claims
  <2>3. AsksEarned'
    BY <1>7, <2>1, <2>2 DEF WorthInv, AsksEarned, Granted, OnTerms, claimUntil
  <2> QED BY <2>2, <2>3
          DEF WorthInv, Untaxed, SignedTerms, EarnedFirst, Granted, OnTerms, claimUntil
<1>8. Idle.pc = "idle"
  BY DEF Idle
<1>9. ASSUME NEW r \in Requests, NEW i \in Registered, VoucherBegin(r, i) PROVE WorthInv'
  <2> DEFINE x == [pc |-> "waiting", bounty |-> i,
                   recipient |-> IF binding[i] # NoOne THEN binding[i] ELSE Linked]
  <2>1. /\ req' = [req EXCEPT ![r] = x]
        /\ UNCHANGED <<vars, evidence, claims>>
        /\ Granted(i)
    BY <1>9 DEF VoucherBegin, Granted
  <2>2. x.pc = "waiting" /\ x.bounty = i
    OBVIOUS
  <2> HIDE DEF x
  <2> QED BY <1>7, <2>1, <2>2
<1>10. ASSUME NEW r \in Requests, VoucherLock(r) PROVE WorthInv'
  <2> DEFINE x == [pc |-> "locked", bounty |-> req[r].bounty,
                   recipient |-> req[r].recipient, at |-> latest]
  <2>1. /\ req' = [req EXCEPT ![r] = Idle] \/ req' = [req EXCEPT ![r] = x]
        /\ UNCHANGED <<vars, evidence, claims>>
        /\ Granted(req[r].bounty)
    BY <1>10 DEF VoucherLock, WorthInv, AsksEarned
  <2>2. x.pc = "locked" /\ x.bounty = req[r].bounty
    OBVIOUS
  <2> HIDE DEF x
  <2> QED BY <1>7, <1>8, <2>1, <2>2
<1>11. ASSUME NEW r \in Requests, VoucherCheck(r) PROVE WorthInv'
  <2> DEFINE x == [req[r] EXCEPT !.pc = "checked"]
  <2>1. /\ req[r].pc = "locked" /\ OnChain(req[r].bounty)
        /\ req' = [req EXCEPT ![r] = x]
        /\ UNCHANGED <<vars, evidence, claims>>
    BY <1>11 DEF VoucherCheck
  <2>2. req[r] \in [pc : {"locked", "checked"}, bounty : Registered, recipient : Accounts, at : Nat]
    BY <1>1, <2>1 DEF Typed, Reqs, Idle
  <2>3. x.bounty = req[r].bounty /\ req[r].bounty \in Registered
    BY <2>2
  <2>4. Granted(x.bounty) /\ OnTerms(x.bounty)
    BY <2>1, <2>3, CheckedOnTerms DEF WorthInv, AsksEarned
  <2> HIDE DEF x
  <2> QED BY <1>7, <2>1, <2>4
<1>12. ASSUME NEW r \in Requests, VoucherRefuse(r) PROVE WorthInv'
  BY <1>7, <1>8, <1>12 DEF VoucherRefuse
<1>13. ASSUME NEW r \in Requests, VoucherRequest(r) PROVE WorthInv'
  BY <1>9, <1>10, <1>11, <1>12, <1>13, SignWorth DEF VoucherRequest
<1> QED BY <1>4, <1>5, <1>6, <1>13 DEF ClaimNext

LEMMA WorthInvariant == ClaimSpec => []WorthInv
<1>1. ClaimInit => WorthInv
  BY DEF ClaimInit, Init, Idle, WorthInv, Untaxed, AsksEarned, SignedTerms, EarnedFirst
<1>2. ClaimInv /\ WorthInv /\ [ClaimNext]_allVars => WorthInv'
  BY EscrowConstants, ClaimConstants, WorthStep
<1> QED BY <1>1, <1>2, ClaimInvariant, PTL DEF ClaimSpec

LEMMA PayableRefund == Payable => RefundNeverRefused
BY DEF Payable, RefundNeverRefused, RefundGuard

LEMMA WorthHonoured ==
    ASSUME EscrowConstants, ClaimInv, WorthInv, Payable
    PROVE  VouchersHonoured
<1> SUFFICES ASSUME NEW s \in signed, Holding(s.bountyId), ClaimOpen(s)
             PROVE  SettleGuard(s) /\ Arriving(s.amount) = s.amount
  BY DEF VouchersHonoured
<1>1. s \in Settlements /\ s.bountyId \in BountyIds /\ s.amount \in Nat
  BY DEF ClaimInv, Inv1, Typed, TypeOK, Settlements
<1>2. s.recipient # ZeroAddress
  BY DEF ClaimInv, Inv1, VouchersTyped, EscrowConstants
<1>3. SettlementTerms(s, bounties[s.bountyId])
  BY <1>2 DEF WorthInv, SignedTerms, OnTerms, SettlementTerms
<1>4. Arriving(s.amount) = s.amount /\ ~blocked
  BY <1>1 DEF WorthInv, Untaxed, Arriving
<1> QED BY <1>1, <1>3, <1>4 DEF Payable, SettleGuard, Authorized

\* No voucher the backend hands out is worthless: while its bounty is funded and
\* its deadline is ahead the contract takes it, whatever happened between the
\* request's reads and the settlement, and the contributor gets every unit.
THEOREM SystemHonoursVouchers == ClaimSpec => []VouchersHonoured
<1>1. ClaimInv /\ WorthInv /\ Payable => VouchersHonoured
  BY EscrowConstants, WorthHonoured
<1> QED BY <1>1, ClaimInvariant, WorthInvariant, ClaimsAreOpen, OpenPayable, PTL

\* Only a recorded funding and an allocation lead to an authorization.
THEOREM PaidOnlyEarned == ClaimSpec => []EarnedFirst
<1>1. WorthInv => EarnedFirst
  BY DEF WorthInv
<1> QED BY <1>1, WorthInvariant, PTL

\* The payer gets the money back when nobody claims it: no refund that is due is
\* refused for want of liabilities or balance.
THEOREM RefundsDue == Spec => []RefundNeverRefused
BY SpecIsOpen, OpenPayable, PayableRefund, PTL

-----------------------------------------------------------------------------
(* What is on record is final.                                             *)

RecordsStay ==
    /\ \A i \in Registered :
           /\ fundingSeen[i] # Never => fundingSeen'[i] = fundingSeen[i]
           /\ settledSeen[i] # Never => settledSeen'[i] = settledSeen[i]
           /\ refundSeen[i] # Never => refundSeen'[i] = refundSeen[i]
           /\ allocated[i] => allocated'[i]
           /\ binding[i] # NoOne => binding'[i] = binding[i]
    /\ \A s \in signed :
           /\ s \in signed'
           /\ voucher[s] \in {"expired", "used"} => voucher'[s] = voucher[s]

\* No request, no repeated or late verification and no restart rewrites what was
\* recorded: the events, the allocation, the recipient, and the vouchers that
\* have run out or were used.
RecordsFinal == [][RecordsStay]_allVars

\* The settlement of a registered bounty that the chain shows is always one the
\* backend can recognise: its recipient is the bound one, its amount the published
\* one, its voucher on record.
SettlementsRecognised ==
    \A k \in 1..Len(log) :
        log[k].event = "BountySettled" => verify_settlement_receipt(log[k].id, k)

LEMMA SettlementStays ==
    ASSUME ClaimInv, NEW i \in Registered, NEW k \in 1..Len(log), verify_settlement(i, k)
    PROVE  RecordsStay
<1>1. Typed /\ VouchersTyped /\ ExpiredOver
  BY DEF ClaimInv, Inv1, Inv3
<1>2. /\ log[k].event = "BountySettled" /\ settledSeen[i] = Never
      /\ settledSeen' = [settledSeen EXCEPT ![i] = k]
      /\ voucher' = [voucher EXCEPT ![log[k].digest] = "used"]
      /\ UNCHANGED <<signed, fundingSeen, refundSeen, allocated, binding>>
  BY DEF verify_settlement, SettlementProof, verify_settlement_receipt, vars
<1>3. \A n \in Registered : settledSeen[n] # Never => settledSeen'[n] = settledSeen[n]
  BY <1>1, <1>2 DEF Typed
<1>4. \A s \in signed : voucher[s] \in {"expired", "used"} => voucher'[s] = voucher[s]
  <2> SUFFICES ASSUME NEW s \in signed, voucher[s] \in {"expired", "used"}
               PROVE  voucher'[s] = voucher[s]
    OBVIOUS
  <2>1. s \in DOMAIN voucher
    BY <1>1 DEF VouchersTyped
  <2>2. voucher'[s] = IF s = log[k].digest THEN "used" ELSE voucher[s]
    BY <1>2, <2>1
  <2>3. voucher[s] = "expired" => s # log[k].digest
    BY <1>1, <1>2 DEF ExpiredOver
  <2> QED BY <2>2, <2>3
<1> QED BY <1>2, <1>3, <1>4 DEF RecordsStay

\* Only one refund of a bounty is ever mined, so recording it again changes
\* nothing.
LEMMA RefundStays ==
    ASSUME ClaimInv, NEW i \in Registered, NEW k \in 1..Len(log), verify_refund(i, k)
    PROVE  RecordsStay
<1>1. Typed /\ RecordsHold /\ LeavesOnce
  BY DEF ClaimInv, Inv1, Inv2
<1>2. /\ log[k].event = "BountyRefunded" /\ log[k].id = i
      /\ refundSeen' = [refundSeen EXCEPT ![i] = k]
      /\ UNCHANGED <<signed, fundingSeen, settledSeen, allocated, binding, voucher>>
  BY DEF verify_refund, RefundProof, verify_refund_receipt, vars, claims
<1>3. refundSeen[i] # Never => refundSeen[i] = k
  <2> SUFFICES ASSUME refundSeen[i] # Never PROVE refundSeen[i] = k
    OBVIOUS
  <2>1. refundSeen[i] \in 1..Len(log)
    BY <1>1 DEF Typed, Never
  <2>2. log[refundSeen[i]].event = "BountyRefunded" /\ log[refundSeen[i]].id = i
    BY <1>1 DEF RecordsHold
  <2> QED BY <1>1, <1>2, <2>1, <2>2 DEF LeavesOnce, Closing
<1>4. \A n \in Registered : refundSeen[n] # Never => refundSeen'[n] = refundSeen[n]
  BY <1>1, <1>2, <1>3 DEF Typed
<1> QED BY <1>2, <1>4 DEF RecordsStay

\* A renewal expires live vouchers only, and binds no other recipient.
LEMMA SignStays ==
    ASSUME ClaimInv, NEW r \in Requests, VoucherSign(r)
    PROVE  RecordsStay
<1> DEFINE i == req[r].bounty
           s == typed_data(i, req[r].recipient, req[r].at)
<1>1. Typed /\ VouchersTyped
  BY DEF ClaimInv, Inv1
<1>2. /\ binding[i] \in {NoOne, req[r].recipient}
      /\ s \notin signed
      /\ binding' = [binding EXCEPT ![i] = req[r].recipient]
      /\ voucher' = Issue(i, s)
      /\ signed' = signed \cup {s}
      /\ UNCHANGED <<fundingSeen, settledSeen, refundSeen, allocated>>
  BY DEF VoucherSign, BoundTo, evidence
<1> HIDE DEF s
<1>3. \A n \in Registered : binding[n] # NoOne => binding'[n] = binding[n]
  BY <1>1, <1>2 DEF Typed
<1>4. \A u \in signed : voucher[u] \in {"expired", "used"} => voucher'[u] = voucher[u]
  BY <1>1, <1>2 DEF VouchersTyped, Issue, Live
<1> QED BY <1>2, <1>3, <1>4 DEF RecordsStay

LEMMA RecordsStep ==
    ASSUME ClaimInv, [ClaimNext]_allVars PROVE RecordsStay
<1>1. Typed
  BY DEF ClaimInv, Inv1
<1>2. ASSUME UNCHANGED <<signed, evidence, claims>> PROVE RecordsStay
  BY <1>2 DEF RecordsStay, evidence, claims
<1>3. CASE \/ Chain \/ Redeploy \/ UNCHANGED allVars
           \/ \E k \in 1..Len(log) : ConfirmOperation(k) \/ ResendOperation(k)
  BY <1>2, <1>3 DEF Chain, Fund, Settle, Refund, NextBlock, fund, settle, refund, Tick,
                    Redeploy, ConfirmOperation, ResendOperation, allVars, vars, backend
<1>4. ASSUME NEW i \in Registered, NEW k \in 1..Len(log), Verify(i, k) PROVE RecordsStay
  <2>1. CASE verify_funding(i, k)
    BY <1>1, <2>1 DEF verify_funding, Typed, RecordsStay, vars, claims
  <2> QED BY <1>4, <2>1, SettlementStays, RefundStays DEF Verify
<1>5. ASSUME NEW i \in Registered, NEW t \in Merges, reserve_cash_allocation(i, t)
      PROVE  RecordsStay
  BY <1>1, <1>5 DEF reserve_cash_allocation, Typed, RecordsStay, vars, evidence
<1>6. ASSUME NEW r \in Requests, VoucherRequest(r) PROVE RecordsStay
  <2>1. CASE ~VoucherSign(r)
    BY <1>2, <1>6, <2>1 DEF VoucherRequest, VoucherBegin, VoucherLock, VoucherCheck,
                            VoucherRefuse, vars
  <2> QED BY <2>1, SignStays
<1> QED BY <1>3, <1>4, <1>5, <1>6 DEF ClaimNext

\* The history the site shows is only ever added to.
THEOREM SystemRecordsFinal == ClaimSpec => RecordsFinal
<1>1. ClaimInv /\ [ClaimNext]_allVars => [RecordsStay]_allVars
  BY RecordsStep
<1> QED BY <1>1, ClaimInvariant, PTL DEF ClaimSpec, RecordsFinal

\* No payment of the chain is one the backend must refuse as unknown.
THEOREM SystemRecognises == ClaimSpec => []SettlementsRecognised
<1>1. ASSUME ClaimInv, WorthInv PROVE SettlementsRecognised
  <2> SUFFICES ASSUME NEW k \in 1..Len(log), log[k].event = "BountySettled"
               PROVE  verify_settlement_receipt(log[k].id, k)
    BY DEF SettlementsRecognised
  <2>1. /\ log[k].digest \in signed /\ log[k].digest.bountyId = log[k].id
        /\ log[k].digest.recipient = log[k].party
        /\ bounties[log[k].id].amount = log[k].amount
    BY <1>1 DEF ClaimInv, Inv2, EventsTrue, EventTrue
  <2>2. DOMAIN voucher = signed /\ log[k].party = binding[log[k].id]
    BY <1>1, <2>1 DEF ClaimInv, Inv1, VouchersTyped
  <2>3. log[k].amount = Reward[log[k].id].amount
    BY <1>1, <2>1 DEF WorthInv, SignedTerms, OnTerms
  <2> QED BY <2>1, <2>2, <2>3 DEF verify_settlement_receipt
<1> QED BY <1>1, ClaimInvariant, WorthInvariant, PTL
=============================================================================
