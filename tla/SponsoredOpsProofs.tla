------------------------- MODULE SponsoredOpsProofs -------------------------
(***************************************************************************)
(* What sponsored execution guarantees for any owners, bounties, tabs,     *)
(* operations and requests: it does to the chain, the records and the      *)
(* vouchers nothing that EscrowClaims does not allow, it never has two     *)
(* operations of a wallet that could still run, and what it says of an     *)
(* operation is what the chain did with it.                                *)
(***************************************************************************)
EXTENDS SponsoredOps, EscrowProofs, FiniteSetTheorems, SequenceTheorems

Row == [owner : Owners, bounty : Registered, kind : Kinds,
        auth : Settlements \cup {NoOne}, nonce : Nat, status : Statuses]

Asked == [owner : Owners, bounty : Registered, kind : Kinds,
          auth : Settlements \cup {NoOne}, nonce : Nat]

Outcomes == [result : {"none", "success", "reverted"}, at : Nat, event : Nat]

Submitting(t) == tab[t] # Idle

OpsTyped ==
    /\ ops \in Seq(Row)
    /\ receipt \in Seq(Outcomes)
    /\ Len(receipt) = Len(ops)
    /\ sent \subseteq 1..Len(ops)
    /\ verifying \subseteq 1..Len(ops)
    /\ tab \in [Tabs -> {Idle} \cup Asked]

\* The batch is about the operation's own bounty.
Fits(op) ==
    /\ op.kind = "settle" => op.auth \in signed /\ op.auth.bountyId = op.bounty
    /\ op.kind # "settle" => op.owner = op.bounty[1]

CallsFit ==
    /\ \A n \in 1..Len(ops) : Fits(ops[n])
    /\ \A t \in Tabs : Submitting(t) => Fits(tab[t])

EventOf(kind) == CASE kind = "fund"   -> "BountyFunded"
                   [] kind = "settle" -> "BountySettled"
                   [] kind = "refund" -> "BountyRefunded"

\* The receipt names a block there has been, and the call's own event.
ReceiptsTrue ==
    \A n \in 1..Len(ops) :
        /\ receipt[n].at <= now
        /\ receipt[n].event <= Len(log)
        /\ receipt[n].result = "success" =>
               /\ receipt[n].event \in 1..Len(log)
               /\ log[receipt[n].event].id = ops[n].bounty
               /\ log[receipt[n].event].event = EventOf(ops[n].kind)

\* What a status needs.
Earned(n, status) ==
    /\ status \in {"confirmed", "verified", "failed"} =>
           receipt[n].result # "none" /\ receipt[n].at <= latest
    /\ status = "failed" => receipt[n].result = "reverted"
    /\ status \in {"confirmed", "verified"} => receipt[n].result = "success"
    /\ status = "verified" =>
           /\ ops[n].kind = "fund" => fundingSeen[ops[n].bounty] = receipt[n].event
           /\ ops[n].kind = "settle" => settledSeen[ops[n].bounty] # Never
           /\ ops[n].kind = "refund" => refundSeen[ops[n].bounty] # Never

StatusesEarned == \A n \in 1..Len(ops) : Earned(n, ops[n].status)

OnePending ==
    \A n, m \in 1..Len(ops) :
        ops[n].owner = ops[m].owner /\ ops[n].status \in Unfinished /\ ops[m].status \in Unfinished
        => n = m

NextNonce ==
    \A o \in Owners : \A n \in 1..Len(ops) :
        ops[n].owner = o /\ receipt[n].result = "none" => ops[n].nonce = Cardinality(Executed(o))

\* A submission has its wallet for itself, and the nonce it read stays good.
TabAlone ==
    \A t \in Tabs : Submitting(t) =>
        /\ \A n \in 1..Len(ops) : ops[n].owner = tab[t].owner => ops[n].status \notin Unfinished
        /\ \A o \in Owners : tab[t].owner = o => tab[t].nonce = Cardinality(Executed(o))
        /\ \A u \in Tabs : Submitting(u) /\ tab[u].owner = tab[t].owner => u = t

Believed == {receipt[n].event :
                n \in {m \in 1..Len(ops) : ops[m].status \in {"confirmed", "verified"}}}

\* What is believed is what the statuses say at the moment; a request that goes
\* on after a success was right about it, whatever the status is by then.
ConfirmedTrue ==
    /\ confirmed = Believed
    /\ \A n \in verifying : Earned(n, "confirmed")

\* No two operations share the event of a successful call, so that doubting one
\* of them doubts no other.
OwnEvents ==
    \A n, m \in 1..Len(ops) :
        receipt[m].result = "success" /\ receipt[n].event = receipt[m].event => n = m

OpsInv == /\ OpsTyped
          /\ CallsFit
          /\ ReceiptsTrue
          /\ StatusesEarned
          /\ OnePending
          /\ NextNonce
          /\ TabAlone
          /\ ConfirmedTrue
          /\ OwnEvents

-----------------------------------------------------------------------------
(* The operators.                                                          *)

LEMMA RowsKnown ==
    ASSUME OpsTyped
    PROVE  /\ Len(ops) \in Nat
           /\ DOMAIN ops = 1..Len(ops)
           /\ \A n \in 1..Len(ops) : ops[n] \in Row /\ receipt[n] \in Outcomes
<1>1. /\ Len(ops) \in Nat /\ DOMAIN ops = 1..Len(ops)
      /\ \A n \in 1..Len(ops) : ops[n] \in Row
  BY LenProperties, ElementOfSeq DEF OpsTyped
<1>2. \A n \in 1..Len(ops) : receipt[n] \in Outcomes
  BY ElementOfSeq DEF OpsTyped
<1> QED BY <1>1, <1>2

LEMMA NonceNat ==
    ASSUME OpsTyped, NEW S \in SUBSET (1..Len(ops))
    PROVE  Cardinality(S) \in Nat
<1>1. IsFiniteSet(1..Len(ops))
  BY RowsKnown, FS_Interval
<1> QED BY <1>1, FS_Subset, FS_CardinalityType

\* Only the owners and the receipts decide what an account has executed.
LEMMA SameExecuted ==
    ASSUME OpsTyped, OpsTyped', Len(ops') = Len(ops), receipt' = receipt,
           \A n \in 1..Len(ops) : ops'[n].owner = ops[n].owner
    PROVE  \A o : Executed(o)' = Executed(o)
<1>1. DOMAIN ops = 1..Len(ops) /\ DOMAIN ops' = 1..Len(ops)
  BY LenProperties DEF OpsTyped
<1> QED BY <1>1 DEF Executed, OpsOf

\* A status written into an operation leaves the rest of its row.
LEMMA StatusWritten ==
    ASSUME OpsTyped, NEW n \in 1..Len(ops), NEW st \in Statuses, ops' = WithStatus(n, st)
    PROVE  /\ ops' \in Seq(Row) /\ Len(ops') = Len(ops)
           /\ ops'[n].status = st
           /\ \A m \in 1..Len(ops) : m # n => ops'[m] = ops[m]
           /\ \A m \in 1..Len(ops) : /\ ops'[m].owner = ops[m].owner
                                     /\ ops'[m].bounty = ops[m].bounty
                                     /\ ops'[m].kind = ops[m].kind
                                     /\ ops'[m].auth = ops[m].auth
                                     /\ ops'[m].nonce = ops[m].nonce
<1> DEFINE row == [owner |-> ops[n].owner, bounty |-> ops[n].bounty, kind |-> ops[n].kind,
                   auth |-> ops[n].auth, nonce |-> ops[n].nonce, status |-> st]
<1>1. ops[n] \in Row
  BY RowsKnown
<1>2. [ops[n] EXCEPT !.status = st] = row
  BY <1>1 DEF Row
<1>3. ops' = [ops EXCEPT ![n] = row]
  BY <1>2 DEF WithStatus
<1>4. row \in Row
  BY <1>1 DEF Row
<1>5. /\ row.owner = ops[n].owner /\ row.bounty = ops[n].bounty /\ row.kind = ops[n].kind
      /\ row.auth = ops[n].auth /\ row.nonce = ops[n].nonce /\ row.status = st
  OBVIOUS
<1> HIDE DEF row
<1>6. /\ ops' \in Seq(Row) /\ Len(ops') = Len(ops)
      /\ \A m \in 1..Len(ops) : ops'[m] = IF m = n THEN row ELSE ops[m]
  BY <1>3, <1>4, ExceptSeq DEF OpsTyped
<1> QED BY <1>5, <1>6

-----------------------------------------------------------------------------
(* The shapes of step.                                                     *)

\* The chain or the records move, or statuses and the bundler's pool do: no
\* operation is new, mined or unfinished again.
LEMMA StatusStep ==
    ASSUME OpsInv, ClaimInv, Onward,
           ops' \in Seq(Row), Len(ops') = Len(ops),
           \A m \in 1..Len(ops) : /\ ops'[m].owner = ops[m].owner
                                  /\ ops'[m].bounty = ops[m].bounty
                                  /\ ops'[m].kind = ops[m].kind
                                  /\ ops'[m].auth = ops[m].auth
                                  /\ ops'[m].nonce = ops[m].nonce
                                  /\ ops'[m].status \in Unfinished => ops[m].status \in Unfinished
                                  /\ Earned(m, ops'[m].status),
           UNCHANGED <<receipt, tab>>,
           sent' \subseteq 1..Len(ops), verifying' \subseteq 1..Len(ops),
           confirmed' = Believed',
           \A n \in verifying' : Earned(n, "confirmed")
    PROVE  OpsInv'
<1>1. /\ OpsTyped /\ CallsFit /\ ReceiptsTrue /\ StatusesEarned /\ OnePending /\ NextNonce
      /\ TabAlone /\ OwnEvents
  BY DEF OpsInv
<1>2. OpsTyped'
  BY <1>1 DEF OpsTyped
<1>3. CallsFit'
  <2>1. signed \subseteq signed'
    BY DEF Onward
  <2> QED BY <1>1, <2>1 DEF CallsFit, Fits, Submitting
<1>4. ReceiptsTrue'
  <2> SUFFICES ASSUME NEW n \in 1..Len(ops)
               PROVE  /\ receipt[n].at <= now'
                      /\ receipt[n].event <= Len(log')
                      /\ receipt[n].result = "success" =>
                             /\ receipt[n].event \in 1..Len(log')
                             /\ log'[receipt[n].event].id = ops'[n].bounty
                             /\ log'[receipt[n].event].event = EventOf(ops'[n].kind)
    BY DEF ReceiptsTrue, EventOf
  <2>1. receipt[n].at \in Nat /\ receipt[n].event \in Nat
    BY <1>1, RowsKnown DEF Outcomes
  <2>2. ops'[n].bounty = ops[n].bounty /\ ops'[n].kind = ops[n].kind
    OBVIOUS
  <2>3. /\ receipt[n].at <= now /\ receipt[n].event <= Len(log)
        /\ receipt[n].result = "success" =>
               /\ receipt[n].event \in 1..Len(log)
               /\ log[receipt[n].event].id = ops[n].bounty
               /\ log[receipt[n].event].event = EventOf(ops[n].kind)
    BY <1>1 DEF ReceiptsTrue
  <2>4. /\ now \in Nat /\ now' \in Nat /\ now <= now'
        /\ Len(log) \in Nat /\ Len(log') \in Nat /\ Len(log) <= Len(log')
        /\ \A k \in 1..Len(log) : log'[k] = log[k]
    BY DEF Onward
  <2> QED BY <2>1, <2>2, <2>3, <2>4
<1>5. StatusesEarned'
  <2> SUFFICES ASSUME NEW n \in 1..Len(ops) PROVE Earned(n, ops[n].status)'
    BY DEF StatusesEarned
  <2>1. Earned(n, ops'[n].status)
    OBVIOUS
  <2>2. receipt[n].at \in Nat /\ ops[n].bounty \in Registered
    BY <1>1, RowsKnown DEF Outcomes, Row
  <2>3. receipt[n].result = "success" /\ ops[n].kind = "fund" => receipt[n].event # Never
    BY <1>1 DEF ReceiptsTrue, Onward, Never
  <2>4. receipt[n].at <= now - 1 => receipt[n].at <= now' - 1
    BY <2>2 DEF Onward
  <2>5. ops'[n].bounty = ops[n].bounty /\ ops'[n].kind = ops[n].kind
    OBVIOUS
  <2>6. /\ fundingSeen[ops[n].bounty] # Never =>
               fundingSeen'[ops[n].bounty] = fundingSeen[ops[n].bounty]
        /\ settledSeen[ops[n].bounty] # Never => settledSeen'[ops[n].bounty] # Never
        /\ refundSeen[ops[n].bounty] # Never => refundSeen'[ops[n].bounty] # Never
    BY <2>2 DEF Onward
  <2> QED BY <2>1, <2>3, <2>4, <2>5, <2>6 DEF Earned, latest
<1>6. OnePending'
  BY <1>1 DEF OnePending
<1>7. \A o : Executed(o)' = Executed(o)
  BY <1>1, <1>2, SameExecuted
<1>8. NextNonce'
  BY <1>1, <1>7 DEF NextNonce
<1>9. TabAlone'
  <2> SUFFICES ASSUME NEW t \in Tabs, Submitting(t)
               PROVE
        /\ \A n \in 1..Len(ops) : ops'[n].owner = tab[t].owner => ops'[n].status \notin Unfinished
        /\ \A o \in Owners : tab[t].owner = o => tab[t].nonce = Cardinality(Executed(o)')
        /\ \A u \in Tabs : Submitting(u) /\ tab[u].owner = tab[t].owner => u = t
    BY DEF TabAlone, Submitting
  <2> QED BY <1>1, <1>7 DEF TabAlone
<1>10. ConfirmedTrue'
  <2> SUFFICES ASSUME NEW n \in verifying' PROVE Earned(n, "confirmed")'
    BY DEF ConfirmedTrue
  <2>1. Earned(n, "confirmed") /\ n \in 1..Len(ops)
    OBVIOUS
  <2>2. receipt[n].at \in Nat
    BY <1>1, <2>1, RowsKnown DEF Outcomes
  <2>3. receipt[n].at <= now - 1 => receipt[n].at <= now' - 1
    BY <2>2 DEF Onward
  <2> QED BY <2>1, <2>3 DEF Earned, latest
<1>11. OwnEvents'
  BY <1>1 DEF OwnEvents
<1> QED BY <1>2, <1>3, <1>4, <1>5, <1>6, <1>8, <1>9, <1>10, <1>11 DEF OpsInv

\* Nothing about operations changes at all.
LEMMA ClaimsMove ==
    ASSUME OpsInv, ClaimInv, Onward, UNCHANGED <<opVars, confirmed>>
    PROVE  OpsInv'
<1>1. UNCHANGED <<ops, receipt, sent, tab, verifying>>
  BY DEF opVars
<1>2. OpsTyped /\ StatusesEarned /\ ConfirmedTrue
  BY DEF OpsInv
<1>3. Believed' = Believed
  BY <1>1 DEF Believed
<1> QED BY <1>1, <1>2, <1>3, StatusStep DEF OpsTyped, StatusesEarned, ConfirmedTrue

\* The receipt of one operation that could still run.
LEMMA ReceiptStep ==
    ASSUME OpsInv, ClaimInv, Onward, UNCHANGED <<ops, tab, verifying, confirmed>>,
           NEW n \in 1..Len(ops), receipt[n].result = "none",
           NEW x \in Outcomes, x.result # "none", x.at <= now, x.event <= Len(log'),
           x.result = "success" => /\ x.event \in 1..Len(log') /\ x.event > Len(log)
                                   /\ log'[x.event].id = ops[n].bounty
                                   /\ log'[x.event].event = EventOf(ops[n].kind),
           x.result # "success" => x.event = Never,
           receipt' = [receipt EXCEPT ![n] = x], sent' \subseteq sent
    PROVE  OpsInv'
<1>1. /\ OpsTyped /\ CallsFit /\ ReceiptsTrue /\ StatusesEarned /\ OnePending /\ NextNonce
      /\ TabAlone /\ ConfirmedTrue /\ OwnEvents
  BY DEF OpsInv
<1>2. /\ receipt' \in Seq(Outcomes) /\ Len(receipt') = Len(ops)
      /\ receipt'[n] = x
      /\ \A m \in 1..Len(ops) : m # n => receipt'[m] = receipt[m]
  BY <1>1, ExceptSeq DEF OpsTyped
<1>3. OpsTyped'
  BY <1>1, <1>2 DEF OpsTyped
<1>4. CallsFit'
  BY <1>1 DEF CallsFit, Fits, Submitting, Onward
<1>5. \A m \in 1..Len(ops) : receipt[m].at \in Nat /\ receipt[m].event \in Nat
  BY <1>1, RowsKnown DEF Outcomes
<1>6. x.at \in Nat /\ x.event \in Nat
  BY DEF Outcomes
<1>7. ReceiptsTrue'
  <2> SUFFICES ASSUME NEW m \in 1..Len(ops)
               PROVE  /\ receipt'[m].at <= now'
                      /\ receipt'[m].event <= Len(log')
                      /\ receipt'[m].result = "success" =>
                             /\ receipt'[m].event \in 1..Len(log')
                             /\ log'[receipt'[m].event].id = ops[m].bounty
                             /\ log'[receipt'[m].event].event = EventOf(ops[m].kind)
    BY DEF ReceiptsTrue, EventOf
  <2>1. CASE m = n
    BY <1>2, <1>6, <2>1 DEF Onward
  <2>2. CASE m # n
    <3>1. /\ receipt'[m] = receipt[m]
          /\ receipt[m].at <= now /\ receipt[m].event <= Len(log)
          /\ receipt[m].result = "success" =>
                 /\ receipt[m].event \in 1..Len(log)
                 /\ log[receipt[m].event].id = ops[m].bounty
                 /\ log[receipt[m].event].event = EventOf(ops[m].kind)
      BY <1>1, <1>2, <2>2 DEF ReceiptsTrue
    <3>2. /\ now \in Nat /\ now' \in Nat /\ now <= now'
          /\ Len(log) \in Nat /\ Len(log') \in Nat /\ Len(log) <= Len(log')
          /\ \A k \in 1..Len(log) : log'[k] = log[k]
      BY DEF Onward
    <3>3. receipt[m].at <= now' /\ receipt[m].event <= Len(log')
      BY <1>5, <3>1, <3>2
    <3>4. receipt[m].event \in 1..Len(log) => /\ receipt[m].event \in 1..Len(log')
                                              /\ log'[receipt[m].event] = log[receipt[m].event]
      BY <3>2
    <3> QED BY <3>1, <3>3, <3>4
  <2> QED BY <2>1, <2>2
<1>8. ops[n].status \in {"signed", "submitted"}
  BY <1>1, RowsKnown DEF StatusesEarned, Earned, Row, Statuses
<1>9. StatusesEarned'
  <2> SUFFICES ASSUME NEW m \in 1..Len(ops) PROVE Earned(m, ops[m].status)'
    BY DEF StatusesEarned
  <2>1. CASE m = n
    BY <1>8, <2>1 DEF Earned
  <2>2. CASE m # n
    <3>1. Earned(m, ops[m].status) /\ receipt'[m] = receipt[m]
      BY <1>1, <1>2, <2>2 DEF StatusesEarned
    <3>2. ops[m].bounty \in Registered
      BY <1>1, RowsKnown DEF Row
    <3>3. receipt[m].result = "success" => receipt[m].event # Never
      BY <1>1 DEF ReceiptsTrue, Onward, Never
    <3>4. receipt[m].at <= now - 1 => receipt[m].at <= now' - 1
      BY <1>5 DEF Onward
    <3>5. /\ fundingSeen[ops[m].bounty] # Never =>
                 fundingSeen'[ops[m].bounty] = fundingSeen[ops[m].bounty]
          /\ settledSeen[ops[m].bounty] # Never => settledSeen'[ops[m].bounty] # Never
          /\ refundSeen[ops[m].bounty] # Never => refundSeen'[ops[m].bounty] # Never
      BY <3>2 DEF Onward
    <3> QED BY <3>1, <3>3, <3>4, <3>5 DEF Earned, latest
  <2> QED BY <2>1, <2>2
<1>10. OnePending'
  BY <1>1 DEF OnePending
<1>11. \A m \in 1..Len(ops) : receipt'[m].result = "none" =>
           receipt[m].result = "none" /\ ops[m].status \in Unfinished /\ m # n
  BY <1>1, <1>2, RowsKnown DEF StatusesEarned, Earned, Row, Statuses, Unfinished
<1>12. \A o : o # ops[n].owner => Executed(o)' = Executed(o)
  BY <1>1, <1>2, RowsKnown DEF Executed, OpsOf
<1>13. NextNonce'
  <2> SUFFICES ASSUME NEW o \in Owners, NEW m \in 1..Len(ops), ops[m].owner = o,
                      receipt'[m].result = "none"
               PROVE  ops[m].nonce = Cardinality(Executed(o)')
    BY DEF NextNonce
  <2>1. o # ops[n].owner
    BY <1>1, <1>8, <1>11 DEF OnePending, Unfinished
  <2> QED BY <1>1, <1>11, <1>12, <2>1 DEF NextNonce
<1>14. TabAlone'
  <2> SUFFICES ASSUME NEW t \in Tabs, Submitting(t)
               PROVE
        /\ \A m \in 1..Len(ops) : ops[m].owner = tab[t].owner => ops[m].status \notin Unfinished
        /\ \A o \in Owners : tab[t].owner = o => tab[t].nonce = Cardinality(Executed(o)')
        /\ \A u \in Tabs : Submitting(u) /\ tab[u].owner = tab[t].owner => u = t
    BY DEF TabAlone, Submitting
  <2>1. tab[t].owner # ops[n].owner
    BY <1>1, <1>8 DEF TabAlone, Unfinished
  <2> QED BY <1>1, <1>12, <2>1 DEF TabAlone
<1>15. ConfirmedTrue'
  <2>1. \A m \in 1..Len(ops) : ops[m].status \in {"confirmed", "verified"} =>
            receipt'[m] = receipt[m]
    BY <1>2, <1>8
  <2>2. Believed' = Believed
    BY <2>1 DEF Believed
  <2> SUFFICES ASSUME NEW m \in verifying PROVE Earned(m, "confirmed")'
    BY <1>1, <2>2 DEF ConfirmedTrue
  <2>3. Earned(m, "confirmed") /\ m \in 1..Len(ops)
    BY <1>1 DEF ConfirmedTrue, OpsTyped
  <2>4. receipt'[m] = receipt[m]
    BY <1>2, <2>3 DEF Earned
  <2>5. receipt[m].at <= now - 1 => receipt[m].at <= now' - 1
    BY <1>5, <2>3 DEF Onward
  <2> QED BY <2>3, <2>4, <2>5 DEF Earned, latest
<1>16. OwnEvents'
  <2> SUFFICES ASSUME NEW m \in 1..Len(ops), NEW q \in 1..Len(ops),
                      receipt'[q].result = "success", receipt'[m].event = receipt'[q].event
               PROVE  m = q
    BY DEF OwnEvents
  <2>1. \A j \in 1..Len(ops) : /\ receipt[j].event <= Len(log)
                               /\ receipt[j].result = "success" => receipt[j].event # Never
    BY <1>1 DEF ReceiptsTrue, Onward, Never
  <2>2. Len(log) \in Nat
    BY DEF Onward
  <2>3. CASE m = n /\ q # n
    BY <1>2, <1>5, <1>6, <2>1, <2>2, <2>3
  <2>4. CASE m # n /\ q = n
    BY <1>2, <1>5, <1>6, <2>1, <2>2, <2>4
  <2>5. CASE m # n /\ q # n
    BY <1>1, <1>2, <2>5 DEF OwnEvents
  <2> QED BY <2>3, <2>4, <2>5
<1> QED BY <1>3, <1>4, <1>7, <1>9, <1>10, <1>13, <1>14, <1>15, <1>16 DEF OpsInv

-----------------------------------------------------------------------------
(* Submitting.                                                             *)

\* A tab takes or leaves its wallet.
LEMMA TabStep ==
    ASSUME OpsInv, ClaimInv, UNCHANGED <<allVars, ops, receipt, sent, verifying>>,
           tab' \in [Tabs -> {Idle} \cup Asked], TabAlone',
           \A t \in Tabs : Submitting(t)' => Fits(tab'[t])
    PROVE  OpsInv'
<1>1. UNCHANGED <<now, log, signed, confirmed, evidence>>
  BY DEF allVars, vars, contract, backend
<1> USE <1>1
<1>2. OpsTyped'
  BY DEF OpsInv, OpsTyped
<1>3. CallsFit'
  BY DEF OpsInv, CallsFit, Fits
<1>4. ReceiptsTrue' /\ StatusesEarned' /\ OnePending'
  BY DEF OpsInv, ReceiptsTrue, StatusesEarned, Earned, latest, OnePending, evidence, EventOf
<1>5. \A o : Executed(o)' = Executed(o)
  BY DEF Executed, OpsOf
<1>6. NextNonce'
  BY <1>5 DEF OpsInv, NextNonce
<1>7. ConfirmedTrue' /\ OwnEvents'
  BY DEF OpsInv, ConfirmedTrue, Believed, Earned, latest, OwnEvents
<1> QED BY <1>2, <1>3, <1>4, <1>6, <1>7 DEF OpsInv

\* With nothing of the wallet's pending, everything it signed is deep enough
\* in the chain for the node's count of it to be the account's own.
LEMMA SubmitKeeps ==
    ASSUME OpConstants, ClaimInv, OpsInv, NEW t \in Tabs, NEW o \in Owners,
           NEW i \in Registered, NEW k \in Kinds, Submit(t, o, i, k)
    PROVE  OpsInv'
<1>1. OpsTyped /\ StatusesEarned /\ TabAlone /\ CallsFit
  BY DEF OpsInv
<1>2. VouchersTyped /\ signed \subseteq Settlements
  BY DEF ClaimInv, Inv1, Typed, TypeOK
<1>3. PICK auth \in IF k = "settle" THEN {s \in DOMAIN voucher : s.bountyId = i} ELSE {NoOne} :
          tab' = [tab EXCEPT ![t] = [owner |-> o, bounty |-> i, kind |-> k, auth |-> auth,
                                     nonce |-> account_nonce(o)]]
  BY DEF Submit
<1> DEFINE x == [owner |-> o, bounty |-> i, kind |-> k, auth |-> auth,
                 nonce |-> account_nonce(o)]
<1>4. /\ UNCHANGED <<allVars, ops, receipt, sent, verifying>>
      /\ KeyFree(o) /\ Pending(o) = {} /\ Allowed(o, i, k)
  BY DEF Submit
<1>5. \A n \in 1..Len(ops) : ops[n].owner = o => ops[n].status \notin Unfinished
  BY <1>1, <1>4, RowsKnown DEF Pending, OpsOf
<1>6. \A n \in 1..Len(ops) : ops[n].owner = o => receipt[n].at <= latest
  BY <1>1, <1>5, RowsKnown DEF StatusesEarned, Earned, Row, Statuses, Unfinished
<1>7. account_nonce(o) = Cardinality(Executed(o))
  <2>1. {n \in Executed(o) : receipt[n].at <= latest} = Executed(o)
    BY <1>1, <1>6, RowsKnown DEF Executed, OpsOf
  <2> QED BY <2>1 DEF account_nonce
<1>8. account_nonce(o) \in Nat
  <2>1. Executed(o) \in SUBSET (1..Len(ops))
    BY <1>1, RowsKnown DEF Executed, OpsOf
  <2> QED BY <1>1, <1>7, <2>1, NonceNat
<1>9. auth \in Settlements \cup {NoOne}
  BY <1>2 DEF VouchersTyped
<1>10. /\ k = "settle" => auth \in signed /\ auth.bountyId = i
       /\ k # "settle" => o = i[1]
  BY <1>2, <1>4 DEF VouchersTyped, Allowed, Kinds
<1>11. /\ x \in Asked /\ x.owner = o /\ x.nonce = Cardinality(Executed(o))
       /\ x.kind = k /\ x.auth = auth /\ x.bounty = i
  BY <1>7, <1>8, <1>9 DEF Asked
<1>12. Fits(x)
  BY <1>10, <1>11 DEF Fits
<1>13. tab' = [tab EXCEPT ![t] = x]
  BY <1>3
<1> HIDE DEF x
<1>14. tab' \in [Tabs -> {Idle} \cup Asked]
  BY <1>1, <1>11, <1>13 DEF OpsTyped
<1>15. tab'[t] = x /\ \A u \in Tabs : u # t => tab'[u] = tab[u]
  BY <1>1, <1>13 DEF OpsTyped
<1>16. \A u \in Tabs : u # t /\ Submitting(u) => tab[u].owner # o
  BY <1>4 DEF KeyFree, Submitting
<1>17. \A v : Executed(v)' = Executed(v)
  BY <1>4 DEF Executed, OpsOf
<1>18. TabAlone'
  <2> SUFFICES ASSUME NEW u \in Tabs, tab'[u] # Idle
               PROVE
        /\ \A n \in 1..Len(ops) : ops[n].owner = tab'[u].owner => ops[n].status \notin Unfinished
        /\ \A w \in Owners : tab'[u].owner = w => tab'[u].nonce = Cardinality(Executed(w))
        /\ \A v \in Tabs : tab'[v] # Idle /\ tab'[v].owner = tab'[u].owner => v = u
    BY <1>4, <1>17 DEF TabAlone, Submitting
  <2>1. CASE u = t
    BY <1>5, <1>11, <1>15, <1>16, <2>1 DEF Submitting
  <2>2. CASE u # t
    BY <1>1, <1>11, <1>15, <1>16, <2>2 DEF Submitting, TabAlone
  <2> QED BY <2>1, <2>2
<1>19. \A u \in Tabs : Submitting(u)' => Fits(tab'[u])
  BY <1>1, <1>12, <1>15 DEF CallsFit, Submitting
<1> QED BY <1>4, <1>14, <1>18, <1>19, TabStep

LEMMA SubmitFailsKeeps ==
    ASSUME OpsInv, ClaimInv, NEW t \in Tabs, SubmitFails(t)
    PROVE  OpsInv'
<1>1. OpsTyped /\ TabAlone /\ CallsFit
  BY DEF OpsInv
<1>2. /\ UNCHANGED <<allVars, ops, receipt, sent, verifying>>
      /\ tab' = [tab EXCEPT ![t] = Idle]
  BY DEF SubmitFails
<1>3. tab' \in [Tabs -> {Idle} \cup Asked]
  BY <1>1, <1>2 DEF OpsTyped
<1>4. \A u \in Tabs : tab'[u] # Idle => tab'[u] = tab[u]
  BY <1>1, <1>2 DEF OpsTyped
<1>5. \A v : Executed(v)' = Executed(v)
  BY <1>2 DEF Executed, OpsOf
<1>6. TabAlone'
  <2> SUFFICES ASSUME NEW u \in Tabs, tab'[u] # Idle
               PROVE
        /\ \A n \in 1..Len(ops) : ops[n].owner = tab'[u].owner => ops[n].status \notin Unfinished
        /\ \A w \in Owners : tab'[u].owner = w => tab'[u].nonce = Cardinality(Executed(w))
        /\ \A v \in Tabs : tab'[v] # Idle /\ tab'[v].owner = tab'[u].owner => v = u
    BY <1>2, <1>5 DEF TabAlone, Submitting
  <2> QED BY <1>1, <1>4 DEF TabAlone, Submitting
<1>7. \A u \in Tabs : Submitting(u)' => Fits(tab'[u])
  BY <1>1, <1>4 DEF CallsFit, Submitting
<1> QED BY <1>2, <1>3, <1>6, <1>7, TabStep

\* The new operation is its wallet's only unfinished one, with the next nonce.
LEMMA SignedKeeps ==
    ASSUME OpsInv, ClaimInv, NEW t \in Tabs, signed_operation(t)
    PROVE  OpsInv'
<1> DEFINE row == [owner |-> tab[t].owner, bounty |-> tab[t].bounty, kind |-> tab[t].kind,
                   auth |-> tab[t].auth, nonce |-> tab[t].nonce, status |-> "signed"]
           N == Len(ops) + 1
<1>1. /\ OpsTyped /\ CallsFit /\ ReceiptsTrue /\ StatusesEarned /\ OnePending /\ NextNonce
      /\ TabAlone /\ ConfirmedTrue /\ OwnEvents
  BY DEF OpsInv
<1>2. /\ tab[t] # Idle
      /\ ops' = Append(ops, row)
      /\ receipt' = Append(receipt, NoReceipt)
      /\ tab' = [tab EXCEPT ![t] = Idle]
      /\ UNCHANGED <<allVars, sent, verifying>>
  BY DEF signed_operation
<1>3. tab[t] \in Asked
  BY <1>1, <1>2 DEF OpsTyped
<1>4. row \in Row /\ NoReceipt \in Outcomes
  BY <1>3 DEF Asked, Row, Statuses, NoReceipt, Outcomes, Never
<1>5. /\ row.owner = tab[t].owner /\ row.bounty = tab[t].bounty /\ row.kind = tab[t].kind
      /\ row.auth = tab[t].auth /\ row.nonce = tab[t].nonce /\ row.status = "signed"
      /\ NoReceipt.result = "none" /\ NoReceipt.at = 0 /\ NoReceipt.event = 0
  BY DEF NoReceipt, Never
<1> HIDE DEF row
<1>6. /\ Len(ops) \in Nat
      /\ ops' \in Seq(Row) /\ Len(ops') = N /\ ops'[N] = row
      /\ \A n \in 1..Len(ops) : ops'[n] = ops[n]
  BY <1>1, <1>2, <1>4, RowsKnown, AppendProperties DEF OpsTyped
<1>7. /\ receipt' \in Seq(Outcomes) /\ Len(receipt') = N /\ receipt'[N] = NoReceipt
      /\ \A n \in 1..Len(ops) : receipt'[n] = receipt[n]
  BY <1>1, <1>2, <1>4, AppendProperties DEF OpsTyped
<1>8. \A n \in 1..Len(ops') : n \in 1..Len(ops) \/ n = N
  BY <1>6
<1>9. tab'[t] = Idle /\ \A u \in Tabs : u # t => tab'[u] = tab[u]
  BY <1>1, <1>2 DEF OpsTyped
<1>10. UNCHANGED <<now, log, signed, confirmed, evidence>>
  BY <1>2 DEF allVars, vars, contract, backend
<1>11. OpsTyped'
  <2>1. tab' \in [Tabs -> {Idle} \cup Asked]
    BY <1>1, <1>2 DEF OpsTyped
  <2> QED BY <1>1, <1>2, <1>6, <1>7, <2>1 DEF OpsTyped
<1>12. CallsFit'
  <2>1. Fits(tab[t])
    BY <1>1, <1>2 DEF CallsFit, Submitting
  <2>2. \A n \in 1..Len(ops') : Fits(ops'[n])
    BY <1>1, <1>5, <1>6, <1>8, <2>1 DEF CallsFit, Fits
  <2>3. \A u \in Tabs : tab'[u] # Idle => Fits(tab'[u])
    BY <1>1, <1>9 DEF CallsFit, Submitting
  <2> QED BY <1>10, <2>2, <2>3 DEF CallsFit, Submitting, Fits
<1>13. ReceiptsTrue'
  <2> SUFFICES ASSUME NEW n \in 1..Len(ops')
               PROVE  /\ receipt'[n].at <= now
                      /\ receipt'[n].event <= Len(log)
                      /\ receipt'[n].result = "success" =>
                             /\ receipt'[n].event \in 1..Len(log)
                             /\ log[receipt'[n].event].id = ops'[n].bounty
                             /\ log[receipt'[n].event].event = EventOf(ops'[n].kind)
    BY <1>10 DEF ReceiptsTrue, EventOf
  <2>1. now \in Nat /\ Len(log) \in Nat
    BY DEF ClaimInv, Inv1, Typed, TypeOK
  <2>2. CASE n = N
    BY <1>5, <1>7, <2>1, <2>2
  <2>3. CASE n \in 1..Len(ops)
    BY <1>1, <1>6, <1>7, <2>3 DEF ReceiptsTrue
  <2> QED BY <1>8, <2>2, <2>3
<1>14. StatusesEarned'
  <2> SUFFICES ASSUME NEW n \in 1..Len(ops') PROVE Earned(n, ops[n].status)'
    BY DEF StatusesEarned
  <2>1. CASE n = N
    BY <1>5, <1>6, <2>1 DEF Earned
  <2>2. CASE n \in 1..Len(ops)
    BY <1>1, <1>6, <1>7, <1>10, <2>2 DEF StatusesEarned, Earned, latest, evidence
  <2> QED BY <1>8, <2>1, <2>2
<1>15. \A n \in 1..Len(ops) : ops[n].owner = tab[t].owner => ops[n].status \notin Unfinished
  BY <1>1, <1>2 DEF TabAlone, Submitting
<1>16. OnePending'
  BY <1>1, <1>5, <1>6, <1>8, <1>15 DEF OnePending
<1>17. \A o : Executed(o)' = Executed(o)
  <2>1. DOMAIN ops = 1..Len(ops) /\ DOMAIN ops' = 1..Len(ops')
    BY <1>1, <1>6, RowsKnown, LenProperties
  <2> TAKE o
  <2>2. \A n : n \in 1..Len(ops') /\ ops'[n].owner = o /\ receipt'[n].result # "none" <=>
               n \in 1..Len(ops) /\ ops[n].owner = o /\ receipt[n].result # "none"
    BY <1>5, <1>6, <1>7, <1>8
  <2> QED BY <2>1, <2>2 DEF Executed, OpsOf
<1>18. NextNonce'
  <2> SUFFICES ASSUME NEW o \in Owners, NEW n \in 1..Len(ops'), ops'[n].owner = o,
                      receipt'[n].result = "none"
               PROVE  ops'[n].nonce = Cardinality(Executed(o))
    BY <1>17 DEF NextNonce
  <2>1. CASE n = N
    BY <1>1, <1>2, <1>5, <1>6, <2>1 DEF TabAlone, Submitting
  <2>2. CASE n \in 1..Len(ops)
    BY <1>1, <1>6, <1>7, <2>2 DEF NextNonce
  <2> QED BY <1>8, <2>1, <2>2
<1>19. TabAlone'
  <2> SUFFICES ASSUME NEW u \in Tabs, tab'[u] # Idle
               PROVE
        /\ \A n \in 1..Len(ops') : ops'[n].owner = tab'[u].owner => ops'[n].status \notin Unfinished
        /\ \A w \in Owners : tab'[u].owner = w => tab'[u].nonce = Cardinality(Executed(w))
        /\ \A v \in Tabs : tab'[v] # Idle /\ tab'[v].owner = tab'[u].owner => v = u
    BY <1>17 DEF TabAlone, Submitting
  <2>1. u # t /\ tab'[u] = tab[u] /\ tab[u].owner # tab[t].owner
    BY <1>1, <1>2, <1>9 DEF TabAlone, Submitting
  <2>2. \A n \in 1..Len(ops') : ops'[n].owner = tab'[u].owner => ops'[n].status \notin Unfinished
    BY <1>1, <1>5, <1>6, <1>8, <2>1 DEF TabAlone, Submitting
  <2>3. \A w \in Owners : tab'[u].owner = w => tab'[u].nonce = Cardinality(Executed(w))
    BY <1>1, <2>1 DEF TabAlone, Submitting
  <2>4. \A v \in Tabs : tab'[v] # Idle /\ tab'[v].owner = tab'[u].owner => v = u
    BY <1>1, <1>9, <2>1 DEF TabAlone, Submitting
  <2> QED BY <2>2, <2>3, <2>4
<1>20. ConfirmedTrue'
  <2>1. \A n : n \in 1..Len(ops') /\ ops'[n].status \in {"confirmed", "verified"} <=>
               n \in 1..Len(ops) /\ ops[n].status \in {"confirmed", "verified"}
    BY <1>5, <1>6, <1>8
  <2>2. Believed' = Believed
    BY <1>7, <2>1 DEF Believed
  <2>3. \A n \in verifying : n \in 1..Len(ops) /\ Earned(n, "confirmed")
    BY <1>1 DEF OpsTyped, ConfirmedTrue
  <2>4. \A n \in verifying : Earned(n, "confirmed")'
    BY <1>7, <1>10, <2>3 DEF Earned, latest
  <2> QED BY <1>1, <1>2, <1>10, <2>2, <2>4 DEF ConfirmedTrue
<1>21. OwnEvents'
  <2> SUFFICES ASSUME NEW n \in 1..Len(ops'), NEW m \in 1..Len(ops'),
                      receipt'[m].result = "success", receipt'[n].event = receipt'[m].event
               PROVE  n = m
    BY DEF OwnEvents
  <2>1. m \in 1..Len(ops) /\ receipt'[m] = receipt[m] /\ receipt[m].event # 0
    BY <1>1, <1>5, <1>7, <1>8 DEF ReceiptsTrue
  <2>2. n \in 1..Len(ops) /\ receipt'[n] = receipt[n]
    BY <1>5, <1>7, <1>8, <2>1
  <2> QED BY <1>1, <2>1, <2>2 DEF OwnEvents
<1> QED BY <1>11, <1>12, <1>13, <1>14, <1>16, <1>18, <1>19, <1>20, <1>21 DEF OpsInv

-----------------------------------------------------------------------------
(* The chain.                                                              *)

\* An operation's call is a transaction about the operation's bounty.
LEMMA CallHappens ==
    ASSUME EscrowConstants, ClaimConstants, OpConstants, ClaimInv,
           NEW op \in Row, Fits(op), Call(op)
    PROVE  \E e : Happens(e, op.bounty) /\ e.event = EventOf(op.kind)
<1>1. TypeOK
  BY DEF ClaimInv, Inv1, Typed
<1>2. /\ op.bounty \in Registered /\ op.owner \in Accounts
      /\ op.kind \in {"fund", "settle", "refund"}
  BY DEF Row, Kinds, OpConstants
<1>3. op.bounty \in BountyIds
  BY <1>2 DEF ClaimConstants
<1>4. CASE op.kind = "fund"
  <2>1. /\ op.owner = op.bounty[1] /\ op.bounty[2] \in Refs
        /\ op.bounty = <<op.owner, op.bounty[2]>>
    BY <1>3, <1>4 DEF Fits, BountyIds
  <2>2. Reward[op.bounty].amount \in Nat /\ Reward[op.bounty].workEndsAt \in Nat
    BY <1>2 DEF ClaimConstants
  <2>3. fund(op.owner, op.bounty[2], Reward[op.bounty].amount, Reward[op.bounty].workEndsAt)
    BY <1>4 DEF Call
  <2>4. \E e : Happens(e, <<op.owner, op.bounty[2]>>) /\ e.event = "BountyFunded"
    BY <1>1, <1>2, <2>1, <2>2, <2>3, FundHappens
  <2> QED BY <1>4, <2>1, <2>4 DEF EventOf
<1>5. CASE op.kind = "settle"
  <2>1. op.auth \in signed /\ op.auth.bountyId = op.bounty /\ settle(op.auth)
    BY <1>5 DEF Fits, Call
  <2>2. \E e : Happens(e, op.auth.bountyId) /\ e.event = "BountySettled"
    BY <1>1, <2>1, SettleHappens
  <2> QED BY <1>5, <2>1, <2>2 DEF EventOf
<1>6. CASE op.kind = "refund"
  <2>1. refund(op.bounty)
    BY <1>6 DEF Call
  <2>2. \E e : Happens(e, op.bounty) /\ e.event = "BountyRefunded"
    BY <1>1, <1>3, <2>1, RefundHappens
  <2> QED BY <1>6, <2>2 DEF EventOf
<1> QED BY <1>2, <1>4, <1>5, <1>6

LEMMA ExecuteKeeps ==
    ASSUME EscrowConstants, ClaimConstants, OpConstants, ClaimInv, OpsInv,
           NEW n \in 1..Len(ops), Execute(n)
    PROVE  OpsInv'
<1>1. OpsTyped /\ CallsFit
  BY DEF OpsInv
<1>2. /\ receipt[n].result = "none" /\ sent' \subseteq sent
      /\ UNCHANGED <<ops, tab, verifying>>
  BY DEF Execute, NoReceipt
<1>3. now \in Nat /\ Len(log) \in Nat
  BY DEF ClaimInv, Inv1, Typed, TypeOK
<1>4. ops[n] \in Row /\ ops[n].bounty \in BountyIds
  BY <1>1, RowsKnown DEF Row, ClaimConstants
<1>5. CASE /\ Call(ops[n])
           /\ receipt' = [receipt EXCEPT ![n] =
                  [result |-> "success", at |-> now, event |-> Len(log) + 1]]
           /\ UNCHANGED backend
  <2> DEFINE x == [result |-> "success", at |-> now, event |-> Len(log) + 1]
  <2>1. Fits(ops[n])
    BY <1>1 DEF CallsFit
  <2>2. PICK e : Happens(e, ops[n].bounty) /\ e.event = EventOf(ops[n].kind)
    BY <1>4, <1>5, <2>1, CallHappens
  <2>3. Onward
    BY <1>4, <1>5, <2>2, HappensOnward
  <2>4. /\ Len(log') = Len(log) + 1 /\ log'[Len(log) + 1] = e /\ e.id = ops[n].bounty
    BY <2>2 DEF Happens, Emits
  <2>5. UNCHANGED confirmed
    BY <1>5 DEF backend
  <2>6. /\ x \in Outcomes /\ x.result = "success" /\ x.at = now /\ x.event = Len(log) + 1
    BY <1>3 DEF Outcomes
  <2>7. receipt' = [receipt EXCEPT ![n] = x]
    BY <1>5
  <2> HIDE DEF x
  <2>8. /\ x.result # "none" /\ x.at <= now /\ x.event <= Len(log') /\ x.event \in 1..Len(log')
        /\ x.event > Len(log)
        /\ log'[x.event].id = ops[n].bounty /\ log'[x.event].event = EventOf(ops[n].kind)
    BY <1>3, <2>2, <2>4, <2>6
  <2> QED BY <1>2, <2>3, <2>5, <2>6, <2>7, <2>8, ReceiptStep
<1>6. CASE /\ receipt' = [receipt EXCEPT ![n] =
                  [result |-> "reverted", at |-> now, event |-> Never]]
           /\ UNCHANGED allVars
  <2> DEFINE x == [result |-> "reverted", at |-> now, event |-> Never]
  <2>1. UNCHANGED <<now, log, evidence, signed, confirmed>>
    BY <1>6 DEF allVars, vars, contract, backend
  <2>2. Onward
    BY <2>1, StillOnward
  <2>3. x \in Outcomes /\ x.result = "reverted" /\ x.at = now /\ x.event = 0
    BY <1>3 DEF Outcomes, Never
  <2>4. receipt' = [receipt EXCEPT ![n] = x]
    BY <1>6
  <2> HIDE DEF x
  <2>5. /\ x.result # "none" /\ x.result # "success" /\ x.at <= now /\ x.event <= Len(log')
        /\ x.event = Never
    BY <1>3, <2>1, <2>3 DEF Never
  <2> QED BY <1>2, <2>1, <2>2, <2>3, <2>4, <2>5, ReceiptStep
<1> QED BY <1>5, <1>6 DEF Execute

\* What moves the chain or the records and leaves the operations alone.
LEMMA OutsideKeeps ==
    ASSUME EscrowConstants, ClaimConstants, ClaimInv, OpsInv, OutsideCall
    PROVE  OpsInv'
<1>1. TypeOK
  BY DEF ClaimInv, Inv1, Typed
<1>2. UNCHANGED <<backend, opVars>> /\ UNCHANGED confirmed
  BY DEF OutsideCall, backend
<1>3. Onward
  <2>1. ASSUME NEW s \in signed, settle(s) PROVE Onward
    <3>1. s.bountyId \in BountyIds
      BY <1>1 DEF TypeOK, Settlements
    <3> QED BY <1>1, <1>2, <2>1, <3>1, SettleHappens, HappensOnward
  <2>2. ASSUME NEW i \in Registered, refund(i) PROVE Onward
    <3>1. i \in BountyIds
      BY DEF ClaimConstants
    <3> QED BY <1>1, <1>2, <2>2, <3>1, RefundHappens, HappensOnward
  <2> QED BY <2>1, <2>2 DEF OutsideCall
<1> QED BY <1>2, <1>3, ClaimsMove

LEMMA BlockKeepsOps ==
    ASSUME ClaimInv, OpsInv, Block
    PROVE  OpsInv'
<1>1. now \in Nat /\ Len(log) \in Nat
  BY DEF ClaimInv, Inv1, Typed, TypeOK
<1>2. /\ now' = now + 1
      /\ UNCHANGED <<log, signed, fundingSeen, settledSeen, refundSeen, confirmed, opVars>>
  BY DEF Block, NextBlock, Tick, contract, backend, evidence
<1>3. Onward
  BY <1>1, <1>2 DEF Onward
<1> QED BY <1>2, <1>3, ClaimsMove

LEMMA RecoveryKeeps ==
    ASSUME ClaimInv, OpsInv, NEW i \in Registered, NEW k \in 1..Len(log), Verify(i, k),
           UNCHANGED opVars
    PROVE  OpsInv'
BY EvidenceOnward, ClaimsMove

LEMMA RewardingKeeps ==
    ASSUME ClaimInv, OpsInv, Rewarding
    PROVE  OpsInv'
<1>1. UNCHANGED opVars
  BY DEF Rewarding
<1>2. UNCHANGED <<now, log, evidence, confirmed>> /\ signed \subseteq signed'
  <2>1. ASSUME NEW i \in Registered, NEW t \in Merges, reserve_cash_allocation(i, t)
        PROVE  UNCHANGED <<now, log, evidence, confirmed>> /\ signed \subseteq signed'
    BY <2>1 DEF reserve_cash_allocation, vars, contract
  <2>2. ASSUME NEW r \in Requests, VoucherRequest(r)
        PROVE  UNCHANGED <<now, log, evidence, confirmed>> /\ signed \subseteq signed'
    BY <2>2 DEF VoucherRequest, VoucherBegin, VoucherLock, VoucherCheck, VoucherSign,
                VoucherRefuse, vars, contract
  <2> QED BY <2>1, <2>2 DEF Rewarding
<1>3. Onward
  BY <1>2, StillOnward
<1> QED BY <1>1, <1>2, <1>3, ClaimsMove

-----------------------------------------------------------------------------
(* The verify requests.                                                    *)

\* A status that is earned, written by a request that leaves the chain and
\* the records alone.
LEMMA WriteKeeps ==
    ASSUME ClaimInv, OpsInv, NEW n \in 1..Len(ops), NEW st \in Statuses,
           ops' = WithStatus(n, st), Earned(n, st),
           st \in Unfinished => ops[n].status \in Unfinished,
           UNCHANGED <<now, log, evidence, signed, receipt, tab>>,
           sent' \subseteq 1..Len(ops), verifying' \subseteq 1..Len(ops),
           confirmed' = Believed',
           \A m \in verifying' : m \in verifying \/ Earned(m, "confirmed")
    PROVE  OpsInv'
<1>1. OpsTyped /\ StatusesEarned /\ ConfirmedTrue
  BY DEF OpsInv
<1>2. /\ ops' \in Seq(Row) /\ Len(ops') = Len(ops)
      /\ ops'[n].status = st
      /\ \A m \in 1..Len(ops) : m # n => ops'[m] = ops[m]
      /\ \A m \in 1..Len(ops) : /\ ops'[m].owner = ops[m].owner
                                /\ ops'[m].bounty = ops[m].bounty
                                /\ ops'[m].kind = ops[m].kind
                                /\ ops'[m].auth = ops[m].auth
                                /\ ops'[m].nonce = ops[m].nonce
  BY <1>1, StatusWritten
<1>3. Onward
  BY StillOnward
<1>4. \A m \in 1..Len(ops) : /\ ops'[m].status \in Unfinished => ops[m].status \in Unfinished
                             /\ Earned(m, ops'[m].status)
  <2> TAKE m \in 1..Len(ops)
  <2>1. CASE m = n
    BY <1>2, <2>1
  <2>2. CASE m # n
    BY <1>1, <1>2, <2>2 DEF StatusesEarned
  <2> QED BY <2>1, <2>2
<1>5. \A m \in verifying' : Earned(m, "confirmed")
  BY <1>1 DEF ConfirmedTrue
<1> QED BY <1>2, <1>3, <1>4, <1>5, StatusStep

\* The operation that already counted as confirmed still does.
LEMMA SameBelieved ==
    ASSUME OpsTyped, NEW n \in 1..Len(ops), NEW st \in Statuses, ops' = WithStatus(n, st),
           UNCHANGED receipt,
           ops[n].status \in {"confirmed", "verified"} <=> st \in {"confirmed", "verified"}
    PROVE  Believed' = Believed
<1>1. /\ Len(ops') = Len(ops) /\ ops'[n].status = st
      /\ \A m \in 1..Len(ops) : m # n => ops'[m] = ops[m]
  BY StatusWritten
<1>2. \A m \in 1..Len(ops) : ops'[m].status \in {"confirmed", "verified"} <=>
                             ops[m].status \in {"confirmed", "verified"}
  BY <1>1
<1> QED BY <1>1, <1>2 DEF Believed

\* A request that saw the success adds the operation's event.
LEMMA MoreBelieved ==
    ASSUME OpsTyped, NEW n \in 1..Len(ops), NEW st \in {"confirmed", "verified"},
           ops' = WithStatus(n, st), UNCHANGED receipt
    PROVE  Believed' = Believed \cup {receipt[n].event}
<1>1. /\ Len(ops') = Len(ops) /\ ops'[n].status = st
      /\ \A m \in 1..Len(ops) : m # n => ops'[m] = ops[m]
  BY StatusWritten DEF Statuses
<1>2. \A m \in 1..Len(ops) : ops'[m].status \in {"confirmed", "verified"} <=>
                             m = n \/ ops[m].status \in {"confirmed", "verified"}
  BY <1>1
<1> QED BY <1>1, <1>2 DEF Believed

\* One that sends it again takes its event, and no other, away.
LEMMA LessBelieved ==
    ASSUME OpsInv, NEW n \in 1..Len(ops), ops' = WithStatus(n, "submitted"),
           UNCHANGED receipt
    PROVE  Believed' = Believed \ {receipt[n].event}
<1>1. OpsTyped /\ StatusesEarned /\ OwnEvents
  BY DEF OpsInv
<1>2. /\ Len(ops') = Len(ops) /\ ops'[n].status = "submitted"
      /\ \A m \in 1..Len(ops) : m # n => ops'[m] = ops[m]
  BY <1>1, StatusWritten DEF Statuses
<1>3. \A m \in 1..Len(ops) : ops'[m].status \in {"confirmed", "verified"} <=>
                             m # n /\ ops[m].status \in {"confirmed", "verified"}
  BY <1>2
<1>4. \A m \in 1..Len(ops) : ops[m].status \in {"confirmed", "verified"} =>
                             receipt[m].result = "success"
  BY <1>1 DEF StatusesEarned, Earned
<1>5. \A m \in 1..Len(ops) : m # n /\ ops[m].status \in {"confirmed", "verified"} =>
                             receipt[m].event # receipt[n].event
  BY <1>1, <1>4 DEF OwnEvents
<1> QED BY <1>2, <1>3, <1>5 DEF Believed

\* Believing and doubting move confirmed alone.
LEMMA BeliefMoves ==
    ASSUME NEW n
    PROVE  /\ Believe(n) => /\ UNCHANGED <<now, log, evidence, signed>>
                            /\ confirmed' = confirmed \cup {receipt[n].event}
           /\ Doubt(n) => /\ UNCHANGED <<now, log, evidence, signed>>
                          /\ confirmed' = confirmed \ {receipt[n].event}
BY DEF Believe, Doubt, ConfirmOperation, ResendOperation, allVars, vars, contract, backend

LEMMA PoolKeeps ==
    ASSUME ClaimInv, OpsInv, UNCHANGED <<allVars, ops, receipt, tab>>,
           sent' \subseteq 1..Len(ops), verifying' \subseteq verifying
    PROVE  OpsInv'
<1>1. OpsTyped /\ StatusesEarned /\ ConfirmedTrue
  BY DEF OpsInv
<1>2. UNCHANGED <<now, log, evidence, signed, confirmed>>
  BY DEF allVars, vars, contract, backend
<1>3. Onward /\ Believed' = Believed
  BY <1>2, StillOnward DEF Believed
<1> QED BY <1>1, <1>2, <1>3, StatusStep DEF OpsTyped, StatusesEarned, ConfirmedTrue

LEMMA SendKeeps ==
    ASSUME ClaimInv, OpsInv, NEW n \in 1..Len(ops), Send(n)
    PROVE  OpsInv'
<1>1. OpsTyped /\ ConfirmedTrue
  BY DEF OpsInv
<1>2. /\ ops[n].status \in Unfinished /\ sent' = sent \cup {n}
      /\ UNCHANGED <<receipt, tab, verifying>>
  BY DEF Send, Verifiable
<1>3. sent' \subseteq 1..Len(ops) /\ verifying \subseteq 1..Len(ops)
  BY <1>1, <1>2 DEF OpsTyped
<1>4. CASE UNCHANGED <<ops, allVars>>
  BY <1>2, <1>3, <1>4, PoolKeeps
<1>5. CASE ops' = WithStatus(n, "submitted") /\ Doubt(n)
  <2>1. /\ UNCHANGED <<now, log, evidence, signed>>
        /\ confirmed' = confirmed \ {receipt[n].event}
    BY <1>5, BeliefMoves
  <2>2. confirmed' = Believed'
    BY <1>1, <1>2, <1>5, <2>1, LessBelieved DEF ConfirmedTrue
  <2>3. Earned(n, "submitted")
    BY DEF Earned
  <2> QED BY <1>2, <1>3, <1>5, <2>1, <2>2, <2>3, WriteKeeps DEF Statuses
<1> QED BY <1>4, <1>5 DEF Send

LEMMA ConfirmKeeps ==
    ASSUME ClaimInv, OpsInv, NEW n \in 1..Len(ops), Confirm(n)
    PROVE  OpsInv'
<1>1. OpsTyped /\ ConfirmedTrue /\ StatusesEarned
  BY DEF OpsInv
<1>2. /\ ops[n].status \in Unfinished
      /\ ops' = WithStatus(n, Outcome(n))
      /\ UNCHANGED <<receipt, sent, tab>>
  BY DEF Confirm, Verifiable
<1>3. receipt[n].result # "none" /\ receipt[n].at <= latest
  <2>1. receipt[n].at \in Nat /\ now \in Nat
    BY <1>1, RowsKnown DEF Outcomes, ClaimInv, Inv1, Typed, TypeOK
  <2> QED BY <2>1 DEF Confirm, Mined, latest
<1>4. UNCHANGED <<now, log, evidence, signed>>
  <2>1. Believe(n) \/ UNCHANGED allVars
    BY DEF Confirm
  <2> QED BY <2>1, BeliefMoves DEF allVars, vars, contract, backend
<1>5. Earned(n, Outcome(n)) /\ Outcome(n) \in {"confirmed", "failed"}
  <2>1. receipt[n] \in Outcomes
    BY <1>1, RowsKnown
  <2> QED BY <1>3, <2>1 DEF Earned, Outcome, Outcomes
<1>6. sent \subseteq 1..Len(ops) /\ verifying \subseteq 1..Len(ops)
  BY <1>1 DEF OpsTyped
<1>7. CASE Outcome(n) = "confirmed"
  <2>1. verifying' = verifying \cup {n} /\ Believe(n)
    BY <1>7 DEF Confirm
  <2>2. confirmed' = Believed'
    BY <1>1, <1>2, <1>7, <2>1, BeliefMoves, MoreBelieved DEF ConfirmedTrue
  <2>3. \A m \in verifying' : m \in verifying \/ Earned(m, "confirmed")
    BY <1>5, <1>7, <2>1
  <2> QED BY <1>2, <1>4, <1>5, <1>6, <1>7, <2>1, <2>2, <2>3, WriteKeeps DEF Statuses
<1>8. CASE Outcome(n) = "failed"
  <2>1. UNCHANGED verifying /\ UNCHANGED confirmed
    BY <1>8 DEF Confirm, allVars, backend
  <2>2. ops[n].status \notin {"confirmed", "verified"}
    BY <1>1, <1>2, <1>8 DEF StatusesEarned, Earned, Outcome, Unfinished
  <2>3. Believed' = Believed
    BY <1>1, <1>2, <1>8, <2>2, SameBelieved DEF Statuses
  <2> QED BY <1>1, <1>2, <1>4, <1>5, <1>6, <1>8, <2>1, <2>3, WriteKeeps
          DEF Statuses, Unfinished, ConfirmedTrue
<1> QED BY <1>5, <1>7, <1>8

LEMMA FinishKeeps ==
    ASSUME ClaimInv, OpsInv, NEW n \in 1..Len(ops), Finish(n)
    PROVE  OpsInv'
<1>1. OpsTyped /\ ConfirmedTrue /\ StatusesEarned /\ ReceiptsTrue
  BY DEF OpsInv
<1>2. /\ n \in verifying /\ EffectRecorded(n) /\ ops' = WithStatus(n, "verified")
      /\ verifying' = verifying \ {n} /\ Believe(n)
      /\ UNCHANGED <<receipt, sent, tab>>
  BY DEF Finish
<1>3. UNCHANGED <<now, log, evidence, signed>>
  BY <1>2, BeliefMoves
<1>4. Earned(n, "confirmed")
  BY <1>1, <1>2 DEF ConfirmedTrue
<1>5. confirmed' = Believed'
  BY <1>1, <1>2, BeliefMoves, MoreBelieved DEF ConfirmedTrue
<1>6. Earned(n, "verified")
  <2>1. /\ receipt[n].result = "success" /\ receipt[n].at <= latest
        /\ Earned(n, "confirmed")
    BY <1>4 DEF Earned
  <2>2. receipt[n].event # Never
    BY <1>1, <2>1 DEF ReceiptsTrue, Never
  <2>3. /\ ops[n].kind = "fund" => fundingSeen[ops[n].bounty] = receipt[n].event
        /\ ops[n].kind = "settle" => settledSeen[ops[n].bounty] # Never
        /\ ops[n].kind = "refund" => refundSeen[ops[n].bounty] = receipt[n].event
    BY <1>2 DEF EffectRecorded
  <2> QED BY <2>1, <2>2, <2>3 DEF Earned
<1>7. sent \subseteq 1..Len(ops) /\ verifying \subseteq 1..Len(ops)
  BY <1>1 DEF OpsTyped
<1> QED BY <1>1, <1>2, <1>3, <1>5, <1>6, <1>7, WriteKeeps
        DEF Statuses, Unfinished, ConfirmedTrue

-----------------------------------------------------------------------------
(* What operations do is what transactions and requests do.                *)

\* The call of an operation is a transaction of an account contract.
LEMMA ExecuteActs ==
    ASSUME ClaimConstants, OpConstants, ClaimInv, OpsInv, NEW n \in 1..Len(ops), Execute(n)
    PROVE  [ClaimNext]_allVars
<1> DEFINE op == ops[n]
           i == op.bounty
<1>1. op \in Row /\ Fits(op)
  BY RowsKnown DEF OpsInv, CallsFit
<1>2. /\ i \in Registered /\ op.kind \in {"fund", "settle", "refund"}
      /\ Reward[i].amount \in Amounts /\ Reward[i].workEndsAt \in WorkEnds
  BY <1>1 DEF Row, Kinds, OpConstants
<1>3. "other" \in Vias
  BY DEF OpConstants
<1>4. CASE Call(op) /\ via' = Append(via, "other") /\ UNCHANGED backend
  <2>1. CASE op.kind = "fund"
    <3>1. fund(i[1], i[2], Reward[i].amount, Reward[i].workEndsAt)
      BY <1>1, <1>4, <2>1 DEF Call, Fits
    <3>2. Fund(i, Reward[i].amount, Reward[i].workEndsAt)
      BY <1>3, <1>4, <3>1 DEF Fund
    <3> QED BY <1>2, <3>2 DEF ClaimNext, Chain
  <2>2. CASE op.kind = "settle"
    <3>1. settle(op.auth) /\ op.auth \in signed
      BY <1>1, <1>4, <2>2 DEF Call, Fits
    <3>2. Settle(op.auth)
      BY <1>3, <1>4, <3>1 DEF Settle
    <3> QED BY <3>1, <3>2 DEF ClaimNext, Chain
  <2>3. CASE op.kind = "refund"
    <3>1. refund(i)
      BY <1>4, <2>3 DEF Call
    <3>2. Refund(i)
      BY <1>3, <1>4, <3>1 DEF Refund
    <3> QED BY <1>2, <3>2 DEF ClaimNext, Chain
  <2> QED BY <1>2, <2>1, <2>2, <2>3
<1>5. CASE UNCHANGED allVars
  BY <1>5
<1> QED BY <1>4, <1>5 DEF Execute

LEMMA OutsideActs ==
    ASSUME OpConstants, OutsideCall
    PROVE  ClaimNext
<1>1. "direct" \in Vias /\ via' = Append(via, "direct") /\ UNCHANGED backend
  BY DEF OutsideCall, OpConstants
<1>2. ASSUME NEW s \in signed, settle(s) PROVE ClaimNext
  <2>1. Settle(s)
    BY <1>1, <1>2 DEF Settle
  <2> QED BY <2>1 DEF ClaimNext, Chain
<1>3. ASSUME NEW i \in Registered, refund(i) PROVE ClaimNext
  <2>1. Refund(i)
    BY <1>1, <1>3 DEF Refund
  <2> QED BY <2>1 DEF ClaimNext, Chain
<1> QED BY <1>2, <1>3 DEF OutsideCall

LEMMA VerifyActs ==
    ASSUME ClaimInv, OpsInv, NEW n \in 1..Len(ops), verify(n)
    PROVE  [ClaimNext]_allVars
<1>1. OpsTyped /\ ReceiptsTrue /\ ConfirmedTrue /\ StatusesEarned
  BY DEF OpsInv
<1>2. CASE VerifyStops(n)
  BY <1>2 DEF VerifyStops
<1>3. CASE Send(n) \/ Confirm(n) \/ Finish(n)
  <2>1. \/ UNCHANGED allVars
        \/ ConfirmOperation(receipt[n].event)
        \/ ResendOperation(receipt[n].event)
    BY <1>3 DEF Send, Confirm, Finish, Believe, Doubt
  <2>2. ASSUME ConfirmOperation(receipt[n].event) PROVE ClaimNext
    <3>1. receipt[n].event \in 1..Len(log)
      BY <2>2 DEF ConfirmOperation, transaction_evidence
    <3> QED BY <2>2, <3>1 DEF ClaimNext
  <2>3. ASSUME ResendOperation(receipt[n].event) PROVE ClaimNext
    <3>1. receipt[n].event \in 1..Len(log)
      BY <2>3 DEF ResendOperation, ClaimInv, Inv1, Typed
    <3> QED BY <2>3, <3>1 DEF ClaimNext
  <2> QED BY <2>1, <2>2, <2>3
<1>4. CASE RecordEffect(n)
  <2>1. Verify(ops[n].bounty, receipt[n].event) /\ n \in verifying
    BY <1>4 DEF RecordEffect
  <2>2. receipt[n].event \in 1..Len(log)
    BY <1>1, <2>1 DEF ConfirmedTrue, StatusesEarned, Earned, ReceiptsTrue
  <2>3. ops[n].bounty \in Registered
    BY <1>1, RowsKnown DEF Row
  <2> QED BY <2>1, <2>2, <2>3 DEF ClaimNext
<1> QED BY <1>2, <1>3, <1>4 DEF verify

LEMMA OpsActs ==
    ASSUME ClaimConstants, OpConstants, ClaimInv, OpsInv, [OpsNext]_spVars
    PROVE  [ClaimNext]_allVars
<1>1. DOMAIN ops = 1..Len(ops)
  BY RowsKnown DEF OpsInv
<1>2. CASE OutsideCall
  BY <1>2, OutsideActs
<1>3. CASE Block
  BY <1>3 DEF Block, ClaimNext, Chain
<1>4. CASE Recovery
  BY <1>4 DEF Recovery, ClaimNext
<1>5. CASE Rewarding
  BY <1>5 DEF Rewarding, ClaimNext
<1>6. CASE \E t \in Tabs : submit(t)
  BY <1>6 DEF submit, Submit, signed_operation, SubmitFails
<1>7. ASSUME NEW n \in 1..Len(ops), Execute(n) \/ Drop(n) \/ verify(n)
      PROVE  [ClaimNext]_allVars
  BY <1>7, ExecuteActs, VerifyActs DEF Drop
<1>8. CASE UNCHANGED spVars
  BY <1>8 DEF spVars
<1> QED BY <1>1, <1>2, <1>3, <1>4, <1>5, <1>6, <1>7, <1>8 DEF OpsNext

-----------------------------------------------------------------------------
(* The specification.                                                      *)

LEMMA OpsInitHolds ==
    ASSUME OpsInit PROVE OpsInv
<1>1. /\ ops = <<>> /\ receipt = <<>> /\ sent = {} /\ verifying = {} /\ confirmed = {}
      /\ tab = [t \in Tabs |-> Idle]
  BY DEF OpsInit, ClaimInit
<1>2. Len(ops) = 0 /\ Len(receipt) = 0 /\ ops \in Seq(Row) /\ receipt \in Seq(Outcomes)
  BY <1>1
<1>3. OpsTyped
  BY <1>1, <1>2 DEF OpsTyped
<1>4. 1..Len(ops) = {}
  BY <1>2
<1>5. \A t \in Tabs : ~Submitting(t)
  BY <1>1 DEF Submitting
<1>6. CallsFit /\ ReceiptsTrue /\ StatusesEarned /\ OnePending /\ NextNonce /\ TabAlone
  BY <1>4, <1>5 DEF CallsFit, ReceiptsTrue, StatusesEarned, OnePending, NextNonce, TabAlone
<1>7. Believed = {}
  BY <1>4 DEF Believed
<1>8. ConfirmedTrue /\ OwnEvents
  BY <1>1, <1>4, <1>7 DEF ConfirmedTrue, OwnEvents
<1> QED BY <1>3, <1>6, <1>8 DEF OpsInv

LEMMA OpsStep ==
    ASSUME EscrowConstants, ClaimConstants, OpConstants, ClaimInv, OpsInv, [OpsNext]_spVars
    PROVE  OpsInv'
<1>1. DOMAIN ops = 1..Len(ops) /\ sent \subseteq 1..Len(ops)
  BY RowsKnown DEF OpsInv, OpsTyped
<1>2. CASE OutsideCall
  BY <1>2, OutsideKeeps
<1>3. CASE Block
  BY <1>3, BlockKeepsOps
<1>4. CASE Recovery
  BY <1>4, RecoveryKeeps DEF Recovery
<1>5. CASE Rewarding
  BY <1>5, RewardingKeeps
<1>6. ASSUME NEW t \in Tabs, submit(t) PROVE OpsInv'
  BY <1>6, SubmitKeeps, SignedKeeps, SubmitFailsKeeps DEF submit
<1>7. ASSUME NEW n \in 1..Len(ops), Execute(n) PROVE OpsInv'
  BY <1>7, ExecuteKeeps
<1>8. ASSUME NEW n \in 1..Len(ops), Drop(n) PROVE OpsInv'
  <2>1. /\ sent' \subseteq 1..Len(ops)
        /\ UNCHANGED <<allVars, ops, receipt, tab>> /\ verifying' \subseteq verifying
    BY <1>1, <1>8 DEF Drop
  <2> QED BY <2>1, PoolKeeps
<1>9. ASSUME NEW n \in 1..Len(ops), verify(n) PROVE OpsInv'
  <2>1. CASE Send(n)
    BY <2>1, SendKeeps
  <2>2. CASE Confirm(n)
    BY <2>2, ConfirmKeeps
  <2>3. CASE RecordEffect(n)
    <3>1. /\ Verify(ops[n].bounty, receipt[n].event) /\ n \in verifying /\ UNCHANGED opVars
      BY <2>3 DEF RecordEffect
    <3>2. receipt[n].event \in 1..Len(log)
      BY <3>1 DEF OpsInv, ConfirmedTrue, StatusesEarned, Earned, ReceiptsTrue
    <3>3. ops[n].bounty \in Registered
      BY RowsKnown DEF OpsInv, Row
    <3> QED BY <3>1, <3>2, <3>3, RecoveryKeeps
  <2>4. CASE Finish(n)
    BY <2>4, FinishKeeps
  <2>5. CASE VerifyStops(n)
    <3>1. /\ sent' \subseteq 1..Len(ops)
          /\ UNCHANGED <<allVars, ops, receipt, tab>> /\ verifying' \subseteq verifying
      BY <1>1, <2>5 DEF VerifyStops
    <3> QED BY <3>1, PoolKeeps
  <2> QED BY <1>9, <2>1, <2>2, <2>3, <2>4, <2>5 DEF verify
<1>10. CASE UNCHANGED spVars
  <2>1. /\ sent' \subseteq 1..Len(ops)
        /\ UNCHANGED <<allVars, ops, receipt, tab>> /\ verifying' \subseteq verifying
    BY <1>1, <1>10 DEF spVars, opVars
  <2> QED BY <2>1, PoolKeeps
<1> QED BY <1>1, <1>2, <1>3, <1>4, <1>5, <1>6, <1>7, <1>8, <1>9, <1>10 DEF OpsNext

\* The inductive invariant: EscrowClaims' own, and the operations'.
THEOREM OpsInvariant == OpsSpec => [](ClaimInv /\ OpsInv)
<1>1. OpsInit => ClaimInv /\ OpsInv
  BY EscrowConstants, ClaimInitHolds, OpsInitHolds DEF OpsInit
<1>2. ClaimInv /\ OpsInv /\ [OpsNext]_spVars => (ClaimInv /\ OpsInv)'
  BY EscrowConstants, ClaimConstants, OpConstants, OpsActs, OpsStep, ClaimStep
<1> QED BY <1>1, <1>2, PTL DEF OpsSpec

\* A deployment that signs for its users implements the one where they sign:
\* every step of it is a transaction or a request of EscrowClaims, or nothing
\* to the chain, the records and the vouchers.
THEOREM OpsImplementClaims == OpsSpec => ActsAsClaims
<1>1. OpsInit => ClaimInit
  BY DEF OpsInit
<1>2. ClaimInv /\ OpsInv /\ [OpsNext]_spVars => [ClaimNext]_allVars
  BY ClaimConstants, OpConstants, OpsActs
<1> QED BY <1>1, <1>2, OpsInvariant, PTL DEF OpsSpec, ClaimSpec, ActsAsClaims

LEMMA InvOpsTyped == ClaimInv /\ OpsInv => OpsTypeOK
<1> SUFFICES ASSUME ClaimInv, OpsInv PROVE OpsTypeOK
  OBVIOUS
<1>1. OpsTyped /\ CallsFit /\ ReceiptsTrue /\ ConfirmedTrue
  BY DEF OpsInv
<1>2. /\ DOMAIN ops = 1..Len(ops) /\ Len(ops) \in Nat
      /\ \A n \in 1..Len(ops) : ops[n] \in Row /\ receipt[n] \in Outcomes
  BY <1>1, RowsKnown
<1>3. \A n \in DOMAIN ops : Operation(ops[n])
  BY <1>1, <1>2 DEF CallsFit, Fits, Row, Operation
<1>4. receipt \in Seq(Receipts)
  <2>1. \A n \in 1..Len(ops) : receipt[n] \in Receipts
    <3> TAKE n \in 1..Len(ops)
    <3>1. receipt[n] \in Outcomes /\ receipt[n].at <= now /\ receipt[n].event <= Len(log)
      BY <1>1, <1>2 DEF ReceiptsTrue
    <3>2. now \in Nat /\ Len(log) \in Nat
      BY DEF ClaimInv, Inv1, Typed, TypeOK
    <3> QED BY <3>1, <3>2 DEF Outcomes, Receipts
  <2>2. receipt \in [1..Len(ops) -> Outcomes]
    BY <1>1, LenProperties DEF OpsTyped
  <2>3. receipt \in [1..Len(ops) -> Receipts]
    BY <2>1, <2>2
  <2> QED BY <1>2, <2>3, SeqDef
<1>5. verifying \subseteq {n \in DOMAIN ops : receipt[n].result = "success"}
  BY <1>1, <1>2 DEF OpsTyped, ConfirmedTrue, Earned
<1>6. confirmed = {receipt[n].event :
                      n \in {m \in DOMAIN ops : ops[m].status \in {"confirmed", "verified"}}}
  BY <1>1, <1>2 DEF ConfirmedTrue, Believed
<1> QED BY <1>1, <1>2, <1>3, <1>4, <1>5, <1>6 DEF OpsTyped, OpsTypeOK

LEMMA InvRunnable == OpsInv => OneRunnable
<1> SUFFICES ASSUME OpsInv, NEW n \in DOMAIN ops, receipt[n].result = "none"
             PROVE  /\ ops[n].status \in {"signed", "submitted"}
                    /\ ops[n].nonce = Cardinality(Executed(ops[n].owner))
                    /\ \A m \in OpsOf(ops[n].owner) : receipt[m].result = "none" => m = n
  BY DEF OneRunnable
<1>1. OpsTyped /\ StatusesEarned /\ OnePending /\ NextNonce
  BY DEF OpsInv
<1>2. DOMAIN ops = 1..Len(ops) /\ \A m \in 1..Len(ops) : ops[m] \in Row
  BY <1>1, RowsKnown
<1>3. \A m \in 1..Len(ops) : receipt[m].result = "none" =>
          ops[m].status \in {"signed", "submitted"}
  BY <1>1, <1>2 DEF StatusesEarned, Earned, Row, Statuses
<1>4. ops[n].nonce = Cardinality(Executed(ops[n].owner))
  BY <1>1, <1>2 DEF NextNonce, Row
<1>5. \A m \in OpsOf(ops[n].owner) : receipt[m].result = "none" => m = n
  BY <1>1, <1>2, <1>3 DEF OnePending, OpsOf, Unfinished
<1> QED BY <1>2, <1>3, <1>4, <1>5

LEMMA InvStatus == ClaimInv /\ OpsInv => StatusTrue
<1> SUFFICES ASSUME ClaimInv, OpsInv, NEW n \in DOMAIN ops
             PROVE
        /\ ops[n].status = "failed" => receipt[n].result = "reverted"
        /\ ops[n].status \in {"confirmed", "verified"} =>
               /\ receipt[n].result = "success"
               /\ log[receipt[n].event].id = ops[n].bounty
        /\ ops[n].status = "verified" =>
               CASE ops[n].kind = "fund"   -> fundingSeen[ops[n].bounty] = receipt[n].event
                 [] ops[n].kind = "settle" -> settledSeen[ops[n].bounty] = receipt[n].event
                 [] ops[n].kind = "refund" -> refundSeen[ops[n].bounty] = receipt[n].event
  BY DEF StatusTrue
<1> DEFINE i == ops[n].bounty
           k == receipt[n].event
<1>1. OpsTyped /\ StatusesEarned /\ ReceiptsTrue
  BY DEF OpsInv
<1>2. n \in 1..Len(ops) /\ i \in Registered /\ ops[n].kind \in {"fund", "settle", "refund"}
  BY <1>1, RowsKnown DEF Row, Kinds
<1>3. Typed /\ RecordsHold /\ LeavesOnce
  BY DEF ClaimInv, Inv1, Inv2
<1>4. Earned(n, ops[n].status)
  BY <1>1, <1>2 DEF StatusesEarned
<1>5. receipt[n].result = "success" =>
          /\ k \in 1..Len(log) /\ log[k].id = i /\ log[k].event = EventOf(ops[n].kind)
  BY <1>1, <1>2 DEF ReceiptsTrue
<1>6. ASSUME ops[n].status = "verified", ops[n].kind = "settle" PROVE settledSeen[i] = k
  <2>1. settledSeen[i] # Never /\ settledSeen[i] \in 0..Len(log)
    BY <1>2, <1>3, <1>4, <1>6 DEF Earned, Typed
  <2>2. /\ settledSeen[i] \in 1..Len(log)
        /\ log[settledSeen[i]].event = "BountySettled" /\ log[settledSeen[i]].id = i
    BY <1>2, <1>3, <2>1 DEF RecordsHold, Never
  <2>3. k \in 1..Len(log) /\ log[k].id = i /\ log[k].event = "BountySettled"
    BY <1>4, <1>5, <1>6 DEF Earned, EventOf
  <2> QED BY <1>3, <2>2, <2>3 DEF LeavesOnce, Closing
<1>7. ASSUME ops[n].status = "verified", ops[n].kind = "refund" PROVE refundSeen[i] = k
  <2>1. refundSeen[i] # Never /\ refundSeen[i] \in 0..Len(log)
    BY <1>2, <1>3, <1>4, <1>7 DEF Earned, Typed
  <2>2. /\ refundSeen[i] \in 1..Len(log)
        /\ log[refundSeen[i]].event = "BountyRefunded" /\ log[refundSeen[i]].id = i
    BY <1>2, <1>3, <2>1 DEF RecordsHold, Never
  <2>3. k \in 1..Len(log) /\ log[k].id = i /\ log[k].event = "BountyRefunded"
    BY <1>4, <1>5, <1>7 DEF Earned, EventOf
  <2> QED BY <1>3, <2>2, <2>3 DEF LeavesOnce, Closing
<1>8. ops[n].status = "verified" /\ ops[n].kind = "fund" => fundingSeen[i] = k
  BY <1>4 DEF Earned
<1>9. ops[n].status = "failed" => receipt[n].result = "reverted"
  BY <1>4 DEF Earned
<1>10. ops[n].status \in {"confirmed", "verified"} =>
           receipt[n].result = "success" /\ log[k].id = i
  BY <1>4, <1>5 DEF Earned
<1> QED BY <1>2, <1>6, <1>7, <1>8, <1>9, <1>10

\* Operations, receipts and submissions keep their shape, and the events that
\* count as sponsored are those of operations seen to succeed.
THEOREM OpsTypeCorrect == OpsSpec => []OpsTypeOK
BY OpsInvariant, InvOpsTyped, PTL

\* A wallet has at most one signed operation that could still run, and it has
\* the account's next nonce, for any number of tabs, owners and blocks between
\* a submission's reading of the nonce and its commit.
THEOREM NeverWedged == OpsSpec => []OneRunnable
BY OpsInvariant, InvRunnable, PTL

\* What is said of an operation is what its own transaction did.
THEOREM OperationsTrue == OpsSpec => []StatusTrue
BY OpsInvariant, InvStatus, PTL

LEMMA EndedStep ==
    ASSUME OpsInv, [OpsNext]_spVars, NEW n \in DOMAIN ops,
           ops[n].status \in {"verified", "failed"}
    PROVE  ops'[n] = ops[n]
<1>1. OpsTyped /\ StatusesEarned /\ ConfirmedTrue
  BY DEF OpsInv
<1>2. /\ DOMAIN ops = 1..Len(ops) /\ n \in 1..Len(ops) /\ Len(ops) \in Nat
      /\ ops \in Seq(Row) /\ ops[n] \in Row
  BY <1>1, RowsKnown DEF OpsTyped
<1>3. CASE UNCHANGED ops
  BY <1>3
<1>4. ASSUME NEW t \in Tabs, signed_operation(t) PROVE ops'[n] = ops[n]
  <2>1. PICK row : ops' = Append(ops, row)
    BY <1>4 DEF signed_operation
  <2> QED BY <1>2, <2>1
<1>5. ASSUME NEW m \in 1..Len(ops), NEW st \in Statuses, ops' = WithStatus(m, st), m # n
      PROVE  ops'[n] = ops[n]
  BY <1>1, <1>2, <1>5, StatusWritten
<1>6. ASSUME NEW m \in 1..Len(ops), Send(m) PROVE ops'[n] = ops[n]
  <2>1. m = n => FALSE
    BY <1>6 DEF Send, Verifiable, Unfinished
  <2> QED BY <1>5, <1>6, <2>1 DEF Send, Statuses
<1>7. ASSUME NEW m \in 1..Len(ops), Confirm(m) PROVE ops'[n] = ops[n]
  <2>1. m = n => FALSE
    BY <1>7 DEF Confirm, Verifiable, Unfinished
  <2> QED BY <1>5, <1>7, <2>1 DEF Confirm, Outcome, Statuses
<1>8. ASSUME NEW m \in 1..Len(ops), Finish(m) PROVE ops'[n] = ops[n]
  <2>1. ops' = WithStatus(m, "verified") /\ Earned(m, "confirmed")
    BY <1>1, <1>8 DEF Finish, ConfirmedTrue
  <2>2. CASE m = n
    <3>1. Earned(n, ops[n].status)
      BY <1>1, <1>2 DEF StatusesEarned
    <3>2. ops[n].status = "verified"
      BY <2>1, <2>2, <3>1 DEF Earned
    <3>3. [ops[n] EXCEPT !.status = "verified"] = ops[n]
      BY <1>2, <3>2 DEF Row
    <3> QED BY <1>2, <2>1, <2>2, <3>3 DEF WithStatus
  <2> QED BY <1>5, <2>1, <2>2 DEF Statuses
<1>9. ASSUME NEW m \in DOMAIN ops, verify(m) PROVE ops'[n] = ops[n]
  BY <1>2, <1>3, <1>6, <1>7, <1>8, <1>9 DEF verify, RecordEffect, VerifyStops, opVars
<1>10. ASSUME NEW t \in Tabs, submit(t) PROVE ops'[n] = ops[n]
  BY <1>3, <1>4, <1>10 DEF submit, Submit, SubmitFails
<1> QED BY <1>3, <1>9, <1>10
        DEF OpsNext, OutsideCall, Block, Recovery, Rewarding, Execute, Drop, opVars, spVars

\* The answer a user was given of an operation that ended stays the answer:
\* only a request that saw it succeed writes over the status unasked, and such
\* an operation never ended as failed.
THEOREM EndsOnce == OpsSpec => EndedIsFinal
<1>1. OpsInv /\ [OpsNext]_spVars =>
          [\A n \in DOMAIN ops :
               ops[n].status \in {"verified", "failed"} => ops'[n] = ops[n]]_spVars
  BY EndedStep
<1> QED BY <1>1, OpsInvariant, PTL DEF OpsSpec, EndedIsFinal

\* A deployment that signs for its users inherits the vouchers' safety.
THEOREM OneAuthorizationStill == OpsSpec => []OneUsable
BY OpsInvariant, InvUsable, PTL

\* So does the money: operations the backend builds, signs and sends for its
\* users, late or twice, leave the escrow's promise as it is.
THEOREM PromiseStill == OpsSpec => KeepsPromise
BY OpsImplementClaims, SystemKeepsPromise, PTL DEF ActsAsClaims

\* A sponsored operation carries a voucher the contract takes, for a reward that
\* was funded and allocated, and what is recorded of it is final.
THEOREM VouchersStillHonoured == OpsSpec => [](VouchersHonoured /\ EarnedFirst) /\ RecordsFinal
BY OpsImplementClaims, SystemHonoursVouchers, PaidOnlyEarned, SystemRecordsFinal, PTL
DEF ActsAsClaims
=============================================================================
