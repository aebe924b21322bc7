------------------------- MODULE EscrowIndexerProofs -------------------------
(***************************************************************************)
(* What recovery guarantees for any bounties, passes under way at once,    *)
(* overlap and chunk: it does nothing a browser's requests could not do,   *)
(* and leaves no event of a published bounty behind its cursor.            *)
(***************************************************************************)
EXTENDS EscrowIndexer, EscrowProofs

Reading(n) == pass[n].pc = "logs"

IndexTyped ==
    /\ cursor \in Nat
    /\ pass \in [Passes -> {Resting} \cup [pc : {"logs"}, end : Nat, todo : SUBSET Nat]]
    /\ \A n \in Passes : Reading(n) => /\ pass[n].todo \subseteq 1..Len(log)
                                       /\ \A k \in pass[n].todo : log[k].id \in Registered

BehindHead ==
    /\ cursor > 0 => cursor < latest
    /\ \A n \in Passes : Reading(n) => pass[n].end < latest

\* A voucher, and a request for one, are about an allocated reward: what is
\* not allocated has not been settled.
AllocatedFirst ==
    /\ \A s \in signed : allocated[s.bountyId]
    /\ \A r \in Requests : req[r] # Idle => allocated[req[r].bounty]

\* What lies behind a pass's end and is not on its list is on record.
PassComplete ==
    \A n \in Passes : Reading(n) =>
        \A k \in 1..Len(log) :
            log[k].id \in Registered /\ log[k].at <= pass[n].end =>
                k \in pass[n].todo \/ Recorded(k)

IndexInv == IndexTyped /\ BehindHead /\ AllocatedFirst /\ CursorComplete /\ PassComplete

-----------------------------------------------------------------------------
(* The rest of the system, seen from a pass.                               *)

LEMMA AllocatedStays ==
    ASSUME ClaimConstants, ClaimInv, AllocatedFirst, [ClaimNext]_allVars
    PROVE  /\ AllocatedFirst'
           /\ \A i \in Registered : allocated[i] => allocated'[i]
<1>1. Typed
  BY DEF ClaimInv, Inv1
<1>2. ASSUME UNCHANGED <<signed, allocated, req>>
      PROVE  AllocatedFirst' /\ \A i \in Registered : allocated[i] => allocated'[i]
  BY <1>2 DEF AllocatedFirst
<1>3. CASE Chain \/ UNCHANGED allVars
  <2>1. UNCHANGED <<signed, allocated, req>>
    BY <1>3 DEF Chain, Fund, Settle, Refund, NextBlock, Tick, fund, settle, refund, backend,
                claims, allVars, vars
  <2> QED BY <1>2, <2>1
<1>4. CASE Redeploy \/ \E k \in 1..Len(log) : ConfirmOperation(k) \/ ResendOperation(k)
  BY <1>2, <1>4 DEF Redeploy, ConfirmOperation, ResendOperation, vars, claims
<1>5. CASE \E i \in Registered, k \in 1..Len(log) : Verify(i, k)
  BY <1>2, <1>5 DEF Verify, verify_funding, verify_settlement, verify_refund, vars, claims
<1>6. ASSUME NEW i \in Registered, NEW t \in Merges, reserve_cash_allocation(i, t)
      PROVE  AllocatedFirst' /\ \A n \in Registered : allocated[n] => allocated'[n]
  <2>1. /\ allocated' = [allocated EXCEPT ![i] = TRUE]
        /\ UNCHANGED <<signed, req>>
    BY <1>6 DEF reserve_cash_allocation, vars
  <2>2. \A n \in Registered : allocated[n] => allocated'[n]
    BY <1>1, <2>1 DEF Typed
  <2>3. \A s \in signed : s.bountyId \in Registered
    BY DEF ClaimInv, Inv1, VouchersTyped
  <2>4. \A r \in Requests : req[r] # Idle => req[r].bounty \in Registered
    BY <1>1 DEF Typed, Reqs
  <2> QED BY <2>1, <2>2, <2>3, <2>4 DEF AllocatedFirst
<1>7. ASSUME NEW r \in Requests, VoucherRequest(r)
      PROVE  AllocatedFirst' /\ \A n \in Registered : allocated[n] => allocated'[n]
  <2>1. UNCHANGED allocated
    BY <1>7 DEF VoucherRequest, VoucherBegin, VoucherLock, VoucherCheck, VoucherSign,
                VoucherRefuse, claims
  <2>2. \A q \in Requests : q # r => req'[q] = req[q]
    BY <1>1, <1>7 DEF Typed, VoucherRequest, VoucherBegin, VoucherLock, VoucherCheck,
                      VoucherSign, VoucherRefuse
  <2>3. req'[r] # Idle => allocated[req'[r].bounty]
    <3>1. ASSUME NEW i \in Registered, VoucherBegin(r, i) PROVE allocated[req'[r].bounty]
      BY <1>1, <3>1 DEF Typed, VoucherBegin
    <3>2. CASE VoucherLock(r)
      <4>1. allocated[req[r].bounty]
        BY <3>2 DEF VoucherLock, AllocatedFirst, Idle
      <4> QED BY <1>1, <3>2, <4>1 DEF Typed, VoucherLock
    <3>3. CASE VoucherCheck(r)
      <4>1. allocated[req[r].bounty] /\ req[r] \in Reqs /\ req[r].pc = "locked"
        BY <1>1, <3>3 DEF VoucherCheck, AllocatedFirst, Idle, Typed
      <4>2. req'[r] = [req[r] EXCEPT !.pc = "checked"]
        BY <1>1, <3>3 DEF VoucherCheck, Typed
      <4>3. [req[r] EXCEPT !.pc = "checked"].bounty = req[r].bounty
        BY <4>1 DEF Reqs, Idle
      <4> QED BY <4>1, <4>2, <4>3
    <3>4. CASE VoucherSign(r) \/ VoucherRefuse(r)
      BY <1>1, <3>4 DEF VoucherSign, VoucherRefuse, Typed
    <3> QED BY <1>7, <3>1, <3>2, <3>3, <3>4 DEF VoucherRequest
  <2>4. \A s \in signed' : s \in signed \/ allocated[s.bountyId]
    <3>1. CASE VoucherSign(r)
      <4>1. /\ signed' = signed \cup {typed_data(req[r].bounty, req[r].recipient, req[r].at)}
            /\ allocated[req[r].bounty]
        BY <3>1 DEF VoucherSign, AllocatedFirst, Idle
      <4>2. typed_data(req[r].bounty, req[r].recipient, req[r].at).bountyId = req[r].bounty
        BY DEF typed_data
      <4> QED BY <4>1, <4>2
    <3>2. CASE ~VoucherSign(r)
      BY <1>7, <3>2 DEF VoucherRequest, VoucherBegin, VoucherLock, VoucherCheck,
                        VoucherRefuse, vars
    <3> QED BY <3>1, <3>2
  <2> QED BY <2>1, <2>2, <2>3, <2>4 DEF AllocatedFirst
<1> QED BY <1>3, <1>4, <1>5, <1>6, <1>7 DEF ClaimNext

\* What is on record stays so, and what is new is newer than any pass reads.
LEMMA RecordedStays ==
    ASSUME ClaimInv, AllocatedFirst, Onward,
           \A i \in Registered : allocated[i] => allocated'[i]
    PROVE  \A k \in 1..Len(log) : log[k].id \in Registered /\ Recorded(k) => Recorded(k)'
<1> SUFFICES ASSUME NEW k \in 1..Len(log), log[k].id \in Registered, Recorded(k)
             PROVE  Recorded(k)'
  OBVIOUS
<1> DEFINE i == log[k].id
<1>1. Typed /\ EventsTrue /\ log[k] \in Events /\ log'[k] = log[k]
  BY EventAt DEF ClaimInv, Inv1, Inv2, Typed, Onward
<1>2. /\ fundingSeen[i] # Never => fundingSeen'[i] # Never
      /\ settledSeen[i] # Never => settledSeen'[i] # Never
      /\ refundSeen[i] # Never => refundSeen'[i] # Never
  BY DEF Onward
<1>3. log[k].event \in {"BountyFunded", "BountySettled", "BountyRefunded"}
  BY <1>1 DEF Events
<1>4. log[k].event = "BountySettled" => allocated[i]
  BY <1>1 DEF EventsTrue, EventTrue, AllocatedFirst
<1>5. CASE log[k].event = "BountyFunded"
  BY <1>1, <1>2, <1>5 DEF Recorded
<1>6. CASE log[k].event = "BountySettled"
  BY <1>1, <1>2, <1>4, <1>6 DEF Recorded
<1>7. CASE log[k].event = "BountyRefunded"
  BY <1>1, <1>2, <1>7 DEF Recorded
<1> QED BY <1>3, <1>5, <1>6, <1>7

\* What was behind the head of the chain still is when it is later.
LEMMA LaterHead ==
    ASSUME NEW m \in Nat, NEW n \in Nat, m <= n, NEW b \in Nat, b < m - 1
    PROVE  b < n - 1
OBVIOUS

\* The rest of the system moves; a pass drops what is on record, or ends.
LEMMA RestKeeps ==
    ASSUME EscrowConstants, ClaimConstants, ClaimInv, IndexInv, [ClaimNext]_allVars,
           UNCHANGED cursor,
           pass' \in [Passes -> {Resting} \cup [pc : {"logs"}, end : Nat, todo : SUBSET Nat]],
           \A n \in Passes : Reading(n)' =>
               /\ Reading(n)
               /\ pass'[n].end = pass[n].end
               /\ pass'[n].todo \subseteq pass[n].todo
               /\ \A k \in pass[n].todo : k \in pass'[n].todo \/ Recorded(k)'
    PROVE  IndexInv'
<1>1. Onward
  BY ClaimsOnward
<1>2. /\ now \in Nat /\ now' \in Nat /\ now <= now'
      /\ Len(log) \in Nat /\ Len(log') \in Nat /\ Len(log) <= Len(log')
      /\ \A k \in 1..Len(log) : log'[k] = log[k]
      /\ \A k \in (Len(log) + 1)..Len(log') : log'[k].at = now
  BY <1>1 DEF Onward
<1>3. IndexTyped /\ BehindHead /\ AllocatedFirst /\ CursorComplete /\ PassComplete
  BY DEF IndexInv
<1>4. AllocatedFirst' /\ \A i \in Registered : allocated[i] => allocated'[i]
  BY <1>3, AllocatedStays
<1>5. \A k \in 1..Len(log) : log[k].id \in Registered /\ Recorded(k) => Recorded(k)'
  BY <1>1, <1>3, <1>4, RecordedStays
<1>6. \A n \in Passes : Reading(n) => pass[n].end \in Nat
  BY <1>3 DEF IndexTyped, Reading, Resting
<1>7. IndexTyped'
  <2>1. \A n \in Passes : Reading(n) => /\ pass[n].todo \subseteq 1..Len(log')
                                        /\ \A k \in pass[n].todo : log'[k].id \in Registered
    BY <1>2, <1>3 DEF IndexTyped
  <2>2. \A n \in Passes : Reading(n)' => /\ pass'[n].todo \subseteq 1..Len(log')
                                         /\ \A k \in pass'[n].todo : log'[k].id \in Registered
    BY <2>1
  <2> QED BY <1>3, <2>2 DEF IndexTyped
<1>8. BehindHead'
  <2>1. \A b \in Nat : b < latest => b < latest'
    BY <1>2, LaterHead DEF latest
  <2>2. \A n \in Passes : Reading(n)' => pass'[n].end < latest'
    <3> SUFFICES ASSUME NEW n \in Passes, Reading(n)' PROVE pass'[n].end < latest'
      OBVIOUS
    <3>1. Reading(n) /\ pass'[n].end = pass[n].end
      OBVIOUS
    <3> QED BY <1>3, <1>6, <2>1, <3>1 DEF BehindHead
  <2>3. cursor > 0 => cursor < latest'
    BY <1>3, <2>1 DEF BehindHead, IndexTyped
  <2> QED BY <2>2, <2>3 DEF BehindHead
<1>9. ASSUME NEW k \in 1..Len(log'), NEW b \in Nat, b < latest, log'[k].at <= b
      PROVE  k \in 1..Len(log) /\ log'[k] = log[k]
  BY <1>2, <1>9 DEF latest
<1>10. CursorComplete'
  <2> SUFFICES ASSUME NEW k \in 1..Len(log'), cursor > 0, log'[k].id \in Registered,
                      log'[k].at <= cursor
               PROVE  Recorded(k)'
    BY DEF CursorComplete
  <2>1. cursor \in Nat /\ cursor < latest
    BY <1>3 DEF IndexTyped, BehindHead
  <2>2. k \in 1..Len(log) /\ log'[k] = log[k]
    BY <1>9, <2>1
  <2>3. Recorded(k)
    BY <1>3, <2>2 DEF CursorComplete
  <2> QED BY <1>5, <2>2, <2>3
<1>11. PassComplete'
  <2> SUFFICES ASSUME NEW n \in Passes, Reading(n)', NEW k \in 1..Len(log'),
                      log'[k].id \in Registered, log'[k].at <= pass'[n].end,
                      k \notin pass'[n].todo
               PROVE  Recorded(k)'
    BY DEF PassComplete
  <2>1. Reading(n) /\ pass'[n].end = pass[n].end
    OBVIOUS
  <2>2. pass[n].end \in Nat /\ pass[n].end < latest
    BY <1>3, <1>6, <2>1 DEF BehindHead
  <2>3. k \in 1..Len(log) /\ log'[k] = log[k]
    BY <1>9, <2>1, <2>2
  <2>4. CASE k \in pass[n].todo
    BY <2>4
  <2>5. CASE k \notin pass[n].todo
    <3>1. Recorded(k)
      BY <1>3, <2>1, <2>3, <2>5 DEF PassComplete
    <3> QED BY <1>5, <2>3, <3>1
  <2> QED BY <2>4, <2>5
<1> QED BY <1>4, <1>7, <1>8, <1>10, <1>11 DEF IndexInv

-----------------------------------------------------------------------------
(* A pass.                                                                 *)

\* What lies before the blocks read again was passed by the cursor.
LEMMA ReadKeeps ==
    ASSUME IndexConstants, ClaimInv, IndexInv, NEW n \in Passes, ReadLogs(n)
    PROVE  IndexInv'
<1> DEFINE end == Earlier(startBlock + Chunk, confirmedHead)
           todo == {k \in 1..Len(log) : log[k].at \in startBlock..end
                                        /\ log[k].id \in Registered}
           x == [pc |-> "logs", end |-> end, todo |-> todo]
<1>1. IndexTyped /\ BehindHead /\ AllocatedFirst /\ CursorComplete /\ PassComplete
  BY DEF IndexInv
<1>2. now \in Nat /\ Len(log) \in Nat /\ \A k \in 1..Len(log) : log[k].at \in Nat
  BY EventAt DEF ClaimInv, Inv1, Typed, TypeOK
<1>3. /\ end >= startBlock
      /\ pass' = [pass EXCEPT ![n] = x]
      /\ UNCHANGED <<allVars, cursor>>
  BY DEF ReadLogs
<1>4. startBlock \in Nat /\ cursor \in Nat
  BY <1>1 DEF IndexTyped, startBlock, IndexConstants
<1>5. end \in Nat /\ end < latest
  BY <1>2, <1>3, <1>4 DEF Earlier, confirmedHead, latest, IndexConstants
<1>6. x.pc = "logs" /\ x.end = end /\ x.todo = todo
  OBVIOUS
<1>7. x \in [pc : {"logs"}, end : Nat, todo : SUBSET Nat]
  BY <1>2, <1>5
<1>8. \A k \in 1..Len(log) : log[k].id \in Registered /\ log[k].at <= end =>
          k \in todo \/ Recorded(k)
  <2> SUFFICES ASSUME NEW k \in 1..Len(log), log[k].id \in Registered, log[k].at <= end,
                      ~(log[k].at >= startBlock)
               PROVE  Recorded(k)
    BY <1>2, <1>4, <1>5
  <2>1. cursor > 0 /\ log[k].at <= cursor
    BY <1>2, <1>4 DEF startBlock, IndexConstants
  <2> QED BY <1>1, <2>1 DEF CursorComplete
<1>9. todo \subseteq 1..Len(log) /\ \A k \in todo : log[k].id \in Registered
  OBVIOUS
<1> HIDE DEF x, todo, end
<1>10. pass'[n] = x /\ \A m \in Passes : m # n => pass'[m] = pass[m]
  BY <1>1, <1>3 DEF IndexTyped
<1>11. UNCHANGED <<now, log, signed, allocated, req, evidence>>
  BY <1>3 DEF allVars, vars, contract, backend, claims
<1>12. IndexTyped'
  <2>1. pass' \in [Passes -> {Resting} \cup [pc : {"logs"}, end : Nat, todo : SUBSET Nat]]
    BY <1>1, <1>3, <1>7 DEF IndexTyped
  <2>2. \A m \in Passes : Reading(m)' => /\ pass'[m].todo \subseteq 1..Len(log)
                                         /\ \A k \in pass'[m].todo : log[k].id \in Registered
    BY <1>1, <1>6, <1>9, <1>10 DEF IndexTyped, Reading
  <2> QED BY <1>1, <1>3, <1>11, <2>1, <2>2 DEF IndexTyped, Reading
<1>13. BehindHead'
  BY <1>1, <1>3, <1>5, <1>6, <1>10, <1>11 DEF BehindHead, Reading, latest
<1>14. AllocatedFirst'
  BY <1>1, <1>11 DEF AllocatedFirst
<1>15. \A k : Recorded(k)' <=> Recorded(k)
  BY <1>11 DEF Recorded, evidence
<1>16. CursorComplete'
  BY <1>1, <1>3, <1>11, <1>15 DEF CursorComplete
<1>17. PassComplete'
  BY <1>1, <1>6, <1>8, <1>10, <1>11, <1>15 DEF PassComplete, Reading
<1> QED BY <1>12, <1>13, <1>14, <1>16, <1>17 DEF IndexInv

\* A pass that ends, for whatever reason, without moving the cursor.
LEMMA RestingKeeps ==
    ASSUME ClaimInv, IndexInv, NEW n \in Passes, pass' = [pass EXCEPT ![n] = Resting],
           UNCHANGED <<now, log, signed, allocated, req, evidence>>,
           cursor' \in Nat, cursor' > 0 => cursor' < latest, CursorComplete'
    PROVE  IndexInv'
<1>1. IndexTyped /\ BehindHead /\ AllocatedFirst /\ PassComplete
  BY DEF IndexInv
<1>2. pass'[n] = Resting /\ \A m \in Passes : m # n => pass'[m] = pass[m]
  BY <1>1 DEF IndexTyped
<1>3. \A m \in Passes : Reading(m)' => pass'[m] = pass[m] /\ Reading(m)
  BY <1>2 DEF Reading, Resting
<1>4. IndexTyped'
  <2>1. pass' \in [Passes -> {Resting} \cup [pc : {"logs"}, end : Nat, todo : SUBSET Nat]]
    BY <1>1 DEF IndexTyped
  <2> QED BY <1>1, <1>3, <2>1 DEF IndexTyped
<1>5. BehindHead'
  BY <1>1, <1>3 DEF BehindHead, latest
<1>6. AllocatedFirst'
  BY <1>1 DEF AllocatedFirst
<1>7. \A k : Recorded(k)' <=> Recorded(k)
  BY DEF Recorded, evidence
<1>8. PassComplete'
  BY <1>1, <1>3, <1>7 DEF PassComplete
<1> QED BY <1>4, <1>5, <1>6, <1>8 DEF IndexInv

LEMMA StopKeeps ==
    ASSUME EscrowConstants, ClaimConstants, ClaimInv, IndexInv, NEW n \in Passes,
           pass' = [pass EXCEPT ![n] = Resting], UNCHANGED <<allVars, cursor>>
    PROVE  IndexInv'
<1>1. \A m \in Passes : Reading(m)' => pass'[m] = pass[m] /\ Reading(m)
  BY DEF IndexInv, IndexTyped, Reading, Resting
<1> QED BY <1>1, RestKeeps DEF IndexInv, IndexTyped

\* The verifier's commit puts the event it is given on record.
LEMMA VerifyRecords ==
    ASSUME ClaimInv, NEW k \in 1..Len(log), log[k].id \in Registered, Verify(log[k].id, k)
    PROVE  Recorded(k)'
<1>1. Typed /\ k # Never
  BY DEF ClaimInv, Inv1, Never
<1>2. log' = log
  BY DEF Verify, verify_funding, verify_settlement, verify_refund, vars, contract
<1>3. CASE verify_funding(log[k].id, k)
  BY <1>1, <1>2, <1>3 DEF verify_funding, FundingProof, verify_funding_receipt, Recorded, Typed
<1>4. CASE verify_settlement(log[k].id, k)
  BY <1>1, <1>2, <1>4 DEF verify_settlement, SettlementProof, verify_settlement_receipt,
                          Recorded, Typed
<1>5. CASE verify_refund(log[k].id, k)
  BY <1>1, <1>2, <1>5 DEF verify_refund, RefundProof, verify_refund_receipt, Recorded, Typed
<1> QED BY <1>3, <1>4, <1>5 DEF Verify

\* A pass with an event dropped, written out.
LEMMA LessToDo ==
    ASSUME NEW p \in [pc : {"logs"}, end : Nat, todo : SUBSET Nat], NEW t
    PROVE  [p EXCEPT !.todo = t] = [pc |-> "logs", end |-> p.end, todo |-> t]
OBVIOUS

LEMMA RecordKeeps ==
    ASSUME EscrowConstants, ClaimConstants, ClaimInv, IndexInv, NEW n \in Passes,
           NEW k \in 1..Len(log), RecordNext(n, k)
    PROVE  IndexInv' /\ [ClaimNext]_allVars
<1>1. IndexTyped
  BY DEF IndexInv
<1>2. /\ Reading(n) /\ k \in pass[n].todo
      /\ (Recorded(k) /\ UNCHANGED allVars) \/ Verify(log[k].id, k)
      /\ pass' = [pass EXCEPT ![n].todo = @ \ {k}]
      /\ UNCHANGED cursor
  BY DEF RecordNext, NextLog, Reading
<1>3. log[k].id \in Registered
  BY <1>1, <1>2 DEF IndexTyped
<1>4. [ClaimNext]_allVars
  BY <1>2, <1>3 DEF ClaimNext
<1>5. Recorded(k)'
  <2>1. CASE Recorded(k) /\ UNCHANGED allVars
    BY <2>1 DEF Recorded, allVars, vars, contract, backend, claims, evidence
  <2>2. CASE Verify(log[k].id, k)
    BY <1>3, <2>2, VerifyRecords
  <2> QED BY <1>2, <2>1, <2>2
<1> DEFINE x == [pc |-> "logs", end |-> pass[n].end, todo |-> pass[n].todo \ {k}]
<1>6. pass[n] \in [pc : {"logs"}, end : Nat, todo : SUBSET Nat]
  BY <1>1, <1>2 DEF IndexTyped, Reading, Resting
<1>7. pass' = [pass EXCEPT ![n] = x]
  <2>1. [pass[n] EXCEPT !.todo = pass[n].todo \ {k}] = x
    BY <1>6, LessToDo
  <2> QED BY <1>2, <2>1
<1>8. /\ x \in [pc : {"logs"}, end : Nat, todo : SUBSET Nat]
      /\ x.end = pass[n].end /\ x.todo = pass[n].todo \ {k}
  BY <1>6
<1> HIDE DEF x
<1>9. /\ pass' \in [Passes -> {Resting} \cup [pc : {"logs"}, end : Nat, todo : SUBSET Nat]]
      /\ pass'[n] = x
      /\ \A m \in Passes : m # n => pass'[m] = pass[m]
  BY <1>1, <1>7, <1>8 DEF IndexTyped
<1>10. \A m \in Passes : Reading(m)' =>
           /\ Reading(m)
           /\ pass'[m].end = pass[m].end
           /\ pass'[m].todo \subseteq pass[m].todo
           /\ \A j \in pass[m].todo : j \in pass'[m].todo \/ Recorded(j)'
  <2> SUFFICES ASSUME NEW m \in Passes, Reading(m)'
               PROVE  /\ Reading(m)
                      /\ pass'[m].end = pass[m].end
                      /\ pass'[m].todo \subseteq pass[m].todo
                      /\ \A j \in pass[m].todo : j \in pass'[m].todo \/ Recorded(j)'
    OBVIOUS
  <2>1. CASE m = n
    <3>1. \A j \in pass[m].todo : j = k \/ j \in pass'[m].todo
      BY <1>8, <1>9, <2>1
    <3>2. \A j \in pass[m].todo : j \in pass'[m].todo \/ Recorded(j)'
      BY <1>5, <3>1
    <3> QED BY <1>2, <1>8, <1>9, <2>1, <3>2
  <2>2. CASE m # n
    <3>1. pass'[m] = pass[m]
      BY <1>9, <2>2
    <3> QED BY <3>1 DEF Reading
  <2> QED BY <2>1, <2>2
<1> QED BY <1>2, <1>4, <1>9, <1>10, RestKeeps

\* A pass that has dealt with all it read moves the cursor to its end.
LEMMA AdvanceKeeps ==
    ASSUME ClaimInv, IndexInv, NEW n \in Passes, Advance(n)
    PROVE  IndexInv'
<1>1. IndexTyped /\ BehindHead /\ CursorComplete /\ PassComplete
  BY DEF IndexInv
<1>2. /\ Reading(n) /\ pass[n].todo = {}
      /\ cursor' = IF pass[n].end > cursor THEN pass[n].end ELSE cursor
      /\ pass' = [pass EXCEPT ![n] = Resting]
      /\ UNCHANGED allVars
  BY DEF Advance, Reading
<1>3. UNCHANGED <<now, log, signed, allocated, req, evidence>>
  BY <1>2 DEF allVars, vars, contract, backend, claims
<1>4. pass[n].end \in Nat /\ pass[n].end < latest /\ cursor \in Nat
  BY <1>1, <1>2 DEF IndexTyped, BehindHead, Reading, Resting
<1>5. \A k : Recorded(k)' <=> Recorded(k)
  BY <1>3 DEF Recorded, evidence
<1>6. CursorComplete'
  <2> SUFFICES ASSUME NEW k \in 1..Len(log), cursor' > 0, log[k].id \in Registered,
                      log[k].at <= cursor'
               PROVE  Recorded(k)
    BY <1>3, <1>5 DEF CursorComplete
  <2>1. CASE cursor' = pass[n].end
    BY <1>1, <1>2, <2>1 DEF PassComplete
  <2>2. CASE cursor' = cursor
    BY <1>1, <2>2 DEF CursorComplete
  <2> QED BY <1>2, <2>1, <2>2
<1>7. cursor' \in Nat /\ (cursor' > 0 => cursor' < latest)
  BY <1>1, <1>2, <1>4 DEF BehindHead
<1> QED BY <1>2, <1>3, <1>6, <1>7, RestingKeeps

-----------------------------------------------------------------------------
(* The specification.                                                      *)

LEMMA IndexInitHolds ==
    ASSUME EscrowConstants, IndexInit PROVE IndexInv
<1>1. /\ ClaimInv /\ Len(log) = 0 /\ signed = {} /\ req = [r \in Requests |-> Idle]
      /\ cursor = 0 /\ pass = [n \in Passes |-> Resting]
  BY ClaimInitHolds DEF IndexInit, ClaimInit, Init
<1>2. \A n \in Passes : ~Reading(n)
  BY <1>1 DEF Reading, Resting
<1> QED BY <1>1, <1>2 DEF IndexInv, IndexTyped, BehindHead, AllocatedFirst, CursorComplete,
                          PassComplete

\* A pass does nothing to the chain, the records and the vouchers that the
\* requests of a browser could not do.
LEMMA IndexStep ==
    ASSUME EscrowConstants, ClaimConstants, IndexConstants, ClaimInv, IndexInv,
           [IndexNext]_indexVars
    PROVE  IndexInv' /\ [ClaimNext]_allVars
<1>1. IndexTyped
  BY DEF IndexInv
<1>2. CASE [ClaimNext]_allVars /\ UNCHANGED <<cursor, pass>>
  <2>1. IndexInv'
    BY <1>1, <1>2, RestKeeps DEF IndexTyped, Reading
  <2> QED BY <1>2, <2>1
<1>3. ASSUME NEW n \in Passes, ReadLogs(n) PROVE IndexInv' /\ [ClaimNext]_allVars
  BY <1>3, ReadKeeps DEF ReadLogs
<1>4. ASSUME NEW n \in Passes, NEW k \in 1..Len(log), RecordNext(n, k)
      PROVE  IndexInv' /\ [ClaimNext]_allVars
  BY <1>4, RecordKeeps
<1>5. ASSUME NEW n \in Passes, NEW k \in 1..Len(log), Refused(n, k)
      PROVE  IndexInv' /\ [ClaimNext]_allVars
  BY <1>5, StopKeeps DEF Refused, StopRefused
<1>6. ASSUME NEW n \in Passes, PassFails(n) PROVE IndexInv' /\ [ClaimNext]_allVars
  BY <1>6, StopKeeps DEF PassFails
<1>7. ASSUME NEW n \in Passes, Advance(n) PROVE IndexInv' /\ [ClaimNext]_allVars
  BY <1>7, AdvanceKeeps DEF Advance
<1>8. CASE UNCHANGED indexVars
  BY <1>2, <1>8 DEF indexVars
<1> QED BY <1>2, <1>3, <1>4, <1>5, <1>6, <1>7, <1>8 DEF IndexNext, reconcile

\* The inductive invariant: EscrowClaims' own, and the passes'.
THEOREM IndexInvariant == IndexSpec => [](ClaimInv /\ IndexInv)
<1>1. IndexInit => ClaimInv /\ IndexInv
  BY EscrowConstants, ClaimInitHolds, IndexInitHolds DEF IndexInit
<1>2. ClaimInv /\ IndexInv /\ [IndexNext]_indexVars => (ClaimInv /\ IndexInv)'
  BY EscrowConstants, ClaimConstants, IndexConstants, IndexStep, ClaimStep
<1> QED BY <1>1, <1>2, PTL DEF IndexSpec

\* Recovery implements EscrowClaims: whatever holds of records and vouchers
\* without it still holds with any number of passes.
THEOREM IndexImplementsClaims == IndexSpec => ClaimSpec
<1>1. IndexInit => ClaimInit
  BY DEF IndexInit
<1>2. ClaimInv /\ IndexInv /\ [IndexNext]_indexVars => [ClaimNext]_allVars
  BY EscrowConstants, ClaimConstants, IndexConstants, IndexStep
<1> QED BY <1>1, <1>2, IndexInvariant, PTL DEF IndexSpec, ClaimSpec

LEMMA InvIndexTyped == IndexInv => IndexTypeOK
BY DEF IndexInv, IndexTyped, BehindHead, Reading, IndexTypeOK

LEMMA InvComplete == IndexInv => CursorComplete
BY DEF IndexInv

\* Neither the cursor nor a pass is ever at a block without another on top.
THEOREM NeverAtHead == IndexSpec => []IndexTypeOK
BY IndexInvariant, InvIndexTyped, PTL

\* No event of a published bounty is left behind the cursor, for any number of
\* passes that overlap, fail or are refused anywhere, and any chunk and overlap.
THEOREM NothingLeftBehind == IndexSpec => []CursorComplete
BY IndexInvariant, InvComplete, PTL

\* With passes of recovery and browsers recording side by side, the escrow keeps
\* its promise to payers and contributors.
THEOREM RecoveryKeepsPromise == IndexSpec => KeepsPromise
BY IndexImplementsClaims, SystemKeepsPromise, PTL

\* A pass that reads the same blocks again, or one that a browser overtakes,
\* rewrites no record, and meets no settlement it does not recognise.
THEOREM RecoveryRewritesNothing == IndexSpec => RecordsFinal /\ []SettlementsRecognised
BY IndexImplementsClaims, SystemRecordsFinal, SystemRecognises, PTL
=============================================================================
