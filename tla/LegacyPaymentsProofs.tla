------------------------ MODULE LegacyPaymentsProofs ------------------------
(***************************************************************************)
(* What direct payments guarantee for any owners, contributors, rewards,   *)
(* nonces and operations, however tabs, retries and verifications overlap. *)
(***************************************************************************)
EXTENDS LegacyPayments, TLAPS

Row == [status : Unfinished \cup {"paid", "failed"}, nonce : Nat, userop : Ops \cup {NoOp}]

Receipts == [userop : Ops, status : {"paid", "failed"}]

Run1 == [op : Ops \cup {NoOp}, ok : BOOLEAN]

Preparing == {Idle, [pc |-> "read"]} \cup [pc : {"reserved"}, nonce : Nat]

Typed ==
    /\ claimed \subseteq Claims
    /\ pay \in [Claims -> {Unpaid} \cup Row]
    /\ receipts \subseteq Receipts
    /\ stored \subseteq Ops
    /\ pool \subseteq stored
    /\ done \in [People -> Seq(Run1)]
    /\ prep \in [Claims -> Preparing]

\* The nonce of the row is spent on something that transferred nothing.
Burnt(c) ==
    /\ pay[c].nonce < Len(done[Payer[c]])
    /\ done[Payer[c]][pay[c].nonce + 1].ok = FALSE

\* A row that is closed says what the chain did, and a failure has a receipt.
Ended ==
    \A c \in Claims : pay[c].status \in {"paid", "failed"} =>
        /\ pay[c].userop \in Ops
        /\ pay[c].userop.call = payment_calldata(c)
        /\ pay[c].userop.nonce = pay[c].nonce
        /\ pay[c].nonce < Len(done[Payer[c]])
        /\ done[Payer[c]][pay[c].nonce + 1].op = pay[c].userop
        /\ pay[c].status = "paid" => done[Payer[c]][pay[c].nonce + 1].ok = TRUE
        /\ pay[c].status = "failed" => /\ done[Payer[c]][pay[c].nonce + 1].ok = FALSE
                                       /\ [userop |-> pay[c].userop, status |-> "failed"] \in receipts

\* Only what failed, or was never tried, is being prepared.
PrepTrue ==
    \A c \in Claims : prep[c] # Idle => pay[c] = Unpaid \/ Burnt(c)

OneReserved ==
    \A c, d \in Claims :
        prep[c].pc = "reserved" /\ prep[d].pc = "reserved" /\ Payer[c] = Payer[d] => c = d

\* Beside a reserved nonce, an unfinished payment is a failed one reopened.
ReservedAlone ==
    \A c, d \in Claims :
        (prep[c].pc = "reserved" /\ Payer[c] = Payer[d] /\ pay[d].status \in Unfinished)
        => KnownFailed(d)

\* An operation that could still run is the present attempt of some claim on
\* its terms.
StoredFresh ==
    \A op \in stored : op.nonce >= Len(done[op.call.from]) =>
        \E c \in Claims : /\ pay[c] # Unpaid
                          /\ pay[c].nonce = op.nonce
                          /\ payment_calldata(c) = op.call

\* An account executes its own operations alone.
OwnHistory ==
    \A p \in People : \A n \in DOMAIN done[p] :
        done[p][n].op # NoOp => done[p][n].op.call.from = p

IInv == /\ Typed
        /\ OwnHistory
        /\ Ended
        /\ PrepTrue
        /\ OneReserved
        /\ ReservedAlone
        /\ StoredFresh
        /\ TransfersAccounted
        /\ OneUnfinished

-----------------------------------------------------------------------------
(* The operators.                                                          *)

LEMMA RowOf ==
    ASSUME Typed, NEW c \in Claims
    PROVE  /\ pay[c] \in {Unpaid} \cup Row
           /\ pay[c] # Unpaid <=> pay[c].status # "none"
           /\ pay[c] # Unpaid => pay[c] \in Row
           /\ pay[c].status \in Unfinished => pay[c] \in Row
           /\ pay[c].status \in {"paid", "failed"} => pay[c] \in Row
BY DEF Typed, Row, Unpaid, Unfinished

LEMMA PayersKnown ==
    ASSUME PaymentConstants, Typed, NEW c \in Claims
    PROVE  /\ Payer[c] \in People
           /\ payment_calldata(c).from = Payer[c]
           /\ done[Payer[c]] \in Seq(Run1)
           /\ Len(done[Payer[c]]) \in Nat
           /\ account_nonce(Payer[c]) = Len(done[Payer[c]])
BY DEF PaymentConstants, Typed, payment_calldata, account_nonce

LEMMA OpsKnown ==
    ASSUME PaymentConstants, Typed, NEW op \in Ops
    PROVE  /\ op.nonce \in Nat
           /\ op.call.from \in People
           /\ done[op.call.from] \in Seq(Run1)
           /\ Len(done[op.call.from]) \in Nat
<1>1. PICK c \in Claims : op.call = payment_calldata(c)
  BY DEF Ops
<1> QED BY <1>1, PayersKnown DEF Ops

\* A failed row's receipt is known, and its nonce is spent.
LEMMA FailedKnown ==
    ASSUME PaymentConstants, IInv, NEW c \in Claims, pay[c].status = "failed"
    PROVE  KnownFailed(c) /\ Burnt(c)
<1>1. [userop |-> pay[c].userop, status |-> "failed"] \in receipts
  BY DEF IInv, Ended
<1> QED BY <1>1 DEF IInv, Ended, KnownFailed, Burnt

-----------------------------------------------------------------------------
(* The steps that leave rows and chain alone.                              *)

LEMMA InitHolds ==
    ASSUME PaymentConstants, PayInit PROVE IInv
<1>1. Typed
  BY DEF PayInit, Typed, Preparing
<1>2. Ended /\ PrepTrue /\ OneReserved /\ ReservedAlone
  BY DEF PayInit, Unpaid, Idle, Ended, PrepTrue, OneReserved, ReservedAlone
<1>3. StoredFresh
  BY DEF PayInit, StoredFresh
<1>4. TransfersAccounted /\ OwnHistory
  <2>1. \A p \in People : DOMAIN done[p] = {}
    <3> TAKE p \in People
    <3>1. done[p] = <<>>
      BY DEF PayInit
    <3> QED BY <3>1
  <2> QED BY <2>1 DEF TransfersAccounted, OwnHistory
<1>5. OneUnfinished
  BY DEF PayInit, Unpaid, Unfinished, OneUnfinished
<1> QED BY <1>1, <1>2, <1>3, <1>4, <1>5 DEF IInv

\* Linking wallets, claiming, sending and forgetting disturb nothing.
LEMMA Aside ==
    ASSUME IInv, claimed' \subseteq Claims, pool' \subseteq stored,
           UNCHANGED <<pay, receipts, stored, done, prep>>
    PROVE  IInv'
<1>1. Typed'
  BY DEF IInv, Typed
<1>2. Ended' /\ PrepTrue' /\ OneReserved' /\ ReservedAlone'
  BY DEF IInv, Ended, PrepTrue, Burnt, OneReserved, ReservedAlone, KnownFailed
<1>3. StoredFresh' /\ TransfersAccounted' /\ OneUnfinished' /\ OwnHistory'
  BY DEF IInv, StoredFresh, TransfersAccounted, OneUnfinished, KnownFailed, OwnHistory
<1> QED BY <1>1, <1>2, <1>3 DEF IInv

-----------------------------------------------------------------------------
(* Preparing a payment.                                                    *)

\* Whatever moves prep alone: the rows' own parts of the invariant hold.
LEMMA PrepMoves ==
    ASSUME IInv, prep' \in [Claims -> Preparing],
           UNCHANGED <<claimed, pay, receipts, stored, pool, done>>,
           PrepTrue', OneReserved', ReservedAlone'
    PROVE  IInv'
<1>1. Typed'
  BY DEF IInv, Typed
<1>2. Ended'
  BY DEF IInv, Ended
<1>3. StoredFresh' /\ TransfersAccounted' /\ OneUnfinished' /\ OwnHistory'
  BY DEF IInv, StoredFresh, TransfersAccounted, OneUnfinished, KnownFailed, OwnHistory
<1> QED BY <1>1, <1>2, <1>3 DEF IInv

LEMMA Prepares ==
    ASSUME PaymentConstants, IInv, NEW c \in Claims, prepare_payment(c)
    PROVE  IInv'
<1>1. Typed /\ PrepTrue /\ OneReserved /\ ReservedAlone
  BY DEF IInv
<1>2. /\ prep \in [Claims -> Preparing]
      /\ prep' = [prep EXCEPT ![c] = [pc |-> "read"]]
      /\ UNCHANGED <<claimed, pay, receipts, stored, pool, done>>
  BY <1>1 DEF prepare_payment, Typed
<1>3. prep' \in [Claims -> Preparing]
  BY <1>2 DEF Preparing
<1>4. pay[c] = Unpaid \/ Burnt(c)
  BY FailedKnown DEF prepare_payment, Retriable
<1>5. PrepTrue'
  BY <1>1, <1>2, <1>4 DEF PrepTrue, Burnt
<1>6. \A d \in Claims : prep'[d].pc = "reserved" => prep[d].pc = "reserved"
  BY <1>2
<1>7. OneReserved'
  BY <1>1, <1>6 DEF OneReserved
<1>8. ReservedAlone'
  BY <1>1, <1>2, <1>6 DEF ReservedAlone, KnownFailed
<1> QED BY <1>2, <1>3, <1>5, <1>7, <1>8, PrepMoves

LEMMA Reserves ==
    ASSUME PaymentConstants, IInv, NEW c \in Claims, Reserve(c)
    PROVE  IInv'
<1> DEFINE slot == [pc |-> "reserved", nonce |-> account_nonce(Payer[c])]
<1>1. Typed /\ PrepTrue /\ OneReserved /\ ReservedAlone
  BY DEF IInv
<1>2. /\ prep \in [Claims -> Preparing]
      /\ prep' = [prep EXCEPT ![c] = slot]
      /\ UNCHANGED <<claimed, pay, receipts, stored, pool, done>>
  BY <1>1 DEF Reserve, Typed
<1>3. slot \in Preparing /\ slot.pc = "reserved"
  BY <1>1, PayersKnown DEF Preparing
<1>4. prep' \in [Claims -> Preparing]
  BY <1>2, <1>3
<1>5. prep[c] # Idle
  BY DEF Reserve, Idle
<1> HIDE DEF slot
<1>6. PrepTrue'
  BY <1>1, <1>2, <1>5 DEF PrepTrue, Burnt
<1>7. \A d \in Claims : Payer[d] = Payer[c] =>
          prep[d].pc # "reserved" /\ pay[d].status \notin Unfinished
  BY DEF Reserve, SenderFree, SamePayer
<1>8. OneReserved'
  BY <1>1, <1>2, <1>3, <1>7 DEF OneReserved
<1>9. ReservedAlone'
  BY <1>1, <1>2, <1>3, <1>7 DEF ReservedAlone, KnownFailed
<1> QED BY <1>2, <1>4, <1>6, <1>8, <1>9, PrepMoves

LEMMA GivesUp ==
    ASSUME IInv, NEW c \in Claims, GiveUp(c)
    PROVE  IInv'
<1>1. Typed /\ PrepTrue /\ OneReserved /\ ReservedAlone
  BY DEF IInv
<1>2. /\ prep \in [Claims -> Preparing]
      /\ prep' = [prep EXCEPT ![c] = Idle]
      /\ UNCHANGED <<claimed, pay, receipts, stored, pool, done>>
  BY <1>1 DEF GiveUp, Typed
<1>3. prep' \in [Claims -> Preparing]
  BY <1>2 DEF Preparing
<1>4. \A d \in Claims : /\ prep'[d].pc = "reserved" => prep[d].pc = "reserved"
                        /\ prep'[d] # Idle => prep[d] # Idle
  BY <1>2 DEF Idle
<1>5. PrepTrue'
  BY <1>1, <1>2, <1>4 DEF PrepTrue, Burnt
<1>6. OneReserved'
  BY <1>1, <1>4 DEF OneReserved
<1>7. ReservedAlone'
  BY <1>1, <1>2, <1>4 DEF ReservedAlone, KnownFailed
<1> QED BY <1>2, <1>3, <1>5, <1>6, <1>7, PrepMoves

-----------------------------------------------------------------------------
(* A new row.                                                              *)

LEMMA SavesRow ==
    ASSUME PaymentConstants, IInv, NEW c \in Claims, SaveRow(c)
    PROVE  IInv'
<1>1. Typed /\ Ended /\ PrepTrue /\ OneReserved /\ ReservedAlone /\ StoredFresh
      /\ TransfersAccounted /\ OneUnfinished /\ OwnHistory
  BY DEF IInv
<1>2. PICK n \in prep[c].nonce..account_nonce(Payer[c]) :
          pay' = [pay EXCEPT ![c] =
              [status |-> "awaiting_signature", nonce |-> n, userop |-> NoOp]]
  BY DEF SaveRow
<1> DEFINE row == [status |-> "awaiting_signature", nonce |-> n, userop |-> NoOp]
<1>3. /\ prep[c].pc = "reserved" /\ prep[c] # Idle
      /\ prep' = [prep EXCEPT ![c] = Idle]
      /\ UNCHANGED <<claimed, receipts, stored, pool, done>>
  BY DEF SaveRow, Idle
<1>4. prep[c].nonce \in Nat
  BY <1>1, <1>3 DEF Typed, Preparing, Idle
<1>5. row \in Row
  BY <1>1, <1>4, PayersKnown DEF Row, Unfinished
<1>6. /\ row # Unpaid /\ row.status \in Unfinished
      /\ row.status \notin {"paid", "failed"}
  BY DEF Unpaid, Unfinished
<1>7. pay' = [pay EXCEPT ![c] = row]
  BY <1>2
<1> HIDE DEF row
<1>8. \A d \in Claims : d # c => pay'[d] = pay[d]
  BY <1>1, <1>7 DEF Typed
<1>9. pay'[c] = row
  BY <1>1, <1>7 DEF Typed
<1>10. pay[c] = Unpaid \/ Burnt(c)
  BY <1>1, <1>3 DEF PrepTrue
<1>11. \A d \in Claims : /\ prep'[d].pc = "reserved" => prep[d].pc = "reserved" /\ d # c
                         /\ prep'[d] # Idle => prep[d] # Idle /\ d # c
  BY <1>1, <1>3 DEF Typed, Idle
<1>12. Typed'
  <2>1. pay' \in [Claims -> {Unpaid} \cup Row]
    BY <1>1, <1>5, <1>7 DEF Typed
  <2>2. prep' \in [Claims -> Preparing]
    BY <1>1, <1>3 DEF Typed, Preparing
  <2> QED BY <1>1, <1>3, <2>1, <2>2 DEF Typed
<1>13. Ended'
  <2>1. \A d \in Claims : pay'[d].status \in {"paid", "failed"} => pay'[d] = pay[d]
    BY <1>6, <1>8, <1>9
  <2>2. Ended /\ done' = done /\ receipts' = receipts
    BY <1>1, <1>3
  <2> QED BY ONLY <2>1, <2>2 DEF Ended
<1>14. PrepTrue'
  BY <1>1, <1>3, <1>8, <1>11 DEF PrepTrue, Burnt
<1>15. OneReserved'
  BY <1>1, <1>11 DEF OneReserved
<1>16. \A d \in Claims : d # c /\ KnownFailed(d) => KnownFailed(d)'
  BY <1>3, <1>8 DEF KnownFailed
<1>17. ReservedAlone'
  <2> SUFFICES ASSUME NEW e \in Claims, NEW d \in Claims,
                      prep'[e].pc = "reserved", Payer[e] = Payer[d],
                      pay'[d].status \in Unfinished
               PROVE  KnownFailed(d)'
    BY DEF ReservedAlone
  <2>1. d # c
    BY <1>1, <1>3, <1>11 DEF OneReserved
  <2>2. KnownFailed(d)
    BY <1>1, <1>8, <1>11, <2>1 DEF ReservedAlone
  <2> QED BY <1>16, <2>1, <2>2
<1>18. StoredFresh'
  <2> SUFFICES ASSUME NEW op \in stored, op.nonce >= Len(done[op.call.from])
               PROVE  \E d \in Claims : /\ pay'[d] # Unpaid
                                        /\ pay'[d].nonce = op.nonce
                                        /\ payment_calldata(d) = op.call
    BY <1>3 DEF StoredFresh
  <2>1. PICK d \in Claims : /\ pay[d] # Unpaid
                            /\ pay[d].nonce = op.nonce
                            /\ payment_calldata(d) = op.call
    BY <1>1 DEF StoredFresh
  <2>2. op.nonce \in Nat /\ Len(done[op.call.from]) \in Nat
    BY <1>1, OpsKnown DEF Typed
  <2>3. d # c
    BY <1>1, <1>10, <2>1, <2>2, PayersKnown DEF Burnt
  <2> QED BY <1>8, <2>1, <2>3
<1>19. TransfersAccounted'
  <2> SUFFICES ASSUME NEW p \in People, NEW k \in DOMAIN done[p],
                      done[p][k].ok, done[p][k].op # NoOp
               PROVE  \E d \in Claims : /\ pay'[d] # Unpaid
                                        /\ pay'[d].nonce = k - 1
                                        /\ payment_calldata(d) = done[p][k].op.call
    BY <1>3 DEF TransfersAccounted
  <2>1. PICK d \in Claims : /\ pay[d] # Unpaid
                            /\ pay[d].nonce = k - 1
                            /\ payment_calldata(d) = done[p][k].op.call
    BY <1>1 DEF TransfersAccounted
  <2>2. done[p][k].op.call.from = p
    BY <1>1 DEF OwnHistory
  <2>3. d # c
    <3> SUFFICES ASSUME d = c PROVE FALSE
      OBVIOUS
    <3>1. Payer[c] = p
      BY <1>1, <2>1, <2>2, PayersKnown
    <3>2. done[p][pay[c].nonce + 1].ok = FALSE
      BY <1>10, <2>1, <3>1 DEF Burnt
    <3>3. pay[c].nonce + 1 = k
      <4>1. k \in Nat
        BY <1>1 DEF Typed
      <4> QED BY <2>1, <4>1
    <3> QED BY <3>2, <3>3
  <2> QED BY <1>8, <2>1, <2>3
<1>20. OneUnfinished'
  <2> SUFFICES ASSUME NEW d \in Claims, NEW e \in Claims, d # e, Payer[d] = Payer[e],
                      pay'[d].status \in Unfinished, pay'[e].status \in Unfinished
               PROVE  KnownFailed(d)' \/ KnownFailed(e)'
    BY DEF OneUnfinished
  <2>1. CASE d = c
    BY <1>1, <1>3, <1>8, <1>16, <2>1 DEF ReservedAlone
  <2>2. CASE e = c
    BY <1>1, <1>3, <1>8, <1>16, <2>2 DEF ReservedAlone
  <2>3. CASE d # c /\ e # c
    BY <1>1, <1>8, <1>16, <2>3 DEF OneUnfinished
  <2> QED BY <2>1, <2>2, <2>3
<1>21. OwnHistory'
  BY <1>1, <1>3 DEF OwnHistory
<1> QED BY <1>21, <1>12, <1>13, <1>14, <1>15, <1>17, <1>18, <1>19, <1>20 DEF IInv

-----------------------------------------------------------------------------
(* Rows that keep their nonce.                                             *)

\* Whatever a handler writes into a row, if it keeps the nonce and reopens
\* nothing but what is known to have failed, the claims stay accounted for.
LEMMA RowKept ==
    ASSUME IInv, NEW c \in Claims, NEW row \in Row,
           pay' = [pay EXCEPT ![c] = row],
           pay[c] # Unpaid, row.nonce = pay[c].nonce,
           row.status \in Unfinished => pay[c].status \in Unfinished \/ KnownFailed(c),
           receipts \subseteq receipts', UNCHANGED <<done, prep>>
    PROVE  /\ PrepTrue' /\ OneReserved' /\ ReservedAlone'
           /\ TransfersAccounted' /\ OneUnfinished' /\ OwnHistory'
<1>1. Typed /\ PrepTrue /\ OneReserved /\ ReservedAlone
      /\ TransfersAccounted /\ OneUnfinished /\ OwnHistory
  BY DEF IInv
<1>2. /\ \A d \in Claims : d # c => pay'[d] = pay[d]
      /\ pay'[c] = row
      /\ row # Unpaid
  BY <1>1 DEF Typed, Row, Unpaid, Unfinished
<1>3. \A d \in Claims : /\ pay[d] # Unpaid => pay'[d] # Unpaid
                        /\ pay'[d] # Unpaid => pay[d] # Unpaid
                        /\ pay'[d].nonce = pay[d].nonce
                        /\ pay'[d].status \in Unfinished =>
                               pay[d].status \in Unfinished \/ KnownFailed(d)
  BY <1>2
<1>4. \A d \in Claims : KnownFailed(d) => KnownFailed(d)'
  BY <1>3 DEF KnownFailed
<1>5. PrepTrue'
  BY <1>1, <1>3 DEF PrepTrue, Burnt
<1>6. OneReserved'
  BY <1>1 DEF OneReserved
<1>7. ReservedAlone'
  BY <1>1, <1>3, <1>4 DEF ReservedAlone
<1>8. TransfersAccounted'
  <2> SUFFICES ASSUME NEW p \in People, NEW k \in DOMAIN done[p],
                      done[p][k].ok, done[p][k].op # NoOp
               PROVE  \E d \in Claims : /\ pay'[d] # Unpaid
                                        /\ pay'[d].nonce = k - 1
                                        /\ payment_calldata(d) = done[p][k].op.call
    BY DEF TransfersAccounted
  <2>1. PICK d \in Claims : /\ pay[d] # Unpaid
                            /\ pay[d].nonce = k - 1
                            /\ payment_calldata(d) = done[p][k].op.call
    BY <1>1 DEF TransfersAccounted
  <2> QED BY <1>3, <2>1
<1>9. OneUnfinished'
  BY <1>1, <1>3, <1>4 DEF OneUnfinished
<1>10. OwnHistory'
  BY <1>1 DEF OwnHistory
<1> QED BY <1>5, <1>6, <1>7, <1>8, <1>9, <1>10

LEMMA SavesOperation ==
    ASSUME PaymentConstants, IInv, NEW c \in Claims, NEW s \in Signings, save_operation(c, s)
    PROVE  IInv'
<1> DEFINE op == Operation(c, pay[c].nonce, s)
           row == [status |-> "submitted", nonce |-> pay[c].nonce, userop |-> op]
<1>1. Typed /\ Ended /\ StoredFresh
  BY DEF IInv
<1>2. /\ pay[c].status \in Unfinished
      /\ pay' = [pay EXCEPT ![c] = row]
      /\ stored' = stored \cup {op}
      /\ UNCHANGED <<claimed, receipts, pool, done, prep>>
  BY DEF save_operation
<1>3. pay[c] \in Row /\ pay[c] # Unpaid
  BY <1>1, <1>2, RowOf DEF Unfinished, Unpaid
<1>4. /\ op \in Ops
      /\ op.nonce = pay[c].nonce
      /\ op.call = payment_calldata(c)
  BY <1>3 DEF Operation, Ops, Row
<1> HIDE DEF op
<1>5. /\ row \in Row /\ row.nonce = pay[c].nonce
      /\ row.status \in Unfinished /\ row.status \notin {"paid", "failed"}
  BY <1>3, <1>4 DEF Row, Unfinished
<1> HIDE DEF row
<1>6. /\ PrepTrue' /\ OneReserved' /\ ReservedAlone'
      /\ TransfersAccounted' /\ OneUnfinished' /\ OwnHistory'
  BY <1>2, <1>3, <1>5, RowKept
<1>7. /\ \A d \in Claims : d # c => pay'[d] = pay[d]
      /\ pay'[c] = row
      /\ row # Unpaid
  BY <1>1, <1>2, <1>5 DEF Typed, Unpaid, Unfinished
<1>8. Typed'
  <2>1. pay' \in [Claims -> {Unpaid} \cup Row]
    BY <1>1, <1>2, <1>5 DEF Typed
  <2> QED BY <1>1, <1>2, <1>4, <2>1 DEF Typed
<1>9. Ended'
  BY <1>1, <1>2, <1>5, <1>7 DEF Ended
<1>10. StoredFresh'
  <2> SUFFICES ASSUME NEW o \in stored', o.nonce >= Len(done[o.call.from])
               PROVE  \E d \in Claims : /\ pay'[d] # Unpaid
                                        /\ pay'[d].nonce = o.nonce
                                        /\ payment_calldata(d) = o.call
    BY <1>2 DEF StoredFresh
  <2>1. CASE o = op
    BY <1>4, <1>5, <1>7, <2>1
  <2>2. CASE o \in stored
    <3>1. PICK d \in Claims : /\ pay[d] # Unpaid
                              /\ pay[d].nonce = o.nonce
                              /\ payment_calldata(d) = o.call
      BY <1>1, <2>2 DEF StoredFresh
    <3> QED BY <1>5, <1>7, <3>1
  <2> QED BY <1>2, <2>1, <2>2
<1> QED BY <1>6, <1>8, <1>9, <1>10 DEF IInv

\* A verification only writes what the chain did, and only into a row that
\* is not paid yet.
LEMMA Confirms ==
    ASSUME PaymentConstants, IInv, NEW c \in Claims, NEW op \in stored, confirm_payment(c, op)
    PROVE  IInv'
<1>1. Typed /\ Ended /\ StoredFresh
  BY DEF IInv
<1>2. PICK st \in {"submitted", "paid", "failed"} :
          /\ pay' = [pay EXCEPT ![c] = [status |-> st, nonce |-> pay[c].nonce, userop |-> op]]
          /\ \/ st = "submitted" /\ UNCHANGED receipts
             \/ /\ st = verify_receipt(op) /\ st # "submitted"
                /\ Executed(op)
                /\ receipts' = receipts \cup {[userop |-> op, status |-> st]}
  BY DEF confirm_payment, verify_receipt
<1> DEFINE row == [status |-> st, nonce |-> pay[c].nonce, userop |-> op]
<1>3. /\ pay[c] # Unpaid /\ pay[c].status # "paid"
      /\ op.call = payment_calldata(c) /\ op.nonce = pay[c].nonce
      /\ UNCHANGED <<claimed, stored, pool, done, prep>>
  BY DEF confirm_payment, Confirmable, verify_operation
<1>4. pay[c] \in Row /\ op \in Ops
  BY <1>1, <1>3, RowOf DEF Typed
<1>5. /\ row \in Row /\ row.nonce = pay[c].nonce /\ row.userop = op
      /\ row.status = st /\ row # Unpaid
  BY <1>4 DEF Row, Unfinished, Unpaid
<1>6. pay' = [pay EXCEPT ![c] = row]
  BY <1>2
<1> HIDE DEF row
<1>7. pay[c].status \in Unfinished \/ KnownFailed(c)
  BY <1>3, <1>4, FailedKnown DEF Row
<1>8. /\ PrepTrue' /\ OneReserved' /\ ReservedAlone'
      /\ TransfersAccounted' /\ OneUnfinished' /\ OwnHistory'
  BY <1>2, <1>3, <1>5, <1>6, <1>7, RowKept
<1>9. /\ \A d \in Claims : d # c => pay'[d] = pay[d]
      /\ pay'[c] = row
  BY <1>1, <1>6 DEF Typed
<1>10. Typed'
  <2>1. pay' \in [Claims -> {Unpaid} \cup Row]
    BY <1>1, <1>5, <1>6 DEF Typed
  <2>2. receipts' \subseteq Receipts
    BY <1>1, <1>2, <1>4 DEF Typed, Receipts
  <2> QED BY <1>1, <1>3, <2>1, <2>2 DEF Typed
<1>11. Ended'
  <2> SUFFICES ASSUME NEW d \in Claims, pay'[d].status \in {"paid", "failed"}
               PROVE
        /\ pay'[d].userop \in Ops
        /\ pay'[d].userop.call = payment_calldata(d)
        /\ pay'[d].userop.nonce = pay'[d].nonce
        /\ pay'[d].nonce < Len(done[Payer[d]])
        /\ done[Payer[d]][pay'[d].nonce + 1].op = pay'[d].userop
        /\ pay'[d].status = "paid" => done[Payer[d]][pay'[d].nonce + 1].ok = TRUE
        /\ pay'[d].status = "failed" =>
               /\ done[Payer[d]][pay'[d].nonce + 1].ok = FALSE
               /\ [userop |-> pay'[d].userop, status |-> "failed"] \in receipts'
    BY <1>3 DEF Ended
  <2>1. CASE d # c
    <3>1. pay'[d] = pay[d]
      BY <1>9, <2>1
    <3>2. Ended /\ receipts \subseteq receipts'
      BY <1>1, <1>2
    <3> QED BY <3>1, <3>2 DEF Ended
  <2>2. CASE d = c
    <3>1. /\ st \in {"paid", "failed"} /\ st = verify_receipt(op) /\ Executed(op)
          /\ receipts' = receipts \cup {[userop |-> op, status |-> st]}
      BY <1>2, <1>5, <1>9, <2>2
    <3>2. op.call.from = Payer[c]
      BY <1>1, <1>3, PayersKnown
    <3>3. /\ op.nonce < Len(done[Payer[c]])
          /\ done[Payer[c]][op.nonce + 1].op = op
      BY <3>1, <3>2 DEF Executed
    <3>4. done[Payer[c]][op.nonce + 1].ok \in BOOLEAN
      <4>1. op.nonce + 1 \in 1..Len(done[Payer[c]])
        BY <1>1, <1>4, <3>3, OpsKnown, PayersKnown
      <4>2. done[Payer[c]] \in [1..Len(done[Payer[c]]) -> Run1]
        BY <1>1, PayersKnown
      <4>3. done[Payer[c]][op.nonce + 1] \in Run1
        BY <4>1, <4>2
      <4> QED BY <4>3 DEF Run1
    <3>5. /\ st = "paid" => done[Payer[c]][op.nonce + 1].ok = TRUE
          /\ st = "failed" => done[Payer[c]][op.nonce + 1].ok = FALSE
      BY <3>1, <3>2, <3>4 DEF verify_receipt
    <3> QED BY <1>3, <1>4, <1>5, <1>9, <2>2, <3>1, <3>3, <3>5
  <2> QED BY <2>1, <2>2
<1>12. StoredFresh'
  <2> SUFFICES ASSUME NEW o \in stored, o.nonce >= Len(done[o.call.from])
               PROVE  \E d \in Claims : /\ pay'[d] # Unpaid
                                        /\ pay'[d].nonce = o.nonce
                                        /\ payment_calldata(d) = o.call
    BY <1>3 DEF StoredFresh
  <2>1. PICK d \in Claims : /\ pay[d] # Unpaid
                            /\ pay[d].nonce = o.nonce
                            /\ payment_calldata(d) = o.call
    BY <1>1 DEF StoredFresh
  <2> QED BY <1>5, <1>9, <2>1
<1> QED BY <1>8, <1>10, <1>11, <1>12 DEF IInv

-----------------------------------------------------------------------------
(* The chain.                                                              *)

\* What an account executed stays, and one entry is added.
LEMMA HistoryGrows ==
    ASSUME Typed, NEW p \in People, NEW entry \in Run1,
           done' = [done EXCEPT ![p] = Append(@, entry)]
    PROVE  /\ done' \in [People -> Seq(Run1)]
           /\ \A q \in People : q # p => done'[q] = done[q]
           /\ Len(done'[p]) = Len(done[p]) + 1
           /\ done'[p][Len(done[p]) + 1] = entry
           /\ \A q \in People : /\ Len(done[q]) \in Nat /\ Len(done[q]) <= Len(done'[q])
                                /\ DOMAIN done[q] = 1..Len(done[q])
                                /\ DOMAIN done'[q] = 1..Len(done'[q])
                                /\ \A k \in 1..Len(done[q]) : done'[q][k] = done[q][k]
<1>1. done \in [People -> Seq(Run1)]
  BY DEF Typed
<1>2. /\ Append(done[p], entry) \in Seq(Run1)
      /\ Len(Append(done[p], entry)) = Len(done[p]) + 1
      /\ Append(done[p], entry)[Len(done[p]) + 1] = entry
      /\ \A k \in 1..Len(done[p]) : Append(done[p], entry)[k] = done[p][k]
  BY <1>1
<1>3. done'[p] = Append(done[p], entry)
  BY <1>1
<1>4. \A q \in People : q # p => done'[q] = done[q]
  BY <1>1
<1>5. done' \in [People -> Seq(Run1)]
  BY <1>1, <1>2
<1>6. \A q \in People : /\ Len(done[q]) \in Nat
                        /\ DOMAIN done[q] = 1..Len(done[q])
                        /\ DOMAIN done'[q] = 1..Len(done'[q])
  BY <1>1, <1>5
<1> QED BY <1>2, <1>3, <1>4, <1>5, <1>6

LEMMA Runs ==
    ASSUME PaymentConstants, IInv, NEW p \in People, NEW op, NEW ok \in BOOLEAN,
           Run(p, op, ok),
           \/ op = NoOp
           \/ op \in stored /\ op.call.from = p /\ op.nonce = Len(done[p])
    PROVE  IInv'
<1> DEFINE entry == [op |-> op, ok |-> ok]
<1>1. /\ Typed /\ OwnHistory /\ Ended /\ PrepTrue /\ OneReserved /\ ReservedAlone
      /\ StoredFresh /\ TransfersAccounted /\ OneUnfinished
  BY DEF IInv
<1>2. /\ done' = [done EXCEPT ![p] = Append(@, entry)]
      /\ UNCHANGED <<claimed, pay, receipts, stored, pool, prep>>
  BY DEF Run
<1>3. entry \in Run1 /\ entry.op = op
  BY <1>1 DEF Typed, Run1
<1> HIDE DEF entry
<1>4. /\ done' \in [People -> Seq(Run1)]
      /\ \A q \in People : q # p => done'[q] = done[q]
      /\ Len(done'[p]) = Len(done[p]) + 1
      /\ done'[p][Len(done[p]) + 1] = entry
      /\ \A q \in People : /\ Len(done[q]) \in Nat /\ Len(done[q]) <= Len(done'[q])
                           /\ DOMAIN done[q] = 1..Len(done[q])
                           /\ DOMAIN done'[q] = 1..Len(done'[q])
                           /\ \A k \in 1..Len(done[q]) : done'[q][k] = done[q][k]
  BY <1>1, <1>2, <1>3, HistoryGrows
<1>5. Typed'
  BY <1>1, <1>2, <1>4 DEF Typed
<1>6. ASSUME NEW q \in People, NEW k \in DOMAIN done'[q]
      PROVE  \/ k \in DOMAIN done[q] /\ done'[q][k] = done[q][k]
             \/ q = p /\ k = Len(done[p]) + 1 /\ done'[q][k] = entry
  <2>1. CASE q # p
    BY <1>4, <2>1
  <2>2. CASE q = p
    <3>1. k \in 1..Len(done[p]) \/ k = Len(done[p]) + 1
      BY <1>4, <1>6, <2>2
    <3> QED BY <1>4, <2>2, <3>1
  <2> QED BY <2>1, <2>2
<1>7. \A c \in Claims : /\ Payer[c] \in People
                        /\ pay[c] # Unpaid => pay[c].nonce \in Nat
                        /\ pay[c].status \in {"paid", "failed"} => pay[c].nonce \in Nat
  BY <1>1, RowOf, PayersKnown DEF Row
<1>14. ASSUME NEW q \in People, NEW n \in Nat, n < Len(done[q])
       PROVE  n < Len(done'[q]) /\ done'[q][n + 1] = done[q][n + 1]
  <2>1. Len(done[q]) \in Nat /\ Len(done[q]) <= Len(done'[q])
    BY <1>4
  <2>2. Len(done'[q]) \in Nat
    <3>1. done'[q] \in Seq(Run1)
      BY <1>4
    <3> QED BY <3>1
  <2>3. n + 1 \in 1..Len(done[q])
    BY <1>14, <2>1
  <2>4. done'[q][n + 1] = done[q][n + 1]
    BY <1>4, <2>3
  <2> QED BY <1>14, <2>1, <2>2, <2>4
<1>8. Ended'
  <2> SUFFICES ASSUME NEW c \in Claims, pay[c].status \in {"paid", "failed"}
               PROVE
        /\ pay[c].userop \in Ops
        /\ pay[c].userop.call = payment_calldata(c)
        /\ pay[c].userop.nonce = pay[c].nonce
        /\ pay[c].nonce < Len(done'[Payer[c]])
        /\ done'[Payer[c]][pay[c].nonce + 1].op = pay[c].userop
        /\ pay[c].status = "paid" => done'[Payer[c]][pay[c].nonce + 1].ok = TRUE
        /\ pay[c].status = "failed" =>
               /\ done'[Payer[c]][pay[c].nonce + 1].ok = FALSE
               /\ [userop |-> pay[c].userop, status |-> "failed"] \in receipts
    BY <1>2 DEF Ended
  <2>1. /\ pay[c].nonce \in Nat
        /\ pay[c].nonce < Len(done[Payer[c]])
    BY <1>1, <1>7 DEF Ended
  <2>2. /\ pay[c].nonce < Len(done'[Payer[c]])
        /\ done'[Payer[c]][pay[c].nonce + 1] = done[Payer[c]][pay[c].nonce + 1]
    BY <1>7, <1>14, <2>1
  <2> QED BY <1>1, <2>2 DEF Ended
<1>9. PrepTrue'
  <2> SUFFICES ASSUME NEW c \in Claims, prep[c] # Idle, pay[c] # Unpaid
               PROVE  /\ pay[c].nonce < Len(done'[Payer[c]])
                      /\ done'[Payer[c]][pay[c].nonce + 1].ok = FALSE
    BY <1>2 DEF PrepTrue, Burnt
  <2>1. /\ pay[c].nonce \in Nat
        /\ pay[c].nonce < Len(done[Payer[c]])
        /\ done[Payer[c]][pay[c].nonce + 1].ok = FALSE
    BY <1>1, <1>7 DEF PrepTrue, Burnt
  <2>2. done'[Payer[c]][pay[c].nonce + 1] = done[Payer[c]][pay[c].nonce + 1]
    BY <1>7, <1>14, <2>1
  <2> QED BY <1>7, <1>14, <2>1, <2>2
<1>10. OneReserved' /\ ReservedAlone' /\ OneUnfinished'
  BY <1>1, <1>2 DEF OneReserved, ReservedAlone, OneUnfinished, KnownFailed
<1>11. StoredFresh'
  <2> SUFFICES ASSUME NEW o \in stored, o.nonce >= Len(done'[o.call.from])
               PROVE  \E c \in Claims : /\ pay[c] # Unpaid
                                        /\ pay[c].nonce = o.nonce
                                        /\ payment_calldata(c) = o.call
    BY <1>2 DEF StoredFresh
  <2>1. o \in Ops
    BY <1>1 DEF Typed
  <2>2. o.nonce >= Len(done[o.call.from])
    <3>1. o.nonce \in Nat /\ o.call.from \in People
      BY <1>1, <2>1, OpsKnown
    <3>2. /\ Len(done[o.call.from]) \in Nat
          /\ Len(done[o.call.from]) <= Len(done'[o.call.from])
          /\ Len(done'[o.call.from]) \in Nat
      BY <1>4, <3>1
    <3> QED BY <3>1, <3>2
  <2> QED BY <1>1, <2>2 DEF StoredFresh
<1>12. OwnHistory'
  <2> SUFFICES ASSUME NEW q \in People, NEW k \in DOMAIN done'[q], done'[q][k].op # NoOp
               PROVE  done'[q][k].op.call.from = q
    BY DEF OwnHistory
  <2>1. CASE k \in DOMAIN done[q] /\ done'[q][k] = done[q][k]
    BY <1>1, <2>1 DEF OwnHistory
  <2>2. CASE q = p /\ k = Len(done[p]) + 1 /\ done'[q][k] = entry
    BY <1>3, <2>2
  <2> QED BY <1>6, <2>1, <2>2
<1>13. TransfersAccounted'
  <2> SUFFICES ASSUME NEW q \in People, NEW k \in DOMAIN done'[q],
                      done'[q][k].ok, done'[q][k].op # NoOp
               PROVE  \E c \in Claims : /\ pay[c] # Unpaid
                                        /\ pay[c].nonce = k - 1
                                        /\ payment_calldata(c) = done'[q][k].op.call
    BY <1>2 DEF TransfersAccounted
  <2>1. CASE k \in DOMAIN done[q] /\ done'[q][k] = done[q][k]
    BY <1>1, <2>1 DEF TransfersAccounted
  <2>2. CASE q = p /\ k = Len(done[p]) + 1 /\ done'[q][k] = entry
    <3>1. op \in stored /\ op.call.from = p /\ op.nonce = Len(done[p])
      BY <1>3, <2>2
    <3>2. Len(done[p]) \in Nat /\ op.nonce = k - 1
      BY <1>4, <2>2, <3>1
    <3>3. op.nonce >= Len(done[op.call.from])
      BY <3>1, <3>2
    <3> QED BY <1>1, <1>3, <2>2, <3>1, <3>2, <3>3 DEF StoredFresh
  <2> QED BY <1>6, <2>1, <2>2
<1> QED BY <1>5, <1>8, <1>9, <1>10, <1>11, <1>12, <1>13 DEF IInv

-----------------------------------------------------------------------------
(* The specification.                                                      *)

\* Every step of any person, tab, gateway or account keeps the invariant.
LEMMA StepsHold ==
    ASSUME PaymentConstants, IInv, [PayNext]_legacyVars
    PROVE  IInv'
<1>1. Typed
  BY DEF IInv
<1>2. CASE WalletNext /\ UNCHANGED payVars
  BY <1>1, <1>2, Aside DEF payVars, Typed
<1>3. ASSUME NEW c \in Claims, claim_reward(c) PROVE IInv'
  BY <1>1, <1>3, Aside DEF claim_reward, Typed
<1>4. ASSUME NEW c \in Claims, prepare_payment(c) PROVE IInv'
  BY <1>4, Prepares
<1>5. ASSUME NEW c \in Claims, Reserve(c) PROVE IInv'
  BY <1>5, Reserves
<1>6. ASSUME NEW c \in Claims, SaveRow(c) PROVE IInv'
  BY <1>6, SavesRow
<1>7. ASSUME NEW c \in Claims, GiveUp(c) PROVE IInv'
  BY <1>7, GivesUp
<1>8. ASSUME NEW c \in Claims, NEW s \in Signings, save_operation(c, s) PROVE IInv'
  BY <1>8, SavesOperation
<1>9. ASSUME NEW c \in Claims, NEW op \in stored, confirm_payment(c, op) PROVE IInv'
  BY <1>9, Confirms
<1>10. ASSUME NEW op \in stored, Send(op) PROVE IInv'
  BY <1>1, <1>10, Aside DEF Send, Typed
<1>11. ASSUME NEW op \in stored, Forget(op) PROVE IInv'
  BY <1>1, <1>11, Aside DEF Forget, Typed
<1>12. ASSUME NEW op \in stored, Execute(op) PROVE IInv'
  <2>1. PICK ok \in BOOLEAN : Run(op.call.from, op, ok)
    BY <1>12 DEF Execute
  <2>2. op.call.from \in People
    BY <1>1, OpsKnown DEF Typed
  <2>3. op.nonce = Len(done[op.call.from])
    BY <1>12 DEF Execute, account_nonce
  <2> QED BY <2>1, <2>2, <2>3, Runs
<1>13. ASSUME NEW p \in People, Elsewhere(p) PROVE IInv'
  <2>1. Run(p, NoOp, TRUE)
    BY <1>13 DEF Elsewhere
  <2> QED BY <2>1, Runs
<1>14. CASE UNCHANGED legacyVars
  BY <1>1, <1>14, Aside DEF legacyVars, payVars, Typed
<1> QED BY <1>2, <1>3, <1>4, <1>5, <1>6, <1>7, <1>8, <1>9, <1>10, <1>11, <1>12,
           <1>13, <1>14 DEF PayNext

\* The inductive invariant holds of every reachable state.
THEOREM Inductive == PaySpec => []IInv
<1>1. PayInit => IInv
  BY PaymentConstants, InitHolds
<1>2. IInv /\ [PayNext]_legacyVars => IInv'
  BY PaymentConstants, StepsHold
<1> QED BY <1>1, <1>2, PTL DEF PaySpec

\* The payment tables and the operations keep their shape.
THEOREM PaymentsTyped == PaySpec => []PayTypeOK
<1>1. IInv => PayTypeOK
  BY DEF IInv, Typed, PayTypeOK, Row, Receipts, Preparing
<1> QED BY <1>1, Inductive, PTL

\* Every transfer a smart account made is the present attempt of a claim on
\* its terms: retries, several tabs and other use of the account included.
THEOREM Accounted == PaySpec => []TransfersAccounted
<1>1. IInv => TransfersAccounted
  BY DEF IInv
<1> QED BY <1>1, Inductive, PTL

\* A row that is paid or failed says what the chain did with its operation.
THEOREM ClosedRowsTrue == PaySpec => []PaidTrue
<1>1. ASSUME IInv PROVE PaidTrue
  <2> SUFFICES ASSUME NEW c \in Claims, pay[c].status \in {"paid", "failed"}
               PROVE  /\ Executed(pay[c].userop)
                      /\ payment_calldata(c) = pay[c].userop.call
                      /\ done[Payer[c]][pay[c].nonce + 1].ok = (pay[c].status = "paid")
    BY DEF PaidTrue
  <2>1. Typed /\ Ended
    BY <1>1 DEF IInv
  <2>2. pay[c].userop.call.from = Payer[c]
    BY <2>1, PaymentConstants, PayersKnown DEF Ended
  <2>3. Executed(pay[c].userop)
    BY <2>1, <2>2 DEF Ended, Executed
  <2>4. payment_calldata(c) = pay[c].userop.call
    BY <2>1 DEF Ended
  <2>5. CASE pay[c].status = "paid"
    BY <2>1, <2>3, <2>4, <2>5 DEF Ended
  <2>6. CASE pay[c].status = "failed"
    BY <2>1, <2>3, <2>4, <2>6 DEF Ended
  <2> QED BY <2>5, <2>6
<1> QED BY <1>1, Inductive, PTL

\* Of two unfinished payments of an owner, one is known to have failed.
THEOREM OneAtATime == PaySpec => []OneUnfinished
<1>1. IInv => OneUnfinished
  BY DEF IInv
<1> QED BY <1>1, Inductive, PTL

\* A row being prepared is never a paid one, and no other handler touches one.
LEMMA PaidStays ==
    ASSUME PaymentConstants, IInv, [PayNext]_legacyVars,
           NEW c \in Claims, pay[c].status = "paid"
    PROVE  pay'[c] = pay[c]
<1>1. Typed /\ Ended /\ PrepTrue
  BY DEF IInv
<1>2. pay[c] # Unpaid /\ ~Burnt(c) /\ pay[c].status \notin Unfinished
  <2>1. pay[c] # Unpaid /\ pay[c].status \notin Unfinished
    BY DEF Unpaid, Unfinished
  <2>2. done[Payer[c]][pay[c].nonce + 1].ok = TRUE
    BY <1>1 DEF Ended
  <2>3. ~Burnt(c)
    <3> DEFINE ok == done[Payer[c]][pay[c].nonce + 1].ok
    <3>1. ok = TRUE
      BY <2>2
    <3>2. Burnt(c) => ok = FALSE
      BY DEF Burnt
    <3> HIDE DEF ok
    <3> QED BY <3>1, <3>2
  <2> QED BY <2>1, <2>3
<1>3. ASSUME NEW d \in Claims, SaveRow(d) PROVE pay'[c] = pay[c]
  <2>1. d # c
    BY <1>1, <1>2, <1>3 DEF SaveRow, PrepTrue, Idle
  <2> QED BY <1>1, <1>3, <2>1 DEF SaveRow, Typed
<1>4. ASSUME NEW d \in Claims, NEW s \in Signings, save_operation(d, s)
      PROVE  pay'[c] = pay[c]
  <2>1. d # c
    BY <1>2, <1>4 DEF save_operation
  <2> QED BY <1>1, <1>4, <2>1 DEF save_operation, Typed
<1>5. ASSUME NEW d \in Claims, NEW op \in stored, confirm_payment(d, op)
      PROVE  pay'[c] = pay[c]
  <2>1. d # c
    BY <1>5 DEF confirm_payment, Confirmable
  <2> QED BY <1>1, <1>5, <2>1 DEF confirm_payment, Typed
<1>6. \/ UNCHANGED pay
      \/ \E d \in Claims : \/ SaveRow(d)
                           \/ \E s \in Signings : save_operation(d, s)
                           \/ \E op \in stored : confirm_payment(d, op)
  BY DEF PayNext, payVars, legacyVars, claim_reward, prepare_payment, Reserve, GiveUp,
         Send, Forget, Execute, Elsewhere, Run
<1> QED BY <1>3, <1>4, <1>5, <1>6

\* No retry, late verification or lagging gateway reopens a paid row.
THEOREM PaidForGood == PaySpec => PaidIsFinal
<1>1. IInv /\ [PayNext]_legacyVars =>
          [\A c \in Claims : pay[c].status = "paid" => pay'[c] = pay[c]]_legacyVars
  BY PaymentConstants, PaidStays
<1> QED BY <1>1, Inductive, PTL DEF PaySpec, PaidIsFinal

-----------------------------------------------------------------------------
(* Wallets.  EveryWalletSigned is violated: a stale signature binds an     *)
(* address that nobody signed for.  What can be said of every link is that *)
(* it takes no wallet of anybody else.                                     *)

\* Nobody is paid at a wallet that another person holds the key of, no two
\* people are paid at one address.
WalletsOwn ==
    /\ \A p \in People, a \in Addresses : wallets[p] = <<a>> => a \in Own[p]
    /\ \A p, q \in People : wallets[p] # None /\ wallets[p] = wallets[q] => p = q

WalletsStay == \A p \in People : wallets[p] # None => wallets'[p] = wallets[p]

\* No challenge, signature or link of anyone changes an address that is bound:
\* what an owner signs to pay is what was shown to the contributor.
WalletsFinal == [][WalletsStay]_walletVars

WalletInv ==
    /\ DOMAIN wallets = People
    /\ \A s \in proofs : s.address \in Own[s.message[1]]
    /\ WalletsOwn

LEMMA WalletStep ==
    ASSUME WalletInv, [WalletNext]_walletVars
    PROVE  WalletInv' /\ WalletsStay
<1>1. ASSUME UNCHANGED <<proofs, wallets>> PROVE WalletInv' /\ WalletsStay
  BY <1>1 DEF WalletInv, WalletsOwn, WalletsStay
<1>2. ASSUME NEW p \in People, NEW n, NEW a \in Addresses, Sign(p, n, a)
      PROVE  WalletInv' /\ WalletsStay
  <2> DEFINE s == [message |-> <<p, n>>, address |-> a]
  <2>1. a \in Own[p] /\ proofs' = proofs \cup {s} /\ wallets' = wallets
    BY <1>2 DEF Sign
  <2>2. s.address = a /\ s.message[1] = p
    OBVIOUS
  <2> HIDE DEF s
  <2> QED BY <2>1, <2>2 DEF WalletInv, WalletsOwn, WalletsStay
<1>3. ASSUME NEW p \in People, NEW s \in proofs, s.message[1] = p, connect_wallet(p, s)
      PROVE  WalletInv' /\ WalletsStay
  <2> DEFINE address == recover_message(challenge[p], s)
  <2>1. /\ wallets[p] \in {None, address}
        /\ \A q \in People \ {p} : wallets[q] # address
        /\ wallets' = [wallets EXCEPT ![p] = address]
        /\ proofs' = proofs
    BY <1>3 DEF connect_wallet
  <2>2. \A a : address = <<a>> => a = s.address
    BY DEF recover_message
  <2> HIDE DEF address
  <2>3. s.address \in Own[p] /\ DOMAIN wallets = People
    BY <1>3 DEF WalletInv
  <2>4. wallets'[p] = address /\ \A q \in People \ {p} : wallets'[q] = wallets[q]
    BY <2>1, <2>3
  <2>5. WalletsOwn'
    BY <2>1, <2>2, <2>3, <2>4 DEF WalletInv, WalletsOwn
  <2>6. DOMAIN wallets' = People
    BY <2>1, <2>3
  <2> QED BY <2>1, <2>4, <2>5, <2>6 DEF WalletInv, WalletsStay
<1> QED
  BY <1>1, <1>2, <1>3 DEF WalletNext, wallet_challenge, Expire, walletVars

LEMMA WalletInitHolds == WalletInit => WalletInv
BY DEF WalletInit, None, WalletInv, WalletsOwn

\* For any people, wallets, tabs and stale signatures.
THEOREM LinksTakeNobodysWallet == WalletSpec => []WalletsOwn /\ WalletsFinal
<1>1. WalletInv /\ [WalletNext]_walletVars => WalletInv' /\ [WalletsStay]_walletVars
  BY WalletStep
<1>2. WalletInv => WalletsOwn
  BY DEF WalletInv
<1> QED BY <1>1, <1>2, WalletInitHolds, PTL DEF WalletSpec, WalletsFinal

-----------------------------------------------------------------------------
(* Who is paid, and how often.                                             *)

Linked(c) == wallets[Payer[c]] # None /\ wallets[Payee[c]] # None

Attempt(c, n) == pay[c] # Unpaid /\ pay[c].nonce = n

\* Every transfer that a smart account made is that of one claim and of no
\* other of its owner's, and the contributor had claimed it and has a wallet:
\* so an owner makes at most one transfer for each claim.
EachTransferEarned ==
    \A p \in People : \A n \in DOMAIN done[p] :
        done[p][n].ok /\ done[p][n].op # NoOp =>
            \E c \in Claims :
                /\ payment_calldata(c) = done[p][n].op.call
                /\ c \in claimed /\ Linked(c)
                /\ \A d \in SamePayer(c) : Attempt(d, n - 1) <=> d = c

\* unique (chain_id, sender, nonce), as the rows keep it.
NoncesUnique ==
    \A c, d \in Claims :
        pay[c] # Unpaid /\ Payer[c] = Payer[d] /\ Attempt(d, pay[c].nonce) => c = d

\* What is paid, or prepared, was claimed between people with wallets.
Asked == \A c \in Claims : prep[c] # Idle \/ pay[c] # Unpaid => c \in claimed /\ Linked(c)

\* An owner's wallet links are those of WalletLinks beside the payments.
LEMMA PayWallets == PaySpec => WalletSpec
<1>1. PayInit => WalletInit
  BY DEF PayInit
<1>2. [PayNext]_legacyVars => [WalletNext]_walletVars
  BY DEF PayNext, legacyVars, claim_reward, prepare_payment, Reserve, SaveRow, GiveUp,
         save_operation, confirm_payment, Send, Forget, Execute, Elsewhere, Run
<1> QED BY <1>1, <1>2, PTL DEF PaySpec, WalletSpec

LEMMA NoncesStep ==
    ASSUME PaymentConstants, IInv, NoncesUnique, [PayNext]_legacyVars
    PROVE  NoncesUnique'
<1>1. Typed
  BY DEF IInv
<1>2. ASSUME \A c \in Claims : /\ pay'[c] # Unpaid => pay[c] # Unpaid
                               /\ pay'[c] # Unpaid => pay'[c].nonce = pay[c].nonce
      PROVE  NoncesUnique'
  BY <1>2 DEF NoncesUnique, Attempt
<1>3. ASSUME NEW c \in Claims, SaveRow(c) PROVE NoncesUnique'
  <2>1. PICK n \in prep[c].nonce..account_nonce(Payer[c]) :
            /\ NonceFree(c, n)
            /\ pay' = [pay EXCEPT ![c] =
                   [status |-> "awaiting_signature", nonce |-> n, userop |-> NoOp]]
    BY <1>3 DEF SaveRow
  <2>2. pay'[c].nonce = n /\ \A d \in Claims : d # c => pay'[d] = pay[d]
    BY <1>1, <2>1 DEF Typed
  <2>3. \A d \in Claims : d # c /\ Payer[d] = Payer[c] /\ pay[d] # Unpaid => pay[d].nonce # n
    BY <2>1 DEF NonceFree, SamePayer
  <2> QED BY <2>2, <2>3 DEF NoncesUnique, Attempt
<1>4. ASSUME NEW c \in Claims, NEW x, pay[c] # Unpaid, x.nonce = pay[c].nonce,
             pay' = [pay EXCEPT ![c] = x]
      PROVE  NoncesUnique'
  <2>1. pay'[c] = x /\ \A d \in Claims : d # c => pay'[d] = pay[d]
    BY <1>1, <1>4 DEF Typed
  <2> QED BY <1>2, <1>4, <2>1
<1>5. ASSUME NEW c \in Claims, NEW s \in Signings, save_operation(c, s) PROVE NoncesUnique'
  <2>1. pay[c] # Unpaid
    BY <1>5 DEF save_operation, Unfinished, Unpaid
  <2> QED BY <1>4, <1>5, <2>1 DEF save_operation
<1>6. ASSUME NEW c \in Claims, NEW op \in stored, confirm_payment(c, op) PROVE NoncesUnique'
  BY <1>4, <1>6 DEF confirm_payment, Confirmable
<1>7. \/ UNCHANGED pay
      \/ \E d \in Claims : \/ SaveRow(d)
                           \/ \E s \in Signings : save_operation(d, s)
                           \/ \E op \in stored : confirm_payment(d, op)
  BY DEF PayNext, payVars, legacyVars, claim_reward, prepare_payment, Reserve, GiveUp,
         Send, Forget, Execute, Elsewhere, Run
<1> QED BY <1>2, <1>3, <1>5, <1>6, <1>7

LEMMA AskedStep ==
    ASSUME PaymentConstants, IInv, Asked, WalletInv, [PayNext]_legacyVars
    PROVE  Asked'
<1>1. Typed
  BY DEF IInv
<1>2. [WalletNext]_walletVars
  BY DEF PayNext, legacyVars, claim_reward, prepare_payment, Reserve, SaveRow, GiveUp,
         save_operation, confirm_payment, Send, Forget, Execute, Elsewhere, Run
<1>3. WalletsStay
  BY <1>2, WalletStep
<1>4. \A c \in Claims : Linked(c) => Linked(c)'
  BY <1>3 DEF PaymentConstants, WalletsStay, Linked
<1>5. claimed \subseteq claimed'
  BY DEF PayNext, payVars, legacyVars, claim_reward, prepare_payment, Reserve, SaveRow, GiveUp,
         save_operation, confirm_payment, Send, Forget, Execute, Elsewhere, Run
<1>6. ASSUME \A c \in Claims : prep'[c] # Idle \/ pay'[c] # Unpaid =>
                                   \/ prep[c] # Idle \/ pay[c] # Unpaid
                                   \/ c \in claimed /\ Linked(c)
      PROVE  Asked'
  BY <1>4, <1>5, <1>6 DEF Asked
<1>7. ASSUME NEW c \in Claims, \A d \in Claims : d # c => prep'[d] = prep[d] /\ pay'[d] = pay[d],
             prep[c] # Idle \/ pay[c] # Unpaid \/ (c \in claimed /\ Linked(c))
      PROVE  Asked'
  BY <1>6, <1>7
<1>8. ASSUME NEW c \in Claims, prepare_payment(c) PROVE Asked'
  <2>1. c \in claimed /\ Linked(c) /\ pay' = pay /\ prep' = [prep EXCEPT ![c] = [pc |-> "read"]]
    BY <1>8 DEF prepare_payment, Linked
  <2> QED BY <1>1, <1>7, <2>1 DEF Typed
<1>9. ASSUME NEW c \in Claims, Reserve(c) \/ SaveRow(c) \/ GiveUp(c) PROVE Asked'
  <2>1. prep[c] # Idle
    BY <1>9 DEF Reserve, SaveRow, GiveUp, Idle
  <2>2. \A d \in Claims : d # c => prep'[d] = prep[d] /\ pay'[d] = pay[d]
    BY <1>1, <1>9 DEF Reserve, SaveRow, GiveUp, Typed
  <2> QED BY <1>7, <2>1, <2>2
<1>10. ASSUME NEW c \in Claims, NEW s \in Signings, save_operation(c, s) PROVE Asked'
  <2>1. pay[c] # Unpaid
    BY <1>10 DEF save_operation, Unfinished, Unpaid
  <2>2. \A d \in Claims : d # c => prep'[d] = prep[d] /\ pay'[d] = pay[d]
    BY <1>1, <1>10 DEF save_operation, Typed
  <2> QED BY <1>7, <2>1, <2>2
<1>11. ASSUME NEW c \in Claims, NEW op \in stored, confirm_payment(c, op) PROVE Asked'
  <2>1. pay[c] # Unpaid
    BY <1>11 DEF confirm_payment, Confirmable
  <2>2. \A d \in Claims : d # c => prep'[d] = prep[d] /\ pay'[d] = pay[d]
    BY <1>1, <1>11 DEF confirm_payment, Typed
  <2> QED BY <1>7, <2>1, <2>2
<1>12. \/ UNCHANGED <<pay, prep>>
       \/ \E d \in Claims : \/ prepare_payment(d) \/ Reserve(d) \/ SaveRow(d) \/ GiveUp(d)
                            \/ \E s \in Signings : save_operation(d, s)
                            \/ \E op \in stored : confirm_payment(d, op)
  BY DEF PayNext, payVars, legacyVars, claim_reward, Send, Forget, Execute, Elsewhere, Run
<1> QED BY <1>6, <1>8, <1>9, <1>10, <1>11, <1>12

LEMMA TransferEarned ==
    ASSUME PaymentConstants, IInv, NoncesUnique, Asked
    PROVE  EachTransferEarned
<1> SUFFICES ASSUME NEW p \in People, NEW n \in DOMAIN done[p],
                    done[p][n].ok, done[p][n].op # NoOp
             PROVE  \E c \in Claims :
                        /\ payment_calldata(c) = done[p][n].op.call
                        /\ c \in claimed /\ Linked(c)
                        /\ \A d \in SamePayer(c) : Attempt(d, n - 1) <=> d = c
  BY DEF EachTransferEarned
<1>1. PICK c \in Claims : /\ pay[c] # Unpaid
                          /\ pay[c].nonce = n - 1
                          /\ payment_calldata(c) = done[p][n].op.call
  BY DEF IInv, TransfersAccounted
<1>2. c \in claimed /\ Linked(c)
  BY <1>1 DEF Asked
<1>3. \A d \in SamePayer(c) : Attempt(d, n - 1) <=> d = c
  BY <1>1 DEF NoncesUnique, SamePayer, Attempt
<1> QED BY <1>1, <1>2, <1>3

\* An owner's retries, tabs and reopened attempts never pay a claim twice, and
\* never pay what was not claimed.
THEOREM NeverPaidTwice == PaySpec => []EachTransferEarned
<1>1. PayInit => NoncesUnique /\ Asked
  BY DEF PayInit, NoncesUnique, Asked, Attempt
<1>2. IInv /\ NoncesUnique /\ [PayNext]_legacyVars => NoncesUnique'
  BY PaymentConstants, NoncesStep
<1>3. IInv /\ Asked /\ WalletInv /\ [PayNext]_legacyVars => Asked'
  BY PaymentConstants, AskedStep
<1>4. WalletInv /\ [WalletNext]_walletVars => WalletInv'
  BY WalletStep
<1>5. WalletSpec => []WalletInv
  BY <1>4, WalletInitHolds, PTL DEF WalletSpec
<1>6. IInv /\ NoncesUnique /\ Asked => EachTransferEarned
  BY PaymentConstants, TransferEarned
<1> QED BY <1>1, <1>2, <1>3, <1>5, <1>6, PayWallets, Inductive, PTL DEF PaySpec
=============================================================================
