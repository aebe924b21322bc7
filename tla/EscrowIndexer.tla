--------------------------- MODULE EscrowIndexer ---------------------------
(***************************************************************************)
(* POST /api/escrow/reconcile: recovery that reads the contract's logs from *)
(* a persisted cursor and gives each to the verifier a browser would call. *)
(* Several users may ask for it at once; a pass is not a transaction, each *)
(* event it verifies is, and the first one refused ends it.                *)
(***************************************************************************)
EXTENDS EscrowClaims

CONSTANTS Passes,       \* reconcile requests under way at once
          Overlap,      \* blocks read again before the cursor: 10
          Chunk         \* blocks read after the first: 999

ASSUME IndexConstants ==
    /\ Overlap \in Nat
    /\ Chunk \in Nat
    /\ Overlap < Chunk

VARIABLES cursor,       \* escrow_index_cursors.last_block_number
          pass          \* the reconcile requests

indexVars == <<allVars, cursor, pass>>

Resting == [pc |-> "idle"]

IndexInit == ClaimInit /\ cursor = 0 /\ pass = [n \in Passes |-> Resting]

\* The contract's deployment block is 0, and no cursor is one at 0.
startBlock == IF cursor > Overlap THEN cursor - Overlap ELSE 0

\* Fault: the latest block itself is read.
oneConfirmation == latest

\* eth_blockNumber - 1: two confirmations.
confirmedHead == latest - 1

\* The cursor is read after the chain's head; logs that the site knows
\* nothing about are passed over.
ReadLogs(n) ==
    LET end == Earlier(startBlock + Chunk, confirmedHead)
    IN  /\ pass[n] = Resting
        /\ now >= 2
        /\ end >= startBlock
        /\ pass' = [pass EXCEPT ![n] =
               [pc |-> "logs", end |-> end,
                todo |-> {k \in 1..Len(log) : /\ log[k].at \in startBlock..end
                                              /\ log[k].id \in Registered}]]
        /\ UNCHANGED <<allVars, cursor>>

\* The logs come in the order of the chain.
NextLog(n, k) == k \in pass[n].todo /\ \A j \in pass[n].todo : k <= j

\* What its verifier has for an event: nothing to do, or the proof it wants.
Recorded(k) ==
    LET i == log[k].id
    IN  CASE log[k].event = "BountyFunded"   -> fundingSeen[i] # Never
          [] log[k].event = "BountySettled"  -> settledSeen[i] # Never \/ ~allocated[i]
          [] log[k].event = "BountyRefunded" -> refundSeen[i] # Never

Proven(k) ==
    LET i == log[k].id
    IN  CASE log[k].event = "BountyFunded"   -> FundingProof(i, k)
          [] log[k].event = "BountySettled"  -> SettlementProof(i, k)
          [] log[k].event = "BountyRefunded" -> RefundProof(i, k)

\* Fault: an event that is already recorded is refused like a second funding.
OnlyNew(k) == ~Recorded(k) /\ Proven(k)

\* An event already recorded is answered "funded" or "settled" at once, a
\* refund only after it is proved again.
Accepted(k) == Proven(k) \/ (Recorded(k) /\ log[k].event # "BountyRefunded")

\* The verifier commits: the event is recorded, if it was not.
RecordNext(n, k) ==
    /\ pass[n].pc = "logs"
    /\ NextLog(n, k)
    /\ Accepted(k)
    /\ \/ Recorded(k) /\ UNCHANGED allVars
       \/ ~Recorded(k) /\ Verify(log[k].id, k)
    /\ pass' = [pass EXCEPT ![n].todo = @ \ {k}]
    /\ UNCHANGED cursor

\* Fault: a refused event is skipped and the pass goes on.
SkipRefused(n, k) == pass' = [pass EXCEPT ![n].todo = @ \ {k}]

\* A verifier's 409 ends the pass before the cursor is written.
StopRefused(n, k) == pass' = [pass EXCEPT ![n] = Resting]

Refused(n, k) ==
    /\ pass[n].pc = "logs"
    /\ NextLog(n, k)
    /\ ~Accepted(k)
    /\ StopRefused(n, k)
    /\ UNCHANGED <<allVars, cursor>>

\* The node or the database fails, or the process is restarted.
PassFails(n) ==
    /\ pass[n].pc = "logs"
    /\ pass' = [pass EXCEPT ![n] = Resting]
    /\ UNCHANGED <<allVars, cursor>>

\* greatest(last_block_number, excluded.last_block_number)
Advance(n) ==
    /\ pass[n].pc = "logs"
    /\ pass[n].todo = {}
    /\ cursor' = IF pass[n].end > cursor THEN pass[n].end ELSE cursor
    /\ pass' = [pass EXCEPT ![n] = Resting]
    /\ UNCHANGED allVars

reconcile(n) ==
    \/ ReadLogs(n)
    \/ \E k \in 1..Len(log) : RecordNext(n, k) \/ Refused(n, k)
    \/ PassFails(n)
    \/ Advance(n)

IndexNext ==
    \/ ClaimNext /\ UNCHANGED <<cursor, pass>>
    \/ \E n \in Passes : reconcile(n)

IndexSpec == IndexInit /\ [][IndexNext]_indexVars

\* A bounty has two events at most.
EventBound == 2 * Cardinality(Registered)

\* Blocks go on, users go on asking for reconciliation, and the node does not
\* fail at the same point of every pass.  Nothing is asked of a browser: a
\* transaction's hash may never be submitted, an operation never confirmed.
Fairness ==
    /\ WF_indexVars(NextBlock /\ UNCHANGED <<cursor, pass>>)
    /\ \A n \in Passes : WF_indexVars(ReadLogs(n)) /\ SF_indexVars(Advance(n))
    /\ \A n \in Passes, k \in 1..EventBound :
           SF_indexVars(k \in 1..Len(log) /\ RecordNext(n, k))

FairIndexSpec == IndexSpec /\ Fairness

-----------------------------------------------------------------------------
(* Properties.                                                             *)

\* What holds of the cursor and of a pass: neither is ever at a block that
\* does not have another on top.
IndexTypeOK ==
    /\ cursor \in Nat
    /\ cursor > 0 => cursor < latest
    /\ \A n \in Passes :
           pass[n].pc = "logs" => pass[n].todo \subseteq 1..Len(log) /\ pass[n].end < latest

Reported(k) == k <= Len(log) /\ log[k].id \in Registered /\ log[k].at <= confirmedHead

\* The cursor only passes what was recorded: whichever pass wrote it, and
\* whichever of two overlapping passes wrote it last, no event of a published
\* bounty is left behind it.
CursorComplete ==
    \A k \in 1..Len(log) :
        cursor > 0 /\ log[k].id \in Registered /\ log[k].at <= cursor => Recorded(k)

\* Whatever the chain did to a published bounty is eventually on record,
\* though every browser was closed before its transaction was mined.
EventuallyRecorded ==
    \A k \in 1..EventBound : Reported(k) ~> (Reported(k) /\ Recorded(k))

\* It is so as long as no confirmed event is one the verifier refuses, of
\* whatever bounty: a refused one blocks every event after it.
AllProvable == \A k \in 1..Len(log) : Reported(k) => Proven(k)

RecoversProvable == []AllProvable => EventuallyRecorded
=============================================================================
