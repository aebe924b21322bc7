---------------------------- MODULE EscrowPromise ----------------------------
(***************************************************************************)
(* What an escrowed bounty promises, with nothing of how it is kept: the   *)
(* money of a bounty is taken in once, and leaves once -- to a contributor *)
(* before the claim window closes, or back to the payer from that moment   *)
(* on.  GitBountyEscrow.sol is shown to implement it (EscrowContract).     *)
(***************************************************************************)
EXTENDS Naturals

CONSTANT Ids            \* the bounties there can be

VARIABLES clock,      \* the time the chain goes by
          phase,      \* where each bounty stands
          held,       \* the money kept for it
          closesAt,   \* when its claim window closes
          custody     \* all the money kept, the promise to every payer at once

vars == <<clock, phase, held, closesAt, custody>>

Init == /\ clock = 0
        /\ phase = [i \in Ids |-> "none"]
        /\ held = [i \in Ids |-> 0]
        /\ closesAt = [i \in Ids |-> 0]
        /\ custody = 0

Deposit(i) ==
    /\ phase[i] = "none"
    /\ phase' = [phase EXCEPT ![i] = "held"]
    /\ held'[i] \in Nat \ {0}
    /\ held' = [held EXCEPT ![i] = held'[i]]
    /\ custody' = custody + held'[i]
    /\ closesAt'[i] \in Nat
    /\ closesAt'[i] > clock
    /\ closesAt' = [closesAt EXCEPT ![i] = closesAt'[i]]
    /\ UNCHANGED clock

Leave(i, how) ==
    /\ phase[i] = "held"
    /\ phase' = [phase EXCEPT ![i] = how]
    /\ custody >= held[i]
    /\ custody' = custody - held[i]
    /\ UNCHANGED <<clock, held, closesAt>>

PayOut(i)   == clock < closesAt[i] /\ Leave(i, "paid")
GiveBack(i) == clock >= closesAt[i] /\ Leave(i, "returned")

Pass == clock' > clock /\ UNCHANGED <<phase, held, closesAt, custody>>

Next == Pass \/ \E i \in Ids : Deposit(i) \/ PayOut(i) \/ GiveBack(i)

Spec == Init /\ [][Next]_vars
=============================================================================
