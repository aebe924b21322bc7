----------------------------- MODULE Moderation -----------------------------
(***************************************************************************)
(* Reports and what moderators do about them (routes/moderation.py): a     *)
(* flag is resolved once, under its row's lock, and withdrawing an award   *)
(* writes a new entry of the opposite value.  Whether the award has been   *)
(* withdrawn before is read off the texts of earlier voids, without a lock.*)
(***************************************************************************)
EXTENDS Integers, Sequences, FiniteSets

CONSTANTS Flags,        \* moderation_flags
          Moderators,   \* administrators with a request under way
          Award,        \* the awards Awards.tla makes: sequence of
                        \* [user, pr, points, category, merged]
          Ids,          \* ids points_ledger hands out here, other people's left out
          MaxTime       \* bound: the clock

ASSUME ModerationConstants ==
    /\ Award \in Seq({Award[n] : n \in DOMAIN Award})
    /\ \A n \in DOMAIN Award : Award[n].points \in Nat \ {0} /\ Award[n].merged \in Nat
    /\ Ids \in Seq(Nat \ {0})
    /\ \A m, n \in DOMAIN Ids : m < n => Ids[m] < Ids[n]
    /\ MaxTime \in Nat

VARIABLES clock,
          ledger,       \* points_ledger, in the order of ids
          flag,         \* the row of each flag
          work          \* what each moderator's transaction is doing

vars == <<clock, ledger, flag, work>>

Idle == [pc |-> "idle"]
Other == 0              \* a flag about a bounty or a pull request

NoFlag == [status |-> "none", entry |-> Other, void |-> 0]

Init == /\ clock = 0
        /\ ledger = <<>>
        /\ flag = [f \in Flags |-> NoFlag]
        /\ work = [m \in Moderators |-> Idle]

Tick ==
    /\ clock < MaxTime
    /\ clock' = clock + 1
    /\ UNCHANGED <<ledger, flag, work>>

Entries == {Ids[n] : n \in DOMAIN ledger}
Entry(id) == ledger[CHOOSE n \in DOMAIN ledger : Ids[n] = id]
Voids == {n \in DOMAIN ledger : ledger[n].kind = "void"}
Earned == Cardinality(DOMAIN ledger \ Voids)

\* The next award of a contributor's sync or claim.
earn ==
    /\ Earned < Len(Award)
    /\ Len(ledger) < Len(Ids)
    /\ LET a == Award[Earned + 1]
       IN  /\ a.merged <= clock
           /\ ledger' = Append(ledger, [kind |-> "award", user |-> a.user, pr |-> a.pr,
                                        points |-> a.points, category |-> a.category,
                                        merged |-> a.merged, created |-> clock])
    /\ UNCHANGED <<clock, flag, work>>

raise_flag(f, entry) ==
    /\ flag[f].status = "none"
    /\ entry \in {Other} \cup Entries
    /\ flag' = [flag EXCEPT ![f] = [status |-> "open", entry |-> entry, void |-> 0]]
    /\ UNCHANGED <<clock, ledger, work>>

-----------------------------------------------------------------------------
\* Fault: two requests may resolve one flag.
NoFlagLock(f) == TRUE

\* select * from moderation_flags where id = $1 for update
FlagFree(f) == \A m \in Moderators : work[m] # Idle => work[m].flag # f

\* "dismissed" and "upheld" move nothing.
resolve_flag(f, status) ==
    /\ FlagFree(f)
    /\ flag[f].status = "open"
    /\ flag' = [flag EXCEPT ![f].status = status]
    /\ UNCHANGED <<clock, ledger, work>>

\* A number that stands in a text where n does, or where n begins.
Begins(n, number) == \E k \in {1, 10, 100, 1000} : number \div k = n

\* Fault: the void's own number is looked for, not the award's.
OwnNumber(id, n) == Begins(id, Ids[n])

\* reason like '%entry <id>%'
Named(id, n) == \E number \in ledger[n].names : Begins(id, number)

\* kind = 'void', the same account and pull request, and the text.
already_void(id) ==
    \E n \in Voids : /\ ledger[n].user = Entry(id).user
                     /\ ledger[n].pr = Entry(id).pr
                     /\ Named(id, n)

\* The moderator's own words may name another entry.
read_award(m, f) ==
    LET id == flag[f].entry
    IN  /\ work[m] = Idle
        /\ FlagFree(f)
        /\ flag[f].status = "open"
        /\ id # Other
        /\ Entry(id).points > 0
        /\ ~ already_void(id)
        /\ \E also \in SUBSET (Entries \ {id}) :
               /\ Cardinality(also) <= 1
               /\ work' = [work EXCEPT ![m] = [pc |-> "withdraw", flag |-> f, names |-> also,
                                               seen |-> DOMAIN ledger]]
        /\ UNCHANGED <<clock, ledger, flag>>

\* Fault: the correction is filed under the default category.
Uncategorised(award) == "other"

CategoryOf(award) == award.category

\* A correction has no merge time.  "of" is the award its text names first;
\* "seen" is history: the entries there were when the texts were read.
record_adjustment(m, award) ==
    [kind |-> "void", user |-> award.user, pr |-> award.pr, points |-> -award.points,
     category |-> CategoryOf(award), created |-> clock, of |-> flag[work[m].flag].entry,
     names |-> work[m].names \cup {flag[work[m].flag].entry}, seen |-> work[m].seen]

\* The new entry and the flag's row, in the transaction that read.
withdraw_award(m) ==
    /\ work[m].pc = "withdraw"
    /\ Len(ledger) < Len(Ids)
    /\ LET f == work[m].flag
       IN  /\ ledger' = Append(ledger, record_adjustment(m, Entry(flag[f].entry)))
           /\ flag' = [flag EXCEPT ![f] = [status |-> "withdrawn", entry |-> flag[f].entry,
                                           void |-> Ids[Len(ledger) + 1]]]
    /\ work' = [work EXCEPT ![m] = Idle]
    /\ UNCHANGED clock

Next ==
    \/ Tick
    \/ earn
    \/ \E f \in Flags :
           \/ \E entry \in {Other} \cup Entries : raise_flag(f, entry)
           \/ \E status \in {"dismissed", "upheld"} : resolve_flag(f, status)
           \/ \E m \in Moderators : read_award(m, f)
    \/ \E m \in Moderators : withdraw_award(m)

Spec == Init /\ [][Next]_vars

-----------------------------------------------------------------------------
\* Every withdrawal is one flag's: the entry that takes an award away names
\* the flag's award and is worth exactly as much, whatever runs beside it.
Paired ==
    /\ \A f \in Flags : flag[f].status = "withdrawn" =>
           /\ flag[f].void \in Entries
           /\ Entry(flag[f].void).of = flag[f].entry
           /\ Entry(flag[f].void).points + Entry(flag[f].entry).points = 0
    /\ \A n \in Voids :
           Cardinality({f \in Flags : flag[f].status = "withdrawn" /\ flag[f].void = Ids[n]}) = 1

\* An award is withdrawn twice only by requests that overlap: whoever reads
\* the texts after a void was written never writes another for that award.
WithdrawnOnceSeen ==
    \A n, v \in Voids : (n # v /\ ledger[n].of = ledger[v].of) => n \notin ledger[v].seen
=============================================================================
