-------------------------- MODULE ModerationProofs --------------------------
(***************************************************************************)
(* Proofs that moderators' withdrawals are paired with flags, and that an  *)
(* award is withdrawn twice only by requests that overlap, for any number  *)
(* of moderators, flags and awards and any assignment of ids.              *)
(***************************************************************************)
EXTENDS Standings, SumsAndRanks, TLAPS

Users == {Award[n].user : n \in DOMAIN Award}
Pulls == {Award[n].pr : n \in DOMAIN Award}
Kinds == {Award[n].category : n \in DOMAIN Award}
Times == {Award[n].merged : n \in DOMAIN Award}

AwardRow == [kind : {"award"}, user : Users, pr : Pulls, points : Nat \ {0},
             category : Kinds, merged : Times, created : Nat]

VoidRow == [kind : {"void"}, user : Users, pr : Pulls, points : Int, category : Kinds,
            created : Nat, of : Nat, names : SUBSET Nat, seen : SUBSET Nat]

FlagRow == [status : {"none", "open", "dismissed", "upheld", "withdrawn"},
            entry : Nat, void : Nat]

WorkRow == [pc : {"withdraw"}, flag : Flags, names : SUBSET Nat, seen : SUBSET Nat]

Typed ==
    /\ clock \in Nat
    /\ ledger \in Seq(AwardRow \cup VoidRow)
    /\ Len(ledger) <= Len(Ids)
    /\ flag \in [Flags -> FlagRow]
    /\ work \in [Moderators -> {Idle} \cup WorkRow]

\* A flag is about an entry that exists.
FlagsPoint == \A f \in Flags : flag[f].entry \in {Other} \cup Entries

\* Whoever is withdrawing holds an open flag about an award, alone.
WorkHolds ==
    \A m \in Moderators : work[m] # Idle =>
        LET f == work[m].flag
        IN  /\ flag[f].status = "open"
            /\ flag[f].entry \in Entries
            /\ work[m].seen \subseteq DOMAIN ledger
            /\ \A k \in Moderators : work[k] # Idle /\ work[k].flag = f => k = m

\* A void is about an earlier entry of the same person and pull request,
\* which its text names.
VoidsName ==
    \A n \in Voids :
        /\ \E k \in DOMAIN ledger : /\ ledger[n].of = Ids[k]
                                   /\ ledger[n].user = ledger[k].user
                                   /\ ledger[n].pr = ledger[k].pr
        /\ ledger[n].of \in ledger[n].names
        /\ ledger[n].seen \subseteq 1..(n - 1)

\* A withdrawn flag has its void, and a void has its one flag.
FlagsPaid ==
    \A f \in Flags : flag[f].status = "withdrawn" =>
        \E n \in Voids, k \in DOMAIN ledger :
            /\ flag[f].void = Ids[n]
            /\ flag[f].entry = Ids[k]
            /\ ledger[n].of = Ids[k]
            /\ ledger[n].points + ledger[k].points = 0

VoidsPaid ==
    \A n \in Voids :
        \E f \in Flags : /\ flag[f].status = "withdrawn"
                         /\ flag[f].void = Ids[n]
                         /\ \A g \in Flags : flag[g].status = "withdrawn" /\ flag[g].void = Ids[n]
                                                => g = f

\* What a request has seen holds no void of its award.
NoneSeen ==
    \A m \in Moderators : work[m] # Idle =>
        \A n \in Voids : n \in work[m].seen => ledger[n].of # flag[work[m].flag].entry

IInv ==
    Typed /\ FlagsPoint /\ WorkHolds /\ VoidsName /\ FlagsPaid /\ VoidsPaid
          /\ NoneSeen /\ WithdrawnOnceSeen

-----------------------------------------------------------------------------
(* The operators.                                                          *)

\* The id of an entry stands for its place.
LEMMA IdsApart ==
    ASSUME ModerationConstants, NEW n \in DOMAIN Ids, NEW k \in DOMAIN Ids, Ids[n] = Ids[k]
    PROVE  n = k
<1>1. \A m, l \in 1..Len(Ids) : m < l => Ids[m] < Ids[l]
  BY DEF ModerationConstants
<1>2. n \in 1..Len(Ids) /\ k \in 1..Len(Ids) /\ Len(Ids) \in Nat /\ Ids[n] \in Nat
  BY DEF ModerationConstants
<1>3. ~(n < k) /\ ~(k < n)
  BY <1>1, <1>2
<1> QED BY <1>2, <1>3

LEMMA Place ==
    ASSUME ModerationConstants, Typed, NEW n \in DOMAIN ledger
    PROVE  /\ n \in DOMAIN Ids
           /\ Ids[n] \in Nat \ {0}
           /\ Ids[n] \in Entries
           /\ Entry(Ids[n]) = ledger[n]
<1>1. n \in DOMAIN Ids
  BY DEF ModerationConstants, Typed
<1>2. \A k \in DOMAIN ledger : k \in DOMAIN Ids
  BY DEF ModerationConstants, Typed
<1>3. (CHOOSE k \in DOMAIN ledger : Ids[k] = Ids[n]) = n
  BY <1>1, <1>2, IdsApart
<1>4. Entry(Ids[n]) = ledger[n]
  BY <1>3, Zenon DEF Entry
<1>5. Ids[n] \in Entries
  BY DEF Entries
<1> QED BY <1>1, <1>4, <1>5 DEF ModerationConstants

LEMMA HasPlace ==
    ASSUME ModerationConstants, Typed, NEW id \in Entries
    PROVE  \E n \in DOMAIN ledger : id = Ids[n] /\ Entry(id) = ledger[n]
BY Place DEF Entries

\* What an appended entry leaves as it was.
LEMMA Grows ==
    ASSUME ModerationConstants, Typed, NEW e \in AwardRow \cup VoidRow,
           ledger' = Append(ledger, e), Len(ledger) < Len(Ids)
    PROVE  LET new == Len(ledger) + 1
           IN  /\ ledger' \in Seq(AwardRow \cup VoidRow)
               /\ Len(ledger') <= Len(Ids)
               /\ DOMAIN ledger' = DOMAIN ledger \cup {new}
               /\ new \notin DOMAIN ledger
               /\ \A n \in DOMAIN ledger : n \in 1..(new - 1)
               /\ ledger'[new] = e
               /\ \A n \in DOMAIN ledger : ledger'[n] = ledger[n]
               /\ Voids' = Voids \cup {n \in {new} : e.kind = "void"}
               /\ Entries' = Entries \cup {Ids[new]}
               /\ \A id \in Entries : Entry(id)' = Entry(id)
<1> DEFINE new == Len(ledger) + 1
<1>1. /\ ledger' \in Seq(AwardRow \cup VoidRow)
      /\ Len(ledger') <= Len(Ids)
      /\ DOMAIN ledger' = DOMAIN ledger \cup {new}
      /\ new \notin DOMAIN ledger
      /\ \A n \in DOMAIN ledger : n \in 1..(new - 1)
      /\ ledger'[new] = e
      /\ \A n \in DOMAIN ledger : ledger'[n] = ledger[n]
  BY DEF Typed, ModerationConstants
<1>2. Voids' = Voids \cup {n \in {new} : e.kind = "void"}
  BY <1>1 DEF Voids
<1>3. Entries' = Entries \cup {Ids[new]}
  BY <1>1 DEF Entries
<1>4. ASSUME NEW id \in Entries
      PROVE  Entry(id)' = Entry(id)
  <2>1. PICK n \in DOMAIN ledger : id = Ids[n] /\ Entry(id) = ledger[n]
    BY HasPlace
  <2>2. \A k \in DOMAIN ledger' : k \in DOMAIN Ids
    BY <1>1 DEF ModerationConstants
  <2>3. (CHOOSE k \in DOMAIN ledger' : Ids[k] = id) = n
    BY <1>1, <2>1, <2>2, IdsApart
  <2> QED BY <1>1, <2>1, <2>3 DEF Entry
<1> QED BY <1>1, <1>2, <1>3, <1>4

\* A number stands in a text that names it.
LEMMA NamesItself ==
    ASSUME NEW id \in Nat, NEW n, id \in ledger[n].names
    PROVE  Named(id, n)
BY DEF Named, Begins

\* A void is a void row.
LEMMA VoidIsRow ==
    ASSUME Typed, NEW n \in Voids
    PROVE  ledger[n] \in VoidRow /\ n \in DOMAIN ledger
BY DEF Typed, Voids, AwardRow, VoidRow

-----------------------------------------------------------------------------
(* The steps.                                                              *)

LEMMA Starts ==
    ASSUME ModerationConstants, Init
    PROVE  IInv
<1>1. DOMAIN ledger = {} /\ Voids = {}
  BY DEF Init, Voids
<1>2. Typed
  BY DEF ModerationConstants, Init, NoFlag, Other, Typed, FlagRow
<1>3. FlagsPoint /\ FlagsPaid /\ WorkHolds
  BY DEF Init, NoFlag, Idle, FlagsPoint, FlagsPaid, WorkHolds
<1>4. VoidsName /\ VoidsPaid /\ NoneSeen /\ WithdrawnOnceSeen
  BY <1>1 DEF VoidsName, VoidsPaid, NoneSeen, WithdrawnOnceSeen
<1> QED BY <1>2, <1>3, <1>4 DEF IInv

\* Nothing here depends on the clock, or on the future.
LEMMA Unmoved ==
    ASSUME ModerationConstants, IInv, clock' \in Nat, UNCHANGED <<ledger, flag, work>>
    PROVE  IInv'
<1>1. Voids' = Voids /\ Entries' = Entries
  BY DEF Voids, Entries
<1>2. Typed' /\ FlagsPoint' /\ WorkHolds'
  BY <1>1 DEF IInv, Typed, FlagsPoint, WorkHolds
<1>3. VoidsName' /\ FlagsPaid'
  BY <1>1 DEF IInv, VoidsName, FlagsPaid
<1>4. VoidsPaid' /\ NoneSeen' /\ WithdrawnOnceSeen'
  BY <1>1 DEF IInv, VoidsPaid, NoneSeen, WithdrawnOnceSeen
<1> QED BY <1>2, <1>3, <1>4 DEF IInv

LEMMA Ticks ==
    ASSUME ModerationConstants, IInv, Tick
    PROVE  IInv'
<1>1. clock' \in Nat
  BY DEF IInv, Typed, Tick
<1> QED BY <1>1, Unmoved DEF Tick

\* What is earned is an award.
LEMMA EarnsAward ==
    ASSUME ModerationConstants, IInv, earn
    PROVE  \E e \in AwardRow : ledger' = Append(ledger, e)
<1> DEFINE e == [kind |-> "award", user |-> Award[Earned + 1].user,
                 pr |-> Award[Earned + 1].pr, points |-> Award[Earned + 1].points,
                 category |-> Award[Earned + 1].category,
                 merged |-> Award[Earned + 1].merged, created |-> clock]
<1>1. Earned + 1 \in DOMAIN Award
  <2>1. IsFiniteSet(DOMAIN ledger)
    <3>1. DOMAIN ledger = 1..Len(ledger) /\ Len(ledger) \in Nat
      BY DEF IInv, Typed
    <3> QED BY <3>1, FS_Interval
  <2>2. IsFiniteSet(DOMAIN ledger \ Voids)
    BY <2>1, FS_Subset
  <2>3. Earned \in Nat
    BY <2>2, FS_CardinalityType DEF Earned
  <2> QED BY <2>3 DEF earn, ModerationConstants
<1>2. e \in AwardRow
  BY <1>1 DEF AwardRow, Users, Pulls, Kinds, Times, ModerationConstants, IInv, Typed
<1>3. ledger' = Append(ledger, e)
  BY DEF earn
<1> QED BY <1>2, <1>3

\* An award is no void, and no void is about it yet.
LEMMA Earns ==
    ASSUME ModerationConstants, IInv, earn
    PROVE  IInv'
<1> DEFINE new == Len(ledger) + 1
<1>2. PICK e \in AwardRow : ledger' = Append(ledger, e)
  BY EarnsAward
<1>3. Len(ledger) < Len(Ids) /\ UNCHANGED <<clock, flag, work>>
  BY DEF earn
<1>4. /\ ledger' \in Seq(AwardRow \cup VoidRow)
      /\ Len(ledger') <= Len(Ids)
      /\ DOMAIN ledger' = DOMAIN ledger \cup {new}
      /\ \A n \in DOMAIN ledger : ledger'[n] = ledger[n]
      /\ Voids' = Voids \cup {n \in {new} : e.kind = "void"}
      /\ Entries' = Entries \cup {Ids[new]}
      /\ \A id \in Entries : Entry(id)' = Entry(id)
  BY <1>2, <1>3, Grows DEF IInv
<1>5. Voids' = Voids
  BY <1>2, <1>4 DEF AwardRow
<1>6. \A n \in Voids : n \in DOMAIN ledger /\ ledger'[n] = ledger[n]
  BY <1>4 DEF Voids
<1>7. Typed'
  BY <1>3, <1>4 DEF IInv, Typed
<1>8. FlagsPoint'
  BY <1>3, <1>4 DEF IInv, FlagsPoint
<1>9. WorkHolds'
  BY <1>3, <1>4 DEF IInv, WorkHolds
<1>10. VoidsName'
  <2>1. SUFFICES ASSUME NEW n \in Voids
                 PROVE  /\ \E l \in DOMAIN ledger' : /\ ledger'[n].of = Ids[l]
                                                     /\ ledger'[n].user = ledger'[l].user
                                                     /\ ledger'[n].pr = ledger'[l].pr
                        /\ ledger'[n].of \in ledger'[n].names
                        /\ ledger'[n].seen \subseteq 1..(n - 1)
    BY <1>5 DEF VoidsName
  <2>2. PICK l \in DOMAIN ledger : /\ ledger[n].of = Ids[l]
                                   /\ ledger[n].user = ledger[l].user
                                   /\ ledger[n].pr = ledger[l].pr
    BY DEF IInv, VoidsName
  <2>3. ledger[n].of \in ledger[n].names /\ ledger[n].seen \subseteq 1..(n - 1)
    BY DEF IInv, VoidsName
  <2>4. ledger'[n] = ledger[n]
    BY <1>6
  <2>5. l \in DOMAIN ledger' /\ ledger'[l] = ledger[l]
    BY <1>4
  <2> QED BY <2>2, <2>3, <2>4, <2>5
<1>11. FlagsPaid'
  <2>1. SUFFICES ASSUME NEW f \in Flags, flag[f].status = "withdrawn" PROVE FlagsPaid!(f)!2'
    BY <1>3 DEF FlagsPaid
  <2>2. PICK n \in Voids, k \in DOMAIN ledger :
            /\ flag[f].void = Ids[n]
            /\ flag[f].entry = Ids[k]
            /\ ledger[n].of = Ids[k]
            /\ ledger[n].points + ledger[k].points = 0
    BY <2>1 DEF IInv, FlagsPaid
  <2> QED BY <1>3, <1>4, <1>5, <1>6, <2>2
<1>12. VoidsPaid'
  BY <1>3, <1>5 DEF IInv, VoidsPaid
<1>13. NoneSeen'
  BY <1>3, <1>5, <1>6 DEF IInv, NoneSeen
<1>14. WithdrawnOnceSeen'
  BY <1>5, <1>6 DEF IInv, WithdrawnOnceSeen
<1> QED BY <1>7, <1>8, <1>9, <1>10, <1>11, <1>12, <1>13, <1>14 DEF IInv

\* Only the rows of flags that nobody holds change, and none of them becomes
\* a withdrawn one.
LEMMA FlagMoves ==
    ASSUME ModerationConstants, IInv, NEW f \in Flags, NEW row \in FlagRow,
           FlagFree(f) \/ flag[f].status # "open",
           flag[f].status # "withdrawn", row.status # "withdrawn",
           row.entry \in {Other} \cup Entries,
           flag' = [flag EXCEPT ![f] = row], UNCHANGED <<clock, ledger, work>>
    PROVE  IInv'
<1>1. Voids' = Voids /\ Entries' = Entries
  BY DEF Voids, Entries
<1>2. \A g \in Flags : flag'[g] = IF g = f THEN row ELSE flag[g]
  BY DEF IInv, Typed
<1>3. \A m \in Moderators : work[m] # Idle => work[m].flag # f /\ work[m].flag \in Flags
  BY DEF FlagFree, IInv, WorkHolds, Typed, WorkRow
<1>4. Typed'
  BY DEF IInv, Typed
<1>5. FlagsPoint'
  BY <1>1, <1>2 DEF IInv, FlagsPoint
<1>6. WorkHolds'
  BY <1>1, <1>2, <1>3 DEF IInv, WorkHolds
<1>7. VoidsName'
  BY <1>1 DEF IInv, VoidsName
<1>8. FlagsPaid'
  <2> SUFFICES ASSUME NEW g \in Flags, flag'[g].status = "withdrawn"
               PROVE  \E n \in Voids, k \in DOMAIN ledger :
                          /\ flag[g].void = Ids[n]
                          /\ flag[g].entry = Ids[k]
                          /\ ledger[n].of = Ids[k]
                          /\ ledger[n].points + ledger[k].points = 0
    BY <1>1, <1>2 DEF FlagsPaid
  <2>1. flag[g].status = "withdrawn"
    BY <1>2
  <2> QED BY <2>1 DEF IInv, FlagsPaid
<1>9. VoidsPaid'
  BY <1>1, <1>2 DEF IInv, VoidsPaid
<1>10. NoneSeen'
  BY <1>1, <1>2, <1>3 DEF IInv, NoneSeen
<1>11. WithdrawnOnceSeen'
  BY <1>1 DEF IInv, WithdrawnOnceSeen
<1> QED BY <1>4, <1>5, <1>6, <1>7, <1>8, <1>9, <1>10, <1>11 DEF IInv

LEMMA Raises ==
    ASSUME ModerationConstants, IInv, NEW f \in Flags,
           NEW entry \in {Other} \cup Entries, raise_flag(f, entry)
    PROVE  IInv'
<1> DEFINE row == [status |-> "open", entry |-> entry, void |-> 0]
<1>1. entry \in Nat
  BY Place DEF Entries, Other, IInv
<1>3. row \in FlagRow
  BY <1>1 DEF FlagRow
<1> QED BY <1>3, FlagMoves DEF raise_flag

LEMMA Resolves ==
    ASSUME ModerationConstants, IInv, NEW f \in Flags,
           NEW status \in {"dismissed", "upheld"}, resolve_flag(f, status)
    PROVE  IInv'
<1> DEFINE row == [status |-> status, entry |-> flag[f].entry, void |-> flag[f].void]
<1>1. flag[f] \in FlagRow
  BY DEF IInv, Typed
<1>2. [flag[f] EXCEPT !.status = status] = row
  BY <1>1 DEF FlagRow
<1>3. row \in FlagRow
  BY <1>1 DEF FlagRow
<1>4. row.entry \in {Other} \cup Entries
  BY DEF IInv, FlagsPoint
<1>5. flag' = [flag EXCEPT ![f] = row]
  BY <1>2 DEF resolve_flag
<1> QED BY <1>3, <1>4, <1>5, FlagMoves DEF resolve_flag

\* Whoever reads finds no void of the award among those it sees.
LEMMA Reads ==
    ASSUME ModerationConstants, IInv, NEW m \in Moderators, NEW f \in Flags, read_award(m, f)
    PROVE  IInv'
<1> DEFINE id == flag[f].entry
<1>1. PICK also \in SUBSET (Entries \ {id}) :
          work' = [work EXCEPT ![m] = [pc |-> "withdraw", flag |-> f, names |-> also,
                                       seen |-> DOMAIN ledger]]
  BY DEF read_award
<1> DEFINE w == [pc |-> "withdraw", flag |-> f, names |-> also, seen |-> DOMAIN ledger]
<1>2. /\ UNCHANGED <<clock, ledger, flag>>
      /\ FlagFree(f)
      /\ flag[f].status = "open"
      /\ id # Other
      /\ ~ already_void(id)
  BY DEF read_award
<1>3. id \in Entries
  BY <1>2 DEF IInv, FlagsPoint
<1>4. \A k \in Moderators : work'[k] = IF k = m THEN w ELSE work[k]
  BY <1>1 DEF IInv, Typed
<1>5. w # Idle
  BY DEF Idle
<1>6. Voids' = Voids /\ Entries' = Entries
  BY <1>2 DEF Voids, Entries
<1>7. w \in WorkRow
  <2>1. also \in SUBSET Nat
    BY Place DEF Entries, IInv
  <2>2. DOMAIN ledger \in SUBSET Nat
    BY DEF IInv, Typed
  <2> QED BY <2>1, <2>2 DEF WorkRow
<1>8. ASSUME NEW n \in Voids
      PROVE  ledger[n].of # id
  <2>1. SUFFICES ASSUME ledger[n].of = id PROVE FALSE
    OBVIOUS
  <2>2. PICK k \in DOMAIN ledger : /\ id = Ids[k]
                                   /\ ledger[n].user = ledger[k].user
                                   /\ ledger[n].pr = ledger[k].pr
    BY <2>1 DEF IInv, VoidsName
  <2>3. Entry(id) = ledger[k] /\ id \in Nat
    BY <2>2, Place DEF IInv
  <2>4. Named(id, n)
    BY <2>1, <2>3, NamesItself DEF IInv, VoidsName
  <2> QED BY <1>2, <2>2, <2>3, <2>4 DEF already_void
<1> HIDE DEF w
<1>9. w.flag = f /\ w.seen = DOMAIN ledger
  BY DEF w
<1>10. Typed'
  BY <1>1, <1>2, <1>7 DEF IInv, Typed, w
<1>11. FlagsPoint' /\ FlagsPaid' /\ VoidsName' /\ VoidsPaid' /\ WithdrawnOnceSeen'
  <2>1. FlagsPoint' /\ FlagsPaid'
    BY <1>2, <1>6 DEF IInv, FlagsPoint, FlagsPaid
  <2>2. VoidsName'
    BY <1>2, <1>6 DEF IInv, VoidsName
  <2> QED BY <1>2, <1>6, <2>1, <2>2 DEF IInv, VoidsPaid, WithdrawnOnceSeen
<1>12. WorkHolds'
  BY <1>2, <1>3, <1>4, <1>5, <1>6, <1>9 DEF IInv, WorkHolds, FlagFree
<1>13. NoneSeen'
  BY <1>2, <1>4, <1>6, <1>8, <1>9 DEF IInv, NoneSeen
<1> QED BY <1>10, <1>11, <1>12, <1>13 DEF IInv

\* A void is worth minus its award, of the same person, pull request and
\* category.
LEMMA WritesVoid ==
    ASSUME ModerationConstants, IInv, NEW m \in Moderators, withdraw_award(m)
    PROVE  \E e \in VoidRow, k \in DOMAIN ledger :
               /\ ledger' = Append(ledger, e)
               /\ flag[work[m].flag].entry = Ids[k] /\ Entry(Ids[k]) = ledger[k]
               /\ e.kind = "void" /\ e.of = Ids[k] /\ e.user = ledger[k].user
               /\ e.pr = ledger[k].pr /\ e.category = ledger[k].category
               /\ e.points + ledger[k].points = 0
               /\ Ids[k] \in e.names /\ e.seen = work[m].seen
<1> DEFINE id == flag[work[m].flag].entry
           e == record_adjustment(m, Entry(id))
<1>1. ledger' = Append(ledger, e)
  BY DEF withdraw_award
<1>2. work[m] \in WorkRow /\ work[m] # Idle
  BY DEF withdraw_award, IInv, Typed, Idle
<1>3. id \in Entries
  BY <1>2 DEF IInv, WorkHolds, WorkRow
<1>4. PICK k \in DOMAIN ledger : id = Ids[k] /\ Entry(id) = ledger[k]
  BY <1>3, HasPlace DEF IInv
<1>5. id \in Nat
  BY <1>4, Place DEF IInv
<1>6. /\ ledger[k].user \in Users
      /\ ledger[k].pr \in Pulls
      /\ ledger[k].points \in Int
      /\ ledger[k].category \in Kinds
  BY DEF IInv, Typed, AwardRow, VoidRow
<1>7. e = [kind |-> "void", user |-> ledger[k].user, pr |-> ledger[k].pr,
           points |-> -ledger[k].points, category |-> ledger[k].category,
           created |-> clock, of |-> id, names |-> work[m].names \cup {id},
           seen |-> work[m].seen]
  BY <1>4 DEF record_adjustment, CategoryOf
<1>8. e \in VoidRow
  BY <1>2, <1>5, <1>6, <1>7 DEF VoidRow, WorkRow, IInv, Typed
<1> HIDE DEF e
<1>9. /\ e.kind = "void" /\ e.of = id /\ id \in e.names
      /\ e.user = ledger[k].user /\ e.pr = ledger[k].pr /\ e.category = ledger[k].category
      /\ e.points + ledger[k].points = 0
      /\ e.seen = work[m].seen
  BY <1>6, <1>7
<1> QED BY <1>1, <1>4, <1>8, <1>9

\* The void names the award and its flag names the void.
LEMMA Withdraws ==
    ASSUME ModerationConstants, IInv, NEW m \in Moderators, withdraw_award(m)
    PROVE  IInv'
<1> DEFINE f == work[m].flag
           id == flag[f].entry
           new == Len(ledger) + 1
           row == [status |-> "withdrawn", entry |-> id, void |-> Ids[new]]
<1>1. /\ Len(ledger) < Len(Ids)
      /\ flag' = [flag EXCEPT ![f] = row]
      /\ work' = [work EXCEPT ![m] = Idle]
      /\ clock' = clock
  BY DEF withdraw_award
<1>2. work[m] \in WorkRow /\ work[m] # Idle
  BY DEF withdraw_award, IInv, Typed, Idle
<1>3. /\ f \in Flags
      /\ flag[f].status = "open"
      /\ id \in Entries
      /\ work[m].seen \subseteq DOMAIN ledger
      /\ \A k \in Moderators : work[k] # Idle /\ work[k].flag = f => k = m
  BY <1>2 DEF IInv, WorkHolds, WorkRow
<1>8. PICK e \in VoidRow, k \in DOMAIN ledger :
          /\ ledger' = Append(ledger, e)
          /\ id = Ids[k] /\ Entry(Ids[k]) = ledger[k]
          /\ e.kind = "void" /\ e.of = Ids[k] /\ e.user = ledger[k].user
          /\ e.pr = ledger[k].pr /\ e.category = ledger[k].category
          /\ e.points + ledger[k].points = 0
          /\ Ids[k] \in e.names /\ e.seen = work[m].seen
  BY WritesVoid
<1>4. id = Ids[k] /\ Entry(id) = ledger[k]
  BY <1>8
<1>5. id \in Nat
  BY <1>4, Place DEF IInv
<1>9. /\ e.kind = "void"
      /\ e.of = id
      /\ id \in e.names
      /\ e.user = ledger[k].user
      /\ e.pr = ledger[k].pr
      /\ e.points + ledger[k].points = 0
      /\ e.seen = work[m].seen
  BY <1>8
<1>10. /\ ledger' \in Seq(AwardRow \cup VoidRow)
       /\ Len(ledger') <= Len(Ids)
       /\ DOMAIN ledger' = DOMAIN ledger \cup {new}
       /\ new \notin DOMAIN ledger
       /\ \A n \in DOMAIN ledger : n \in 1..(new - 1)
       /\ ledger'[new] = e
       /\ \A n \in DOMAIN ledger : ledger'[n] = ledger[n]
       /\ Voids' = Voids \cup {n \in {new} : e.kind = "void"}
       /\ Entries' = Entries \cup {Ids[new]}
  BY <1>1, <1>8, Grows DEF IInv
<1>11. Voids' = Voids \cup {new}
  BY <1>9, <1>10
<1>12. \A n \in Voids : n \in DOMAIN ledger /\ n # new /\ ledger'[n] = ledger[n]
  BY <1>10 DEF Voids
<1>13. new \in DOMAIN Ids /\ Ids[new] \in Nat
  BY <1>1 DEF IInv, Typed, ModerationConstants
<1>14. row \in FlagRow
  BY <1>5, <1>13 DEF FlagRow
<1>15. \A g \in Flags : flag'[g] = IF g = f THEN row ELSE flag[g]
  BY <1>1 DEF IInv, Typed
<1>16. \A j \in Moderators : work'[j] = IF j = m THEN Idle ELSE work[j]
  BY <1>1 DEF IInv, Typed
<1>17. \A n \in DOMAIN ledger : Ids[n] # Ids[new]
  BY <1>10, <1>13, IdsApart, Place DEF IInv
<1> HIDE DEF row
<1>18. row.status = "withdrawn" /\ row.entry = id /\ row.void = Ids[new]
  BY DEF row
<1>19. Typed'
  BY <1>1, <1>3, <1>10, <1>14 DEF IInv, Typed, row
<1>20. FlagsPoint'
  BY <1>3, <1>10, <1>15, <1>18 DEF IInv, FlagsPoint
<1>21. WorkHolds'
  <2>1. SUFFICES ASSUME NEW j \in Moderators, work'[j] # Idle
                 PROVE  /\ flag'[work'[j].flag].status = "open"
                        /\ flag'[work'[j].flag].entry \in Entries'
                        /\ work'[j].seen \subseteq DOMAIN ledger'
                        /\ \A i \in Moderators :
                               work'[i] # Idle /\ work'[i].flag = work'[j].flag => i = j
    BY DEF WorkHolds
  <2>2. j # m /\ work'[j] = work[j]
    BY <1>16, <2>1
  <2>3. work[j].flag # f /\ work[j].flag \in Flags
    BY <1>3, <2>1, <2>2 DEF IInv, Typed, WorkRow
  <2>4. /\ flag[work[j].flag].status = "open"
        /\ flag[work[j].flag].entry \in Entries
        /\ work[j].seen \subseteq DOMAIN ledger
        /\ \A i \in Moderators : work[i] # Idle /\ work[i].flag = work[j].flag => i = j
    BY <2>1, <2>2 DEF IInv, WorkHolds
  <2> QED BY <1>10, <1>15, <1>16, <2>2, <2>3, <2>4
<1>22. VoidsName'
  <2>1. SUFFICES ASSUME NEW n \in Voids'
                 PROVE  /\ \E l \in DOMAIN ledger' : /\ ledger'[n].of = Ids[l]
                                                     /\ ledger'[n].user = ledger'[l].user
                                                     /\ ledger'[n].pr = ledger'[l].pr
                        /\ ledger'[n].of \in ledger'[n].names
                        /\ ledger'[n].seen \subseteq 1..(n - 1)
    BY DEF VoidsName
  <2>2. CASE n \in Voids
    <3>1. PICK l \in DOMAIN ledger : /\ ledger[n].of = Ids[l]
                                     /\ ledger[n].user = ledger[l].user
                                     /\ ledger[n].pr = ledger[l].pr
      BY <2>2 DEF IInv, VoidsName
    <3>2. ledger[n].of \in ledger[n].names /\ ledger[n].seen \subseteq 1..(n - 1)
      BY <2>2 DEF IInv, VoidsName
    <3>3. ledger'[n] = ledger[n] /\ l \in DOMAIN ledger' /\ ledger'[l] = ledger[l]
      BY <1>10, <1>12, <2>2
    <3> QED BY <3>1, <3>2, <3>3
  <2>3. CASE n = new
    BY <1>3, <1>4, <1>9, <1>10, <2>3
  <2> QED BY <1>11, <2>1, <2>2, <2>3
<1>23. FlagsPaid'
  <2>1. SUFFICES ASSUME NEW g \in Flags, flag'[g].status = "withdrawn"
                 PROVE  \E n \in Voids', l \in DOMAIN ledger' :
                            /\ flag'[g].void = Ids[n]
                            /\ flag'[g].entry = Ids[l]
                            /\ ledger'[n].of = Ids[l]
                            /\ ledger'[n].points + ledger'[l].points = 0
    BY DEF FlagsPaid
  <2>2. CASE g = f
    <3>1. new \in Voids' /\ k \in DOMAIN ledger'
      BY <1>10, <1>11
    <3>2. /\ flag'[g].void = Ids[new]
          /\ flag'[g].entry = Ids[k]
          /\ ledger'[new].of = Ids[k]
          /\ ledger'[new].points + ledger'[k].points = 0
      BY <1>3, <1>4, <1>9, <1>10, <1>15, <1>18, <2>2
    <3> QED BY <3>1, <3>2
  <2>3. CASE g # f
    <3>1. PICK n \in Voids, l \in DOMAIN ledger :
              /\ flag[g].void = Ids[n]
              /\ flag[g].entry = Ids[l]
              /\ ledger[n].of = Ids[l]
              /\ ledger[n].points + ledger[l].points = 0
      BY <1>15, <2>1, <2>3 DEF IInv, FlagsPaid
    <3>2. n \in Voids' /\ l \in DOMAIN ledger'
      BY <1>10, <1>11
    <3>3. flag'[g] = flag[g] /\ ledger'[n] = ledger[n] /\ ledger'[l] = ledger[l]
      BY <1>10, <1>12, <1>15, <2>3
    <3> QED BY <3>1, <3>2, <3>3
  <2> QED BY <2>2, <2>3
<1>24. VoidsPaid'
  <2>1. SUFFICES ASSUME NEW n \in Voids'
                 PROVE  \E g \in Flags :
                            /\ flag'[g].status = "withdrawn"
                            /\ flag'[g].void = Ids[n]
                            /\ \A h \in Flags : flag'[h].status = "withdrawn" /\ flag'[h].void = Ids[n]
                                                   => h = g
    BY DEF VoidsPaid
  <2>2. CASE n \in Voids
    <3>1. PICK g \in Flags : /\ flag[g].status = "withdrawn"
                             /\ flag[g].void = Ids[n]
                             /\ \A h \in Flags : flag[h].status = "withdrawn" /\ flag[h].void = Ids[n]
                                                    => h = g
      BY <2>2 DEF IInv, VoidsPaid
    <3>2. g # f /\ Ids[n] # Ids[new]
      BY <1>3, <1>12, <1>17, <2>2, <3>1
    <3>3. flag'[g].status = "withdrawn" /\ flag'[g].void = Ids[n]
      BY <1>15, <3>1, <3>2
    <3>4. ASSUME NEW h \in Flags, flag'[h].status = "withdrawn", flag'[h].void = Ids[n]
          PROVE  h = g
      <4>1. h # f
        BY <1>15, <1>18, <3>2, <3>4
      <4>2. flag[h].status = "withdrawn" /\ flag[h].void = Ids[n]
        BY <1>15, <3>4, <4>1
      <4> QED BY <3>1, <4>2
    <3> QED BY <3>3, <3>4
  <2>3. CASE n = new
    <3>1. ASSUME NEW g \in Flags, flag[g].status = "withdrawn" PROVE flag[g].void # Ids[new]
      <4>1. PICK l \in Voids : flag[g].void = Ids[l]
        BY <3>1 DEF IInv, FlagsPaid
      <4>2. l \in DOMAIN ledger
        BY <1>12
      <4> QED BY <1>17, <4>1, <4>2
    <3>2. flag'[f].status = "withdrawn" /\ flag'[f].void = Ids[n]
      BY <1>3, <1>15, <1>18, <2>3
    <3>3. \A h \in Flags : flag'[h].status = "withdrawn" /\ flag'[h].void = Ids[n] => h = f
      BY <1>15, <2>3, <3>1
    <3> QED BY <1>3, <3>2, <3>3
  <2> QED BY <1>11, <2>1, <2>2, <2>3
<1>25. NoneSeen'
  <2>1. SUFFICES ASSUME NEW j \in Moderators, work'[j] # Idle,
                        NEW n \in Voids', n \in work'[j].seen
                 PROVE  ledger'[n].of # flag'[work'[j].flag].entry
    BY DEF NoneSeen
  <2>2. j # m /\ work'[j] = work[j]
    BY <1>16, <2>1
  <2>3. work[j].flag # f /\ work[j].flag \in Flags
    BY <1>3, <2>1, <2>2 DEF IInv, Typed, WorkRow
  <2>4. n \in Voids
    BY <1>10, <1>11, <2>1, <2>2 DEF IInv, WorkHolds
  <2> QED BY <1>12, <1>15, <2>1, <2>2, <2>3, <2>4 DEF IInv, NoneSeen
<1>26. WithdrawnOnceSeen'
  <2>1. SUFFICES ASSUME NEW n \in Voids', NEW v \in Voids', n # v,
                        ledger'[n].of = ledger'[v].of
                 PROVE  n \notin ledger'[v].seen
    BY DEF WithdrawnOnceSeen
  <2>2. CASE n \in Voids /\ v \in Voids
    BY <1>12, <2>1, <2>2 DEF IInv, WithdrawnOnceSeen
  <2>3. CASE v = new
    BY <1>2, <1>9, <1>10, <1>11, <1>12, <2>1, <2>3 DEF IInv, NoneSeen
  <2>4. CASE n = new /\ v \in Voids
    <3>1. ledger[v].seen \subseteq 1..(v - 1) /\ v \in 1..(new - 1)
      BY <1>10, <1>12, <2>4 DEF IInv, VoidsName
    <3> QED BY <1>12, <2>4, <3>1
  <2> QED BY <1>11, <2>1, <2>2, <2>3, <2>4
<1> QED BY <1>19, <1>20, <1>21, <1>22, <1>23, <1>24, <1>25, <1>26 DEF IInv

LEMMA Steps ==
    ASSUME ModerationConstants, IInv, [Next]_vars
    PROVE  IInv'
<1>1. CASE Tick
  BY <1>1, Ticks
<1>2. CASE earn
  BY <1>2, Earns
<1>3. ASSUME NEW f \in Flags, NEW entry \in {Other} \cup Entries, raise_flag(f, entry)
      PROVE  IInv'
  BY <1>3, Raises
<1>4. ASSUME NEW f \in Flags, NEW status \in {"dismissed", "upheld"}, resolve_flag(f, status)
      PROVE  IInv'
  BY <1>4, Resolves
<1>5. ASSUME NEW f \in Flags, NEW m \in Moderators, read_award(m, f)
      PROVE  IInv'
  BY <1>5, Reads
<1>6. ASSUME NEW m \in Moderators, withdraw_award(m)
      PROVE  IInv'
  BY <1>6, Withdraws
<1>7. CASE UNCHANGED vars
  <2>1. clock' \in Nat
    BY <1>7 DEF vars, IInv, Typed
  <2> QED BY <1>7, <2>1, Unmoved DEF vars
<1> QED BY <1>1, <1>2, <1>3, <1>4, <1>5, <1>6, <1>7 DEF Next

-----------------------------------------------------------------------------
(* What it comes to.                                                       *)

LEMMA PairedFollows ==
    ASSUME ModerationConstants, IInv
    PROVE  Paired
<1>1. ASSUME NEW f \in Flags, flag[f].status = "withdrawn"
      PROVE  /\ flag[f].void \in Entries
             /\ Entry(flag[f].void).of = flag[f].entry
             /\ Entry(flag[f].void).points + Entry(flag[f].entry).points = 0
  <2>1. PICK n \in Voids, k \in DOMAIN ledger :
            /\ flag[f].void = Ids[n]
            /\ flag[f].entry = Ids[k]
            /\ ledger[n].of = Ids[k]
            /\ ledger[n].points + ledger[k].points = 0
    BY <1>1 DEF IInv, FlagsPaid
  <2>2. n \in DOMAIN ledger
    BY DEF Voids
  <2>3. Ids[n] \in Entries /\ Entry(Ids[n]) = ledger[n] /\ Entry(Ids[k]) = ledger[k]
    BY <2>2, Place DEF IInv
  <2> QED BY <2>1, <2>3
<1>2. ASSUME NEW n \in Voids
      PROVE  Cardinality({f \in Flags : flag[f].status = "withdrawn" /\ flag[f].void = Ids[n]}) = 1
  <2>1. PICK f \in Flags : {g \in Flags : flag[g].status = "withdrawn" /\ flag[g].void = Ids[n]} = {f}
    BY DEF IInv, VoidsPaid
  <2> QED BY <2>1, FS_Singleton
<1> QED BY <1>1, <1>2 DEF Paired

\* The invariant above holds of every state (resolve_flag, _withdraw_award).
THEOREM Inductive == Spec => []IInv
<1>1. Init => IInv
  BY ModerationConstants, Starts
<1>2. IInv /\ [Next]_vars => IInv'
  BY ModerationConstants, Steps
<1> QED BY <1>1, <1>2, PTL DEF Spec

\* Every withdrawal is one flag's, and takes away exactly what was awarded,
\* for any moderators working beside each other.
THEOREM WithdrawalsPaired == Spec => []Paired
<1>1. IInv => Paired
  BY ModerationConstants, PairedFollows
<1> QED BY <1>1, Inductive, PTL

\* Nobody who can see a void of an award writes another one for it.
THEOREM NotWithdrawnAgain == Spec => []WithdrawnOnceSeen
<1>1. IInv => WithdrawnOnceSeen
  BY DEF IInv
<1> QED BY <1>1, Inductive, PTL
-----------------------------------------------------------------------------
(* What a withdrawal takes away.                                           *)

\* What is about to be withdrawn is worth something,
WorkPositive ==
    \A m \in Moderators : work[m] # Idle => Entry(flag[work[m].flag].entry).points > 0

\* and what was withdrawn is an award of the same person, pull request and
\* category, and as much.
VoidsMatch ==
    \A n \in Voids : \E k \in DOMAIN ledger \ Voids :
        /\ ledger[n].of = Ids[k]
        /\ ledger[n].user = ledger[k].user
        /\ ledger[n].pr = ledger[k].pr
        /\ ledger[n].category = ledger[k].category
        /\ ledger[n].points + ledger[k].points = 0

Matched == WorkPositive /\ VoidsMatch

\* An award is worth something; a void, what it takes away.
LEMMA AwardIsPositive ==
    ASSUME Typed, Matched, NEW n \in DOMAIN ledger
    PROVE  /\ ledger[n].points \in Int
           /\ n \notin Voids <=> ledger[n].points > 0
<1>1. ledger[n] \in AwardRow \cup VoidRow
  BY DEF Typed
<1>2. \A k \in DOMAIN ledger \ Voids : ledger[k].points \in Nat \ {0}
  BY DEF Typed, Voids, AwardRow, VoidRow
<1>3. n \in Voids => ~ ledger[n].points > 0
  BY <1>1, <1>2 DEF Matched, VoidsMatch, AwardRow, VoidRow
<1> QED BY <1>1, <1>2, <1>3 DEF AwardRow, VoidRow

\* Every step keeps it: a moderator reads an award that is worth something.
LEMMA MatchedKept ==
    ASSUME ModerationConstants, IInv, Matched, [Next]_vars
    PROVE  Matched'
<1>1. ASSUME UNCHANGED ledger PROVE VoidsMatch' /\ \A id \in Nat : Entry(id)' = Entry(id)
  <2>1. \A id \in Nat : Entry(id)' = Entry(id)
    BY <1>1, Zenon DEF Entry
  <2> QED BY <1>1, <2>1 DEF Matched, VoidsMatch, Voids
<1>8. \A j \in Moderators : work[j] # Idle =>
          /\ work[j].flag \in Flags
          /\ flag[work[j].flag].entry \in Entries
          /\ flag[work[j].flag].entry \in Nat
          /\ Entry(flag[work[j].flag].entry).points > 0
  BY Place DEF IInv, Typed, WorkRow, WorkHolds, Matched, WorkPositive, Entries
<1>2. CASE earn
  <2>1. PICK e \in AwardRow : ledger' = Append(ledger, e)
    BY <1>2, EarnsAward
  <2>2. Len(ledger) < Len(Ids) /\ UNCHANGED <<flag, work>>
    BY <1>2 DEF earn
  <2>3. /\ DOMAIN ledger' = DOMAIN ledger \cup {Len(ledger) + 1}
        /\ \A n \in DOMAIN ledger : ledger'[n] = ledger[n]
        /\ Voids' = Voids \cup {n \in {Len(ledger) + 1} : e.kind = "void"}
        /\ \A id \in Entries : Entry(id)' = Entry(id)
    BY <2>1, <2>2, Grows DEF IInv
  <2>4. Voids' = Voids
    BY <2>1, <2>3 DEF AwardRow
  <2>5. \A n \in Voids : n \in DOMAIN ledger
    BY DEF Voids
  <2>6. VoidsMatch'
    BY <2>3, <2>4, <2>5 DEF Matched, VoidsMatch
  <2>7. ASSUME NEW m \in Moderators, work[m] # Idle
        PROVE  Entry(flag[work[m].flag].entry)'.points > 0
    <3>1. PICK id \in Entries : id = flag[work[m].flag].entry /\ Entry(id).points > 0
      BY <1>8, <2>7
    <3>2. Entry(id)' = Entry(id)
      BY <2>3
    <3> QED BY <2>2, <3>1, <3>2
  <2> QED BY <2>2, <2>6, <2>7 DEF Matched, WorkPositive
<1>3. ASSUME UNCHANGED <<ledger, work>>,
             \A m \in Moderators : work[m] # Idle => flag'[work[m].flag] = flag[work[m].flag]
      PROVE  Matched'
  <2>1. ASSUME NEW m \in Moderators, work[m] # Idle
        PROVE  Entry(flag[work[m].flag].entry)'.points > 0
    <3>1. PICK id \in Nat : id = flag[work[m].flag].entry /\ Entry(id).points > 0
      BY <1>8, <2>1
    <3>2. Entry(id)' = Entry(id)
      BY <1>1, <1>3
    <3> QED BY <1>3, <2>1, <3>1, <3>2
  <2> QED BY <1>1, <1>3, <2>1 DEF Matched, WorkPositive
<1>4. ASSUME NEW f \in Flags, NEW entry \in {Other} \cup Entries, raise_flag(f, entry)
      PROVE  Matched'
  <2>1. \A m \in Moderators : work[m] # Idle => work[m].flag # f
    BY <1>4 DEF raise_flag, IInv, WorkHolds
  <2>2. \A g \in Flags : g # f => flag'[g] = flag[g]
    BY <1>4 DEF raise_flag, IInv, Typed
  <2> QED BY <1>3, <1>4, <1>8, <2>1, <2>2 DEF raise_flag
<1>5. ASSUME NEW f \in Flags, NEW status \in {"dismissed", "upheld"}, resolve_flag(f, status)
      PROVE  Matched'
  <2>1. \A m \in Moderators : work[m] # Idle => work[m].flag # f
    BY <1>5 DEF resolve_flag, FlagFree
  <2>2. \A g \in Flags : g # f => flag'[g] = flag[g]
    BY <1>5 DEF resolve_flag, IInv, Typed
  <2> QED BY <1>3, <1>5, <1>8, <2>1, <2>2 DEF resolve_flag
<1>6. ASSUME NEW f \in Flags, NEW m \in Moderators, read_award(m, f)
      PROVE  Matched'
  <2>1. UNCHANGED <<ledger, flag>> /\ Entry(flag[f].entry).points > 0
    BY <1>6 DEF read_award
  <2>2. \A j \in Moderators : j # m => work'[j] = work[j]
    BY <1>6 DEF read_award, IInv, Typed
  <2>3. work'[m].flag = f
    BY <1>6 DEF read_award, IInv, Typed
  <2>4. flag[f].entry \in Nat
    BY DEF IInv, Typed, FlagRow
  <2>5. ASSUME NEW j \in Moderators, work'[j] # Idle
        PROVE  Entry(flag[work[j].flag].entry)'.points > 0
    <3>1. PICK id \in Nat : id = flag[work'[j].flag].entry /\ Entry(id).points > 0
      <4>1. CASE j = m
        BY <2>1, <2>3, <2>4, <4>1
      <4>2. CASE j # m
        BY <1>8, <2>2, <2>5, <4>2
      <4> QED BY <4>1, <4>2
    <3>2. Entry(id)' = Entry(id)
      BY <1>1, <2>1
    <3> QED BY <2>1, <3>1, <3>2
  <2> QED BY <1>1, <2>1, <2>5 DEF Matched, WorkPositive
<1>7. ASSUME NEW m \in Moderators, withdraw_award(m)
      PROVE  Matched'
  <2> DEFINE new == Len(ledger) + 1
  <2>1. PICK e \in VoidRow, k \in DOMAIN ledger :
            /\ ledger' = Append(ledger, e)
            /\ flag[work[m].flag].entry = Ids[k] /\ Entry(Ids[k]) = ledger[k]
            /\ e.kind = "void" /\ e.of = Ids[k] /\ e.user = ledger[k].user
            /\ e.pr = ledger[k].pr /\ e.category = ledger[k].category
            /\ e.points + ledger[k].points = 0
    BY <1>7, WritesVoid
  <2>2. /\ Len(ledger) < Len(Ids) /\ work' = [work EXCEPT ![m] = Idle]
        /\ \A g \in Flags : flag'[g].entry = flag[g].entry
    BY <1>7 DEF withdraw_award, IInv, Typed
  <2>3. /\ DOMAIN ledger' = DOMAIN ledger \cup {new}
        /\ new \notin DOMAIN ledger
        /\ ledger'[new] = e
        /\ \A n \in DOMAIN ledger : ledger'[n] = ledger[n]
        /\ Voids' = Voids \cup {n \in {new} : e.kind = "void"}
        /\ \A id \in Entries : Entry(id)' = Entry(id)
    BY <2>1, <2>2, Grows DEF IInv
  <2>4. Voids' = Voids \cup {new} /\ Voids \subseteq DOMAIN ledger
    BY <2>1, <2>3 DEF Voids
  <2>5. k \notin Voids
    <3>1. work[m] # Idle
      BY <1>7 DEF withdraw_award, Idle
    <3>2. ledger[k].points > 0
      BY <1>8, <2>1, <3>1
    <3> QED BY <3>2, AwardIsPositive DEF IInv
  <2> HIDE DEF new
  <2>6. ASSUME NEW n \in Voids'
        PROVE  \E l \in DOMAIN ledger' \ Voids' :
                   /\ ledger'[n].of = Ids[l]
                   /\ ledger'[n].user = ledger'[l].user
                   /\ ledger'[n].pr = ledger'[l].pr
                   /\ ledger'[n].category = ledger'[l].category
                   /\ ledger'[n].points + ledger'[l].points = 0
    <3>1. CASE n = new
      <4>1. k \in DOMAIN ledger' \ Voids' /\ ledger'[k] = ledger[k]
        BY <2>3, <2>4, <2>5
      <4> QED BY <2>1, <2>3, <3>1, <4>1
    <3>2. CASE n \in Voids
      <4>1. PICK l \in DOMAIN ledger \ Voids :
                /\ ledger[n].of = Ids[l]
                /\ ledger[n].user = ledger[l].user
                /\ ledger[n].pr = ledger[l].pr
                /\ ledger[n].category = ledger[l].category
                /\ ledger[n].points + ledger[l].points = 0
        BY <3>2 DEF Matched, VoidsMatch
      <4>2. l \in DOMAIN ledger' \ Voids' /\ ledger'[l] = ledger[l] /\ ledger'[n] = ledger[n]
        BY <2>3, <2>4, <3>2
      <4> QED BY <4>1, <4>2
    <3> QED BY <2>4, <3>1, <3>2
  <2>7. ASSUME NEW j \in Moderators, work'[j] # Idle
        PROVE  Entry(flag[work[j].flag].entry)'.points > 0
    <3>1. work'[j] = work[j] /\ work[j] # Idle
      BY <2>2, <2>7 DEF IInv, Typed
    <3>2. PICK id \in Entries : id = flag[work[j].flag].entry /\ Entry(id).points > 0
      BY <1>8, <3>1
    <3>3. flag'[work'[j].flag].entry = id
      BY <1>8, <2>2, <3>1, <3>2
    <3>4. Entry(id)' = Entry(id)
      BY <2>3
    <3> QED BY <3>2, <3>3, <3>4
  <2> QED BY <2>6, <2>7 DEF Matched, WorkPositive, VoidsMatch
<1> QED BY <1>2, <1>3, <1>4, <1>5, <1>6, <1>7 DEF Next, vars, Tick

\* The ledger's entries are finitely many.
LEMMA LedgerIsFinite == ASSUME Typed PROVE IsFiniteSet(DOMAIN ledger)
<1>1. DOMAIN ledger = 1..Len(ledger) /\ Len(ledger) \in Nat
  BY DEF Typed
<1>2. IsFiniteSet(1..Len(ledger))
  BY <1>1, FS_Interval
<1> QED BY <1>1, <1>2

\* The voids of an award are as many as the flags withdrawn about it.
LEMMA WithdrawalsAreVoids ==
    ASSUME ModerationConstants, IInv, NEW n \in DOMAIN ledger
    PROVE  Withdrawals(n) = Cardinality({v \in Voids : ledger[v].of = Ids[n]})
<1> DEFINE V == {v \in Voids : ledger[v].of = Ids[n]}
           F == {f \in Flags : flag[f].status = "withdrawn" /\ flag[f].entry = Ids[n]}
           b == [v \in V |-> CHOOSE f \in Flags : /\ flag[f].status = "withdrawn"
                                                 /\ flag[f].void = Ids[v]]
<1>1. Voids \subseteq DOMAIN ledger /\ DOMAIN ledger \subseteq DOMAIN Ids
  BY Place DEF Voids, IInv
<1>2. IsFiniteSet(V)
  <2>1. IsFiniteSet(DOMAIN ledger)
    BY LedgerIsFinite DEF IInv
  <2>2. V \subseteq DOMAIN ledger
    BY <1>1
  <2> QED BY <2>1, <2>2, FS_Subset
<1>3. ASSUME NEW v \in V
      PROVE  b[v] \in Flags /\ flag[b[v]].status = "withdrawn" /\ flag[b[v]].void = Ids[v]
  <2>1. \E f \in Flags : flag[f].status = "withdrawn" /\ flag[f].void = Ids[v]
    BY DEF IInv, VoidsPaid
  <2> QED BY <2>1
<1>4. ASSUME NEW f \in Flags, flag[f].status = "withdrawn", NEW v \in Voids,
             flag[f].void = Ids[v]
      PROVE  flag[f].entry = ledger[v].of
  <2>1. PICK w \in Voids, k \in DOMAIN ledger :
            flag[f].void = Ids[w] /\ flag[f].entry = Ids[k] /\ ledger[w].of = Ids[k]
    BY <1>4 DEF IInv, FlagsPaid
  <2>2. w = v
    BY <1>1, <1>4, <2>1, IdsApart
  <2> QED BY <2>1, <2>2
<1> HIDE DEF b
<1>5. b \in [V -> F]
  <2>1. \A v \in V : b[v] \in F
    BY <1>3, <1>4
  <2> QED BY <2>1 DEF b
<1>6. ASSUME NEW v \in V, NEW w \in V, b[v] = b[w] PROVE v = w
  BY <1>1, <1>3, <1>6, IdsApart
<1>7. ASSUME NEW f \in F PROVE \E v \in V : b[v] = f
  <2>1. PICK v \in Voids : flag[f].void = Ids[v] /\ flag[f].entry = ledger[v].of
    BY <1>4 DEF IInv, FlagsPaid
  <2>2. v \in V
    BY <2>1
  <2>3. b[v] = f
    <3>1. PICK g \in Flags : \A h \in Flags :
              flag[h].status = "withdrawn" /\ flag[h].void = Ids[v] => h = g
      BY DEF IInv, VoidsPaid
    <3>2. b[v] = g
      BY <1>3, <2>2, <3>1
    <3>3. f = g
      BY <2>1, <3>1
    <3> QED BY <3>2, <3>3
  <2> QED BY <2>2, <2>3
<1> HIDE DEF V, F
<1>8. b \in Bijection(V, F)
  BY <1>5, <1>6, <1>7, Fun_IsBij
<1>9. Cardinality(F) = Cardinality(V)
  BY <1>2, <1>8, FS_Bijection DEF ExistsBijection
<1> QED BY <1>9 DEF Withdrawals, V, F

\* Entries among which an award is exactly when its voids are sum to what is
\* left of the awards.
LEMMA SumIsLeft ==
    ASSUME ModerationConstants, IInv, Matched, NEW E \in SUBSET DOMAIN ledger,
           \A v \in Voids, k \in DOMAIN ledger \ Voids :
               /\ ledger[v].of = Ids[k]
               /\ ledger[v].user = ledger[k].user
               /\ ledger[v].pr = ledger[k].pr
               /\ ledger[v].category = ledger[k].category
               => (v \in E <=> k \in E)
    PROVE  Sum(E) = SumLeft(E)
<1> DEFINE points == [n \in DOMAIN ledger |-> ledger[n].points]
           A == E \ Voids
           V == E \cap Voids
           of == [v \in V |-> CHOOSE k \in DOMAIN ledger : ledger[v].of = Ids[k]]
           left == [a \in A |-> points[a] * (1 - Cardinality({v \in V : of[v] = a}))]
           each == [n \in DOMAIN ledger |-> Left(n)]
<1>1. Voids \subseteq DOMAIN ledger /\ DOMAIN ledger \subseteq DOMAIN Ids
  BY Place DEF Voids, IInv
<1>2. IsFiniteSet(E) /\ IsFiniteSet(A) /\ IsFiniteSet(V)
  <2>1. IsFiniteSet(DOMAIN ledger)
    BY LedgerIsFinite DEF IInv
  <2>2. IsFiniteSet(E)
    BY <2>1, FS_Subset
  <2> QED BY <2>2, FS_Subset
<1>3. \A v \in Voids, k \in DOMAIN ledger, l \in DOMAIN ledger :
          ledger[v].of = Ids[k] /\ ledger[v].of = Ids[l] => k = l
  BY <1>1, IdsApart
<1>4. ASSUME NEW v \in V
      PROVE  /\ of[v] \in A /\ ledger[v].of = Ids[of[v]]
             /\ points[v] + points[of[v]] = 0
  <2>1. PICK k \in DOMAIN ledger \ Voids :
            /\ ledger[v].of = Ids[k]
            /\ ledger[v].user = ledger[k].user
            /\ ledger[v].pr = ledger[k].pr
            /\ ledger[v].category = ledger[k].category
            /\ ledger[v].points + ledger[k].points = 0
    BY DEF Matched, VoidsMatch
  <2>2. of[v] \in DOMAIN ledger /\ ledger[v].of = Ids[of[v]]
    BY <2>1
  <2>3. of[v] = k
    BY <1>3, <2>1, <2>2
  <2>4. k \in E
    BY <2>1
  <2>5. points[v] = ledger[v].points /\ points[k] = ledger[k].points
    BY <1>1
  <2> HIDE DEF of, points
  <2> QED BY <2>1, <2>2, <2>3, <2>4, <2>5
<1>5. of \in [V -> A]
  BY <1>4
<1>6. \A n \in DOMAIN ledger : points[n] = ledger[n].points /\ points[n] \in Int
  BY AwardIsPositive DEF IInv
<1>7. A \cap V = {} /\ A \cup V = E
  OBVIOUS
<1>8. ASSUME NEW a \in A PROVE left[a] = each[a]
  <2> DEFINE W == {v \in Voids : ledger[v].of = Ids[a]}
             T == {v \in V : of[v] = a}
  <2>1. ASSUME NEW v \in W PROVE v \in T
    <3>1. PICK k \in DOMAIN ledger \ Voids :
              /\ ledger[v].of = Ids[k]
              /\ ledger[v].user = ledger[k].user
              /\ ledger[v].pr = ledger[k].pr
              /\ ledger[v].category = ledger[k].category
      BY DEF Matched, VoidsMatch
    <3>2. k = a
      BY <1>3, <3>1
    <3>3. v \in V
      BY <3>1, <3>2
    <3>4. of[v] = a
      <4>1. of[v] \in DOMAIN ledger /\ ledger[v].of = Ids[of[v]]
        BY <1>4, <3>3
      <4> HIDE DEF of
      <4> QED BY <1>3, <3>1, <3>2, <4>1
    <3> QED BY <3>3, <3>4
  <2>2. ASSUME NEW v \in T PROVE v \in W
    BY <1>4, <2>2
  <2>3. W = T
    <3> HIDE DEF W, T
    <3> QED BY <2>1, <2>2
  <2>4. left[a] = points[a] * (1 - Cardinality(T))
    OBVIOUS
  <2>5. each[a] = ledger[a].points * (1 - Withdrawals(a))
    BY DEF Left
  <2>6. Withdrawals(a) = Cardinality(W)
    BY WithdrawalsAreVoids
  <2>7. points[a] = ledger[a].points
    BY <1>6
  <2> HIDE DEF W, T, left, each, points
  <2> QED BY <2>3, <2>4, <2>5, <2>6, <2>7
<1>9. /\ \A x \in A \cup V : points[x] \in Int
      /\ \A v \in V : points[v] + points[of[v]] = 0
  BY <1>4, <1>6, <1>7
<1> HIDE DEF points, A, V, of, each
<1>10. SumFunctionOnSet(points, A \cup V) = SumFunctionOnSet(left, A)
  BY <1>2, <1>5, <1>7, <1>9, TakenBack
<1> HIDE DEF left
<1>11. SumFunctionOnSet(left, A) = SumFunctionOnSet(each, A)
  BY <1>2, <1>8, SumSame
<1> QED BY <1>7, <1>10, <1>11 DEF Sum, SumLeft, points, each, A

\* The period that starts with the clock holds every entry.
LEMMA SinceTheStart ==
    ASSUME ModerationConstants, Typed, NEW n \in DOMAIN ledger
    PROVE  Since(n, All)
<1>1. ledger[n] \in AwardRow \cup VoidRow
  BY DEF Typed
<1>2. CASE n \in Voids
  BY <1>1, <1>2 DEF Since, All, Voids, AwardRow, VoidRow
<1>3. CASE n \notin Voids
  <2>1. ledger[n] \in AwardRow
    BY <1>1, <1>3 DEF Voids, VoidRow
  <2>2. ledger[n].merged \in Nat
    BY <2>1 DEF AwardRow, Times, ModerationConstants
  <2> QED BY <1>3, <2>2 DEF Since, All
<1> QED BY <1>2, <1>3

\* In a state whose voids match its withdrawals, the three sums a page shows
\* are those over what is left.
LEMMA ShownFollows ==
    ASSUME ModerationConstants, StandingConstants, IInv, Matched
    PROVE  ShownIsLeft
<1> SUFFICES ASSUME NEW u \in People
             PROVE  /\ user_totals(u).points = SumLeft(EntriesOf(u))
                    /\ user_points_since(u, All) = SumLeft(EntriesOf(u))
                    /\ \A c \in Categories :
                           LET left == SumLeft({n \in EntriesOf(u) : ledger[n].category = c})
                           IN  /\ c \in DOMAIN user_points_by_category(u) <=> left # 0
                               /\ left # 0 => user_points_by_category(u)[c] = left
                               /\ u \in Scored(All, c) <=> left > 0
                    /\ \A p \in PRs : awarded_points(u, p)
                                          = SumLeft({n \in EntriesOf(u) : ledger[n].pr = p})
  BY DEF ShownIsLeft
<1>1. EntriesOf(u) \subseteq DOMAIN ledger
  BY DEF EntriesOf
<1>2. \A n \in DOMAIN ledger : Since(n, All)
  BY SinceTheStart DEF IInv
<1>3. Voids \subseteq DOMAIN ledger
  BY DEF Voids
<1>4. Sum(EntriesOf(u)) = SumLeft(EntriesOf(u))
  <2>1. \A v \in Voids, k \in DOMAIN ledger \ Voids :
            ledger[v].user = ledger[k].user => (v \in EntriesOf(u) <=> k \in EntriesOf(u))
    BY <1>3 DEF EntriesOf
  <2> QED BY <1>1, <2>1, SumIsLeft
<1>5. user_totals(u).points = SumLeft(EntriesOf(u))
  BY <1>4 DEF user_totals
<1>6. user_points_since(u, All) = SumLeft(EntriesOf(u))
  <2>1. {n \in EntriesOf(u) : Since(n, All)} = EntriesOf(u)
    BY <1>1, <1>2
  <2> QED BY <1>4, <2>1 DEF user_points_since
<1>7. ASSUME NEW c \in Categories
      PROVE  LET left == SumLeft({n \in EntriesOf(u) : ledger[n].category = c})
             IN  /\ c \in DOMAIN user_points_by_category(u) <=> left # 0
                 /\ left # 0 => user_points_by_category(u)[c] = left
                 /\ u \in Scored(All, c) <=> left > 0
  <2> DEFINE E == {n \in EntriesOf(u) : ledger[n].category = c}
  <2>1. Sum(E) = SumLeft(E)
    <3>1. \A v \in Voids, k \in DOMAIN ledger \ Voids :
              ledger[v].user = ledger[k].user /\ ledger[v].category = ledger[k].category
              => (v \in E <=> k \in E)
      BY <1>3 DEF EntriesOf
    <3>2. E \in SUBSET DOMAIN ledger
      BY <1>1
    <3> HIDE DEF E
    <3> QED BY <3>1, <3>2, SumIsLeft
  <2>2. Scoring(u, All, c) = E
    <3>1. c # Every
      BY DEF StandingConstants
    <3> QED BY <1>1, <1>2, <3>1 DEF Scoring
  <2>3. /\ c \in DOMAIN user_points_by_category(u) <=> Sum(E) # 0
        /\ Sum(E) # 0 => user_points_by_category(u)[c] = Sum(E)
    BY DEF user_points_by_category
  <2>4. u \in Scored(All, c) <=> Sum(E) > 0
    BY <2>2 DEF Scored
  <2> QED BY <2>1, <2>3, <2>4
<1>8. ASSUME NEW p \in PRs
      PROVE  awarded_points(u, p) = SumLeft({n \in EntriesOf(u) : ledger[n].pr = p})
  <2> DEFINE E == {n \in EntriesOf(u) : ledger[n].pr = p}
  <2>1. \A v \in Voids, k \in DOMAIN ledger \ Voids :
            ledger[v].user = ledger[k].user /\ ledger[v].pr = ledger[k].pr
            => (v \in E <=> k \in E)
    BY <1>3 DEF EntriesOf
  <2>2. E \in SUBSET DOMAIN ledger
    BY <1>1
  <2>3. awarded_points(u, p) = Sum(E)
    BY DEF awarded_points
  <2> HIDE DEF E
  <2>4. awarded_points(u, p) = SumLeft(E)
    BY <2>1, <2>2, <2>3, SumIsLeft
  <2> QED BY <2>4 DEF E
<1> QED BY <1>5, <1>6, <1>7, <1>8

\* What is withdrawn is always an award, and all of it.
THEOREM WithdrawnWhole == Spec => []Matched
<1>1. Init => Matched
  BY DEF Init, Matched, WorkPositive, VoidsMatch, Voids
<1>2. IInv /\ Matched /\ [Next]_vars => Matched'
  BY ModerationConstants, MatchedKept
<1> QED BY <1>1, <1>2, Inductive, PTL DEF Spec

\* Each page's sums are what is left of the awards, for any ledger.
THEOREM ShownAlways == Spec => []ShownIsLeft
<1>1. IInv /\ Matched => ShownIsLeft
  BY ModerationConstants, StandingConstants, ShownFollows
<1> QED BY <1>1, Inductive, WithdrawnWhole, PTL

-----------------------------------------------------------------------------
(* The boards.                                                             *)

\* As many people as there are awards, at most.
LEMMA PeopleAreFinite == ASSUME ModerationConstants PROVE IsFiniteSet(People)
<1> DEFINE user == [n \in DOMAIN Award |-> Award[n].user]
<1>1. DOMAIN Award = 1..Len(Award) /\ Len(Award) \in Nat
  BY DEF ModerationConstants
<1>2. IsFiniteSet(1..Len(Award))
  BY <1>1, FS_Interval
<1>3. IsFiniteSet({user[n] : n \in DOMAIN Award})
  <2> HIDE DEF user
  <2> QED BY <1>1, <1>2, ImageIsFinite
<1>4. {user[n] : n \in DOMAIN Award} = People
  BY DEF People
<1> QED BY <1>3, <1>4

\* Points are integers and merges naturals, whatever they are taken of.
LEMMA ScoresAreNumbers ==
    ASSUME Typed, NEW E \in SUBSET DOMAIN ledger
    PROVE  Sum(E) \in Int /\ Merges(E) \in Nat
<1> DEFINE points == [n \in DOMAIN ledger |-> ledger[n].points]
           pr == [n \in DOMAIN ledger |-> ledger[n].pr]
<1>1. IsFiniteSet(E)
  BY LedgerIsFinite, FS_Subset
<1>2. \A n \in E : points[n] \in Int
  BY DEF Typed, AwardRow, VoidRow
<1>3. SumFunctionOnSet(points, E) \in Int
  <2> HIDE DEF points
  <2> QED BY <1>1, <1>2, SumIsInt
<1>4. IsFiniteSet({pr[n] : n \in E})
  <2> HIDE DEF pr
  <2> QED BY <1>1, ImageIsFinite
<1>5. {pr[n] : n \in E} = {ledger[n].pr : n \in E}
  OBVIOUS
<1>6. Merges(E) \in Nat
  BY <1>4, <1>5, FS_CardinalityType DEF Merges
<1> QED BY <1>3, <1>6 DEF Sum

\* Any two people are placed, one before the other.
LEMMA BeforeIsOrder ==
    ASSUME StandingConstants, Typed, NEW since, NEW category,
           NEW u \in People, NEW v \in People, NEW w \in People
    PROVE  /\ ~ Before(u, u, since, category)
           /\ Before(u, v, since, category) /\ Before(v, w, since, category)
                  => Before(u, w, since, category)
           /\ u # v => Before(u, v, since, category) \/ Before(v, u, since, category)
<1>1. \A x \in People : Scoring(x, since, category) \in SUBSET DOMAIN ledger
  BY DEF Scoring, EntriesOf
<1>2. \A x \in People : /\ Sum(Scoring(x, since, category)) \in Int
                        /\ Merges(Scoring(x, since, category)) \in Nat
  BY <1>1, ScoresAreNumbers
<1>3. /\ \A x \in People : Login[x] \in Nat
      /\ u # v => Login[u] # Login[v]
  BY DEF StandingConstants
<1>4. PICK a \in Int, b \in Int, c \in Int :
          /\ a = Sum(Scoring(u, since, category))
          /\ b = Sum(Scoring(v, since, category))
          /\ c = Sum(Scoring(w, since, category))
  BY <1>2
<1>5. PICK i \in Nat, j \in Nat, k \in Nat :
          /\ i = Merges(Scoring(u, since, category))
          /\ j = Merges(Scoring(v, since, category))
          /\ k = Merges(Scoring(w, since, category))
  BY <1>2
<1>6. PICK p \in Nat, q \in Nat, r \in Nat : p = Login[u] /\ q = Login[v] /\ r = Login[w]
  BY <1>3
<1>7. /\ Before(u, u, since, category)
            <=> a > a \/ (a = a /\ i > i) \/ (a = a /\ i = i /\ p < p)
      /\ Before(u, v, since, category)
            <=> a > b \/ (a = b /\ i > j) \/ (a = b /\ i = j /\ p < q)
      /\ Before(v, u, since, category)
            <=> b > a \/ (b = a /\ j > i) \/ (b = a /\ j = i /\ q < p)
      /\ Before(v, w, since, category)
            <=> b > c \/ (b = c /\ j > k) \/ (b = c /\ j = k /\ q < r)
      /\ Before(u, w, since, category)
            <=> a > c \/ (a = c /\ i > k) \/ (a = c /\ i = k /\ p < r)
  BY <1>4, <1>5, <1>6 DEF Before
<1>8. u # v => p # q
  BY <1>3, <1>6
<1> QED BY <1>7, <1>8

\* A person and whoever comes before.
Upto(since, category) ==
    [u \in Scored(since, category) |->
        {v \in Scored(since, category) : v = u \/ Before(v, u, since, category)}]

\* Who is on a board: finitely many, each heading those before.
LEMMA BoardHeads ==
    ASSUME ModerationConstants, StandingConstants, Typed, NEW since, NEW category
    PROVE  /\ IsFiniteSet(Scored(since, category))
           /\ Heads(Scored(since, category), Upto(since, category))
<1> DEFINE S == Scored(since, category)
           U == Upto(since, category)
           B(u, v) == Before(u, v, since, category)
<1>1. S \subseteq People
  BY DEF Scored
<1>2. IsFiniteSet(S)
  BY <1>1, PeopleAreFinite, FS_Subset
<1>3. /\ U \in [S -> SUBSET S]
      /\ \A p \in S : U[p] = {v \in S : v = p \/ B(v, p)}
  BY DEF Upto
<1>4. \A u, v, w \in S : /\ ~ B(u, u)
                         /\ B(u, v) /\ B(v, w) => B(u, w)
                         /\ u # v => B(u, v) \/ B(v, u)
  <2> SUFFICES ASSUME NEW u \in S, NEW v \in S, NEW w \in S
               PROVE  /\ ~ B(u, u)
                      /\ B(u, v) /\ B(v, w) => B(u, w)
                      /\ u # v => B(u, v) \/ B(v, u)
    OBVIOUS
  <2>1. u \in People /\ v \in People /\ w \in People
    BY <1>1
  <2> HIDE DEF S
  <2> QED BY <2>1, BeforeIsOrder
<1> HIDE DEF S, U, B
<1>5. ASSUME NEW p \in S, NEW q \in S, B(p, q) PROVE U[p] \subseteq U[q]
  BY <1>3, <1>4, <1>5
<1>6. ASSUME NEW p \in S, NEW q \in S, p # q PROVE U[p] # U[q]
  BY <1>3, <1>4, <1>6
<1>7. \A p, q \in S : U[p] \subseteq U[q] \/ U[q] \subseteq U[p]
  BY <1>4, <1>5
<1>8. Heads(S, U)
  BY <1>3, <1>6, <1>7 DEF Heads
<1> QED BY <1>2, <1>8 DEF S, U

\* The rank shown is the number of those up to a person: no two have the same,
\* all of 1 to their number are taken, and who has the lower comes before.
LEMMA RanksOfBoard ==
    ASSUME ModerationConstants, StandingConstants, Typed, NEW since, NEW category
    PROVE  LET S == Scored(since, category)
               U == Upto(since, category)
           IN  /\ \A u \in S : Row(u, since, category).rank = Cardinality(U[u])
               /\ \A u \in S : Cardinality(U[u]) \in 1..Cardinality(S)
               /\ \A k \in 1..Cardinality(S) : \E u \in S : Cardinality(U[u]) = k
               /\ \A u, v \in S : Cardinality(U[u]) = Cardinality(U[v]) => u = v
               /\ \A u, v \in S : v \in U[u] <=> Cardinality(U[v]) <= Cardinality(U[u])
<1> DEFINE S == Scored(since, category)
           U == Upto(since, category)
           rank == Ranks(S, U)
           n == Cardinality(S)
<1>1. IsFiniteSet(S) /\ Heads(S, U)
  BY BoardHeads
<1>2. rank \in Bijection(S, 1..n)
  <2> HIDE DEF S, U, rank
  <2> QED BY <1>1, RanksAreAll DEF rank
<1>3. \A u \in S : rank[u] = Cardinality(U[u])
  BY DEF Ranks
<1>4. /\ \A u \in S : rank[u] \in 1..n
      /\ \A u, v \in S : rank[u] = rank[v] => u = v
      /\ \A k \in 1..n : \E u \in S : rank[u] = k
  <2> HIDE DEF S, U, rank, n
  <2> QED BY <1>2 DEF Bijection, Injection, Surjection, IsInjective
<1>5. n \in Nat
  BY <1>1, FS_CardinalityType
<1>6. ASSUME NEW u \in S PROVE Row(u, since, category).rank = Cardinality(U[u])
  <2> DEFINE others == {v \in S : Before(v, u, since, category)}
  <2>1. U[u] = others \cup {u}
    BY DEF Upto
  <2>2. u \notin others
    BY BeforeIsOrder DEF Scored
  <2>3. IsFiniteSet(others)
    <3>1. others \in SUBSET S
      OBVIOUS
    <3> HIDE DEF S, others
    <3> QED BY <1>1, <3>1, FS_Subset
  <2>4. Row(u, since, category).rank = 1 + Cardinality(others)
    BY DEF Row
  <2> HIDE DEF others, S, U
  <2>5. Cardinality(others \cup {u}) = Cardinality(others) + 1 /\ Cardinality(others) \in Nat
    BY <2>2, <2>3, FS_AddElement, FS_CardinalityType
  <2> QED BY <2>1, <2>4, <2>5
<1>7. ASSUME NEW u \in S, NEW v \in S
      PROVE  v \in U[u] <=> rank[v] <= rank[u]
  <2>1. /\ U[u] \in SUBSET S /\ U[v] \in SUBSET S /\ u \in U[u] /\ v \in U[v]
        /\ U[u] \subseteq U[v] \/ U[v] \subseteq U[u]
    BY <1>1 DEF Heads
  <2>2. IsFiniteSet(U[u]) /\ IsFiniteSet(U[v])
    BY <1>1, <2>1, FS_Subset
  <2>3. ASSUME v \in U[u] PROVE U[v] \subseteq U[u]
    <3>1. CASE v = u
      BY <3>1
    <3>2. CASE v # u
      <4>1. Before(v, u, since, category)
        BY <2>3, <3>2 DEF Upto
      <4>2. ASSUME NEW w \in U[v] PROVE w \in U[u]
        <5>1. w \in S /\ (w = v \/ Before(w, v, since, category))
          BY <4>2 DEF Upto
        <5>2. w \in People /\ v \in People /\ u \in People
          BY <5>1 DEF Scored
        <5>3. Before(w, u, since, category)
          BY <4>1, <5>1, <5>2, BeforeIsOrder
        <5> QED BY <5>1, <5>3 DEF Upto
      <4> QED BY <4>2
    <3> QED BY <3>1, <3>2
  <2> HIDE DEF U, S
  <2>4. ASSUME v \in U[u] PROVE Cardinality(U[v]) <= Cardinality(U[u])
    BY <2>2, <2>3, <2>4, FS_Subset
  <2>5. ASSUME v \notin U[u] PROVE ~ Cardinality(U[v]) <= Cardinality(U[u])
    <3>1. U[u] \subseteq U[v] /\ U[u] # U[v]
      BY <2>1, <2>5
    <3>2. Cardinality(U[u]) <= Cardinality(U[v]) /\ Cardinality(U[u]) # Cardinality(U[v])
      BY <2>2, <3>1, FS_Subset
    <3>3. Cardinality(U[u]) \in Nat /\ Cardinality(U[v]) \in Nat
      BY <2>2, FS_CardinalityType
    <3> QED BY <3>2, <3>3
  <2> QED BY <1>3, <2>4, <2>5
<1> HIDE DEF rank, S, U, n
<1>8. /\ \A u \in S : Row(u, since, category).rank = Cardinality(U[u])
      /\ \A u \in S : Cardinality(U[u]) \in 1..n
      /\ \A k \in 1..n : \E u \in S : Cardinality(U[u]) = k
      /\ \A u, v \in S : Cardinality(U[u]) = Cardinality(U[v]) => u = v
      /\ \A u, v \in S : v \in U[u] <=> Cardinality(U[v]) <= Cardinality(U[u])
  BY <1>3, <1>4, <1>6, <1>7
<1> QED BY <1>8 DEF S, U, n

\* The place a row has in the order of position and login is its rank.
LEMMA PlaceIsRank ==
    ASSUME ModerationConstants, StandingConstants, Typed, NEW since, NEW category,
           NEW page
    PROVE  leaderboard(since, category, page)
               = {row \in Board(since, category) : row.rank \in OnPage(page)}
<1> DEFINE S == Scored(since, category)
           U == Upto(since, category)
           row(u) == Row(u, since, category)
           rows(u) == {other \in Board(since, category) :
                          \/ other.rank < row(u).rank
                          \/ other.rank = row(u).rank /\ Login[other.user] <= Login[row(u).user]}
<1>1. \A u \in S : row(u).user = u
  BY DEF Row
<1>2. /\ \A u \in S : row(u).rank = Cardinality(U[u])
      /\ \A u \in S : Cardinality(U[u]) \in 1..Cardinality(S)
      /\ \A u, v \in S : Cardinality(U[u]) = Cardinality(U[v]) => u = v
      /\ \A u, v \in S : v \in U[u] <=> Cardinality(U[v]) <= Cardinality(U[u])
  BY RanksOfBoard
<1>3. Board(since, category) = {row(u) : u \in S}
  BY DEF Board
<1>4. IsFiniteSet(S) /\ Cardinality(S) \in Nat
  BY BoardHeads, FS_CardinalityType
<1>5. \A u \in S : u \in People /\ Login[u] \in Nat
  BY DEF Scored, StandingConstants
<1>6. U \in [S -> SUBSET S]
  BY DEF Upto
<1> HIDE DEF S, U, row
<1>7. ASSUME NEW u \in S PROVE Cardinality(rows(u)) = row(u).rank
  <2> DEFINE f == [v \in U[u] |-> row(v)]
  <2>1. \A v \in S : row(v) \in rows(u) <=> v \in U[u]
    <3> SUFFICES ASSUME NEW v \in S PROVE row(v) \in rows(u) <=> v \in U[u]
      OBVIOUS
    <3>1. PICK a \in Nat, b \in Nat : a = Cardinality(U[u]) /\ b = Cardinality(U[v])
      BY <1>2
    <3>2. row(v) \in Board(since, category) /\ row(v).rank = b /\ row(u).rank = a
      BY <1>2, <1>3, <3>1
    <3>3. a = b => u = v
      BY <1>2, <3>1
    <3>4. v \in U[u] <=> b <= a
      BY <1>2, <3>1
    <3>5. row(v).user = v /\ row(u).user = u /\ Login[u] \in Nat
      BY <1>1, <1>5
    <3>6. row(v) \in rows(u) <=> b < a \/ (b = a /\ Login[v] <= Login[u])
      BY <3>2, <3>5
    <3> HIDE DEF rows
    <3> QED BY <3>3, <3>4, <3>5, <3>6
  <2>2. \A r \in rows(u) : \E v \in S : r = row(v)
    BY <1>3
  <2>3. U[u] \in SUBSET S
    BY <1>6
  <2> HIDE DEF rows
  <2>4. f \in [U[u] -> rows(u)]
    BY <2>1, <2>3
  <2>5. \A v, w \in U[u] : f[v] = f[w] => v = w
    BY <1>1, <2>3
  <2>6. \A r \in rows(u) : \E v \in U[u] : f[v] = r
    BY <2>1, <2>2
  <2>7. f \in Bijection(U[u], rows(u))
    <3> HIDE DEF f
    <3> QED BY <2>4, <2>5, <2>6, Fun_IsBij
  <2>8. IsFiniteSet(U[u])
    BY <1>4, <2>3, FS_Subset
  <2>9. Cardinality(rows(u)) = Cardinality(U[u])
    BY <2>7, <2>8, FS_Bijection DEF ExistsBijection
  <2> QED BY <1>2, <2>9
<1>8. leaderboard(since, category, page)
        = {r \in Board(since, category) :
              Cardinality({other \in Board(since, category) :
                  \/ other.rank < r.rank
                  \/ other.rank = r.rank /\ Login[other.user] <= Login[r.user]})
              \in OnPage(page)}
  BY DEF leaderboard
<1>9. ASSUME NEW r \in Board(since, category)
      PROVE  Cardinality({other \in Board(since, category) :
                 \/ other.rank < r.rank
                 \/ other.rank = r.rank /\ Login[other.user] <= Login[r.user]}) = r.rank
  <2>1. PICK u \in S : r = row(u)
    BY <1>3
  <2> QED BY <1>7, <2>1
<1> QED BY <1>8, <1>9

\* A page's rows have the page's ranks, one each.
PageWhole(since, category, page) ==
    LET shown == leaderboard(since, category, page)
        ranks == OnPage(page) \cap 1..Cardinality(Scored(since, category))
    IN  /\ {row.rank : row \in shown} = ranks
        /\ Cardinality(shown) = Cardinality(ranks)
        /\ \A row \in shown : leaderboard_position(row.user, since, category) = {row}

\* So it is of every page.
LEMMA PageIsWhole ==
    ASSUME ModerationConstants, StandingConstants, Typed, NEW since, NEW category,
           NEW page \in Nat
    PROVE  PageWhole(since, category, page)
<1> DEFINE S == Scored(since, category)
           n == Cardinality(S)
           U == Upto(since, category)
           row(u) == Row(u, since, category)
           shown == leaderboard(since, category, page)
           ranks == OnPage(page) \cap 1..n
           f == [r \in shown |-> r.rank]
<1>1. \A u \in S : row(u).user = u
  BY DEF Row
<1>2. /\ \A u \in S : row(u).rank = Cardinality(U[u])
      /\ \A u \in S : Cardinality(U[u]) \in 1..n
      /\ \A k \in 1..n : \E u \in S : Cardinality(U[u]) = k
      /\ \A u, v \in S : Cardinality(U[u]) = Cardinality(U[v]) => u = v
  BY RanksOfBoard
<1>3. Board(since, category) = {row(u) : u \in S}
  BY DEF Board
<1>4. shown = {r \in Board(since, category) : r.rank \in OnPage(page)}
  BY PlaceIsRank
<1>5. n \in Nat
  BY BoardHeads, FS_CardinalityType
<1> HIDE DEF S, U, n, row, shown
<1>6. \A r \in shown : r.rank \in ranks /\ r \in Board(since, category)
  BY <1>2, <1>3, <1>4
<1>7. \A r, q \in Board(since, category) : r.rank = q.rank => r = q
  BY <1>2, <1>3
<1>8. ASSUME NEW k \in ranks PROVE \E r \in shown : r.rank = k
  <2>1. PICK u \in S : Cardinality(U[u]) = k
    BY <1>2
  <2>2. row(u) \in Board(since, category) /\ row(u).rank = k
    BY <1>2, <1>3, <2>1
  <2> QED BY <1>4, <2>2
<1>9. IsFiniteSet(ranks)
  <2>1. IsFiniteSet(1..n)
    BY <1>5, FS_Interval
  <2>2. ranks \in SUBSET (1..n)
    OBVIOUS
  <2> QED BY <2>1, <2>2, FS_Subset
<1> HIDE DEF ranks
<1>10. {r.rank : r \in shown} = ranks
  BY <1>6, <1>8
<1>11. Cardinality(shown) = Cardinality(ranks)
  <2>1. f \in [shown -> ranks]
    BY <1>6
  <2>2. \A r, q \in shown : f[r] = f[q] => r = q
    BY <1>6, <1>7
  <2>3. \A k \in ranks : \E r \in shown : f[r] = k
    BY <1>8
  <2> HIDE DEF f
  <2>4. f \in Injection(shown, ranks) /\ f \in Surjection(shown, ranks)
    BY <2>1, <2>2, <2>3, Fun_IsInj, Fun_IsSurj
  <2> QED BY <1>9, <2>4, FS_Injection
<1>12. ASSUME NEW r \in shown PROVE leaderboard_position(r.user, since, category) = {r}
  <2>1. PICK u \in S : r = row(u)
    BY <1>3, <1>6
  <2>2. \A q \in Board(since, category) : q.user = r.user => q = r
    BY <1>1, <1>3, <2>1
  <2> QED BY <1>6, <2>2 DEF leaderboard_position
<1> QED BY <1>10, <1>11, <1>12 DEF PageWhole, shown, ranks, n, S

\* The pages of a board show each rank once, to the person who is told it.
THEOREM BoardAlwaysWhole == Spec => []BoardWhole
<1>1. IInv => BoardWhole
  <2>1. SUFFICES ASSUME IInv, NEW since \in 0..MaxTime,
                        NEW category \in Categories \cup {Every}, NEW page \in Pages
                 PROVE  PageWhole(since, category, page)
    BY DEF BoardWhole, PageWhole
  <2>2. page \in Nat
    BY PeopleAreFinite, ModerationConstants, FS_CardinalityType DEF Pages
  <2>3. Typed
    BY <2>1 DEF IInv
  <2> QED BY <2>2, <2>3, ModerationConstants, StandingConstants, PageIsWhole
<1> QED BY <1>1, Inductive, PTL
=============================================================================
