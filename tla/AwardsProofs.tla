---------------------------- MODULE AwardsProofs ----------------------------
(***************************************************************************)
(* What the award paths guarantee for any people, repositories, issues,    *)
(* pull requests, webhook workers and synchronisations.                    *)
(***************************************************************************)
EXTENDS Awards, WellFoundedInduction, TLAPS

-----------------------------------------------------------------------------
(* The inductive invariant: what a worker or a synchronisation read before  *)
(* it went to GitHub may be out of date, but was on offer once; an author   *)
(* who was known is still; reserved awards never conflict.                  *)

PublishedOffered == \A b \in bounties : b.status = "published" => b \in offered

HookSeen ==
    \A w \in Workers :
        /\ hook[w].pc \in {"user", "read"} =>
               (hook[w].known => Author[hook[w].pr] \in users)
        /\ hook[w].pc = "read" => hook[w].published \subseteq offered

SyncSeen ==
    \A s \in Syncs :
        /\ sync[s].pc \in {"begun", "fetched"} =>
               /\ sync[s].user \in users
               /\ sync[s].published \subseteq {b \in offered : ~b.escrow}
        /\ sync[s].pc = "fetched" =>
               \A p \in sync[s].found : Author[p] = sync[s].user

NoConflict == \A a, b \in allocations : Conflict(a, b) => a = b

Ind == /\ TypeOK
       /\ PublishedOffered
       /\ HookSeen
       /\ SyncSeen
       /\ NoConflict
       /\ OfferedValue
       /\ CashWithPoints
       /\ ShownIsReserved

-----------------------------------------------------------------------------
(* The operators.                                                          *)

\* The bounties a merge is paid by are among those that were read.
LEMMA MatchIsRead ==
    ASSUME NEW p, NEW published, NEW known
    PROVE  matching_bounty(p, published, known) \subseteq published
BY DEF matching_bounty, Open

\* An award is the flat one or a bounty's, of one of the merges.
LEMMA EarnedIs ==
    ASSUME NEW merges, NEW a \in Earned(merges)
    PROVE  \E m \in merges : \/ m.baseline /\ a = BaselineAward(m)
                             \/ \E b \in m.bounty : a = BountyAward(m, b)
BY DEF Earned

\* A merge as the two paths build it, of an account if there is one.
Sound(m, known) ==
    /\ m.person \in People
    /\ m.id \in PrIds
    /\ m.bounty \subseteq offered
    /\ known => m.person \in users

\* What record_merges adds, and what it keeps.
LEMMA RecordKeeps ==
    ASSUME AwardConstants, TypeOK, NoConflict, OfferedValue,
           NEW merges, NEW known \in BOOLEAN,
           \A m \in merges : Sound(m, known),
           record_merges(merges, known),
           users' = users, offered' = offered
    PROVE  /\ allocations \subseteq allocations'
           /\ allocations' \subseteq Award
           /\ ledger' = claimed'
           /\ claimed' \subseteq allocations'
           /\ \A a \in ledger' : a.person \in users'
           /\ counted' \subseteq People \X PrIds
           /\ NoConflict'
           /\ OfferedValue'
           /\ \A a \in allocations' \ allocations :
                  a.kind = "bounty_award" =>
                      /\ \E m \in merges : \E b \in m.bounty : a = BountyAward(m, b)
                      /\ \A c \in allocations : ~Conflict(a, c)
           /\ \A m \in merges : m.baseline =>
                  \E a \in allocations' : /\ a.kind = "baseline_award"
                                          /\ a.person = m.person /\ a.id = m.id
<1>1. PICK new \in SUBSET Earned(merges) :
          Reserve(Earned(merges), new) /\ CreditIfKnown(new, known)
  BY DEF record_merges
<1>2. allocations' = allocations \cup new
  BY <1>1 DEF Reserve
<1>3. \A a \in new : /\ a \in Award
                     /\ known => a.person \in users
                     /\ a.kind = "bounty_award" =>
                            /\ \E m \in merges : \E b \in m.bounty : a = BountyAward(m, b)
                            /\ \E b \in offered : /\ b.issue = a.issue /\ b.points = a.points
                                                  /\ b.by = a.by
  <2> TAKE a \in new
  <2>1. PICK m \in merges : \/ m.baseline /\ a = BaselineAward(m)
                            \/ \E b \in m.bounty : a = BountyAward(m, b)
    BY EarnedIs
  <2>2. Sound(m, known)
    OBVIOUS
  <2>3. CASE a = BaselineAward(m)
    BY <2>2, <2>3 DEF BaselineAward, Sound, Award, AwardConstants
  <2>4. CASE \E b \in m.bounty : a = BountyAward(m, b)
    <3>1. PICK b \in m.bounty : a = BountyAward(m, b)
      BY <2>4
    <3>2. b \in offered /\ b \in Bounty
      BY <2>2 DEF Sound, TypeOK
    <3>3. /\ b.issue \in Issues /\ b.points \in Nat /\ b.by \in Maintainers
          /\ b.escrow \in BOOLEAN
      BY <3>2 DEF Bounty, AwardConstants
    <3>4. a \in Award
      BY <2>2, <3>1, <3>3 DEF BountyAward, Sound, Award
    <3>5. a.issue = b.issue /\ a.points = b.points /\ a.by = b.by /\ a.person = m.person
      BY <3>1 DEF BountyAward
    <3>6. QED
      BY <2>2, <3>1, <3>2, <3>4, <3>5 DEF Sound
  <2>5. QED
    BY <2>1, <2>3, <2>4
<1>4. allocations' \subseteq Award
  BY <1>2, <1>3 DEF TypeOK
<1>5. ledger' = claimed' /\ claimed' \subseteq allocations' /\ \A a \in ledger' : a.person \in users'
  <2>1. CASE known
    BY <1>1, <1>2, <1>3, <2>1 DEF CreditIfKnown, credit, TypeOK
  <2>2. CASE ~known
    BY <1>1, <1>2, <2>2 DEF CreditIfKnown, TypeOK
  <2>3. QED
    BY <2>1, <2>2
<1>6. counted' \subseteq People \X PrIds
  BY DEF record_merges, Sound, TypeOK
<1>7. NoConflict'
  BY <1>1, <1>2 DEF NoConflict, Reserve, Conflict
<1>8. OfferedValue'
  BY <1>2, <1>3 DEF OfferedValue
<1>9. \A m \in merges : m.baseline =>
          \E a \in allocations' : /\ a.kind = "baseline_award"
                                  /\ a.person = m.person /\ a.id = m.id
  <2> SUFFICES ASSUME NEW m \in merges, m.baseline
               PROVE  \E a \in allocations' : /\ a.kind = "baseline_award"
                                              /\ a.person = m.person /\ a.id = m.id
    OBVIOUS
  <2>1. BaselineAward(m) \in Earned(merges)
    BY DEF Earned
  <2>2. /\ BaselineAward(m).kind = "baseline_award"
        /\ BaselineAward(m).person = m.person
        /\ BaselineAward(m).id = m.id
    BY DEF BaselineAward
  <2>3. CASE BaselineAward(m) \in new
    BY <1>2, <2>2, <2>3
  <2>4. CASE BaselineAward(m) \notin new
    <3>1. PICK b \in allocations \cup new : Conflict(BaselineAward(m), b)
      BY <1>1, <2>1, <2>4 DEF Reserve
    <3>2. QED
      BY <1>2, <2>2, <3>1 DEF Conflict
  <2>5. QED
    BY <2>3, <2>4
<1>10. QED
  BY <1>1, <1>2, <1>3, <1>4, <1>5, <1>6, <1>7, <1>8, <1>9 DEF Reserve

\* The order of the arguments of a conflict does not matter.
LEMMA ConflictBothWays == \A a, b : Conflict(a, b) <=> Conflict(b, a)
BY DEF Conflict

\* What a step keeps that writes no award: more may be on offer after it, and
\* more people may have an account.
LEMMA AccountsKept ==
    ASSUME Ind, UNCHANGED accounts, offered \subseteq offered', users \subseteq users'
    PROVE  /\ ledger' = claimed' /\ claimed' \subseteq allocations'
           /\ \A a \in ledger' : a.person \in users'
           /\ allocations' \subseteq Award
           /\ cash' \subseteq {a \in allocations' : a.kind = "bounty_award"}
           /\ counted' \subseteq People \X PrIds
           /\ shown' \subseteq People \X PrIds
           /\ NoConflict' /\ OfferedValue' /\ CashWithPoints' /\ ShownIsReserved'
<1>1. /\ allocations' = allocations /\ claimed' = claimed /\ ledger' = ledger
      /\ counted' = counted /\ shown' = shown /\ cash' = cash
  BY DEF accounts
<1>2. OfferedValue'
  BY <1>1 DEF Ind, OfferedValue
<1>3. NoConflict' /\ CashWithPoints' /\ ShownIsReserved'
  BY <1>1 DEF Ind, NoConflict, CashWithPoints, ShownIsReserved
<1>4. QED
  BY <1>1, <1>2, <1>3 DEF Ind, TypeOK

\* A maintainer's change keeps what was on offer in the history.
LEMMA ReplaceStep ==
    ASSUME Ind, NEW i, NEW b \in Bounty, Replace(i, b)
    PROVE  Ind'
<1>1. /\ UNCHANGED accounts
      /\ UNCHANGED <<merged, delivery, users, hook, sync>>
      /\ offered \subseteq offered' /\ offered' \subseteq offered \cup {b}
      /\ bounties' \subseteq bounties \cup {b}
      /\ b.status = "published" => b \in offered'
  BY DEF Replace, github, Row
<1>2. bounties' \subseteq Bounty /\ offered' \subseteq Bounty
  BY <1>1 DEF Ind, TypeOK
<1>3. TypeOK'
  BY <1>1, <1>2, AccountsKept DEF Ind, TypeOK
<1>4. PublishedOffered'
  BY <1>1 DEF Ind, PublishedOffered
<1>5. HookSeen' /\ SyncSeen'
  BY <1>1 DEF Ind, HookSeen, SyncSeen
<1>6. QED
  BY <1>1, <1>3, <1>4, <1>5, AccountsKept DEF Ind

LEMMA MaintainerStep ==
    ASSUME AwardConstants, Ind, Maintainer
    PROVE  Ind'
<1>1. ASSUME NEW m \in Maintainers, NEW i \in Issues, NEW v \in Values, NEW e \in BOOLEAN,
             publish_bounties(m, i, v, e)
      PROVE  Ind'
  <2>1. PICK kept \in {e} \cup {b.escrow : b \in Row(i)} :
            Replace(i, [issue |-> i, points |-> v, by |-> m,
                        status |-> "published", escrow |-> kept])
    BY <1>1 DEF publish_bounties
  <2>2. kept \in BOOLEAN
    BY DEF Row, Ind, TypeOK, Bounty
  <2>3. QED
    BY <2>1, <2>2, ReplaceStep DEF Bounty
<1>2. ASSUME NEW i \in Issues, NEW v \in Values,
             NEW t \in {"published", "withdrawn"},
             update_bounty(i, v, t)
      PROVE  Ind'
  <2>1. PICK b \in Row(i) :
            Replace(i, [issue |-> i, points |-> v, by |-> b.by,
                        status |-> t, escrow |-> b.escrow])
    BY <1>2 DEF update_bounty
  <2>2. b.by \in Maintainers /\ b.escrow \in BOOLEAN
    BY DEF Row, Ind, TypeOK, Bounty
  <2>3. QED
    BY <2>1, <2>2, ReplaceStep DEF Bounty
<1>3. QED
  BY <1>1, <1>2 DEF Maintainer

\* A claim credits awards that are reserved, and reserves none.
LEMMA ClaimStep ==
    ASSUME AwardConstants, Ind, NEW u \in People, claim_points(u)
    PROVE  Ind'
<1> DEFINE pending == {a \in allocations \ claimed : a.person = u}
<1>1. /\ u \in users
      /\ ledger' = ledger \cup pending
      /\ claimed' = claimed \cup pending
      /\ counted' = counted \cup {<<a.person, a.id>> : a \in pending}
      /\ UNCHANGED <<bounties, offered, merged, delivery, users,
                     allocations, shown, cash, hook, sync>>
  BY DEF claim_points, credit, board, github
<1>2. \A a \in pending : a \in allocations /\ a.person = u /\ a.id \in PrIds
  BY DEF Ind, TypeOK, Award
<1>3. counted' \subseteq People \X PrIds
  BY <1>1, <1>2 DEF Ind, TypeOK
<1>4. ledger' = claimed' /\ claimed' \subseteq allocations'
      /\ \A a \in ledger' : a.person \in users'
  BY <1>1, <1>2 DEF Ind, TypeOK
<1> HIDE DEF pending
<1>5. TypeOK'
  BY <1>1, <1>3, <1>4 DEF Ind, TypeOK
<1>6. PublishedOffered' /\ HookSeen' /\ SyncSeen'
  BY <1>1 DEF Ind, PublishedOffered, HookSeen, SyncSeen
<1>7. NoConflict' /\ OfferedValue' /\ CashWithPoints' /\ ShownIsReserved'
  BY <1>1 DEF Ind, NoConflict, OfferedValue, CashWithPoints, ShownIsReserved
<1>8. QED
  BY <1>5, <1>6, <1>7 DEF Ind

LEMMA OutsideStep ==
    ASSUME AwardConstants, Ind, Outside
    PROVE  Ind'
<1>1. ASSUME NEW p \in Prs, Merge(p) \/ receive_webhook(p)
      PROVE  Ind'
  <2>1. /\ UNCHANGED accounts
        /\ UNCHANGED <<bounties, offered, users, hook, sync>>
        /\ merged' \subseteq Prs
    BY <1>1 DEF Merge, receive_webhook, board, Ind, TypeOK
  <2>2. delivery' \in [Prs -> {None, "pending", "processed"}]
    BY <1>1 DEF Merge, receive_webhook, Ind, TypeOK
  <2>3. TypeOK'
    BY <2>1, <2>2, AccountsKept DEF Ind, TypeOK
  <2>4. PublishedOffered' /\ HookSeen' /\ SyncSeen'
    BY <2>1 DEF Ind, PublishedOffered, HookSeen, SyncSeen
  <2>5. QED
    BY <2>1, <2>3, <2>4, AccountsKept DEF Ind
<1>2. ASSUME NEW u \in People, Register(u)
      PROVE  Ind'
  <2>1. /\ UNCHANGED accounts
        /\ UNCHANGED <<bounties, offered, merged, delivery, hook, sync>>
        /\ users \subseteq users' /\ users' \subseteq People
    BY <1>2 DEF Register, board, github, Ind, TypeOK
  <2>2. TypeOK'
    BY <2>1, AccountsKept DEF Ind, TypeOK
  <2>3. PublishedOffered' /\ HookSeen' /\ SyncSeen'
    BY <2>1 DEF Ind, PublishedOffered, HookSeen, SyncSeen
  <2>4. QED
    BY <2>1, <2>2, <2>3, AccountsKept DEF Ind
<1>3. QED
  BY <1>1, <1>2, ClaimStep DEF Outside

-----------------------------------------------------------------------------
(* The webhook worker and the synchronisation.                             *)

\* A worker's own state, and nothing else of the system but the deliveries.
LEMMA HookOnly ==
    ASSUME Ind, NEW w \in Workers, NEW h \in HookState,
           hook' = [hook EXCEPT ![w] = h],
           h.pc \in {"user", "read"} => (h.known => Author[h.pr] \in users),
           h.pc = "read" => h.published \subseteq offered,
           users' = users, offered' = offered
    PROVE  hook' \in [Workers -> HookState] /\ HookSeen'
<1>1. hook' \in [Workers -> HookState]
  BY DEF Ind, TypeOK
<1>2. \A v \in Workers : hook'[v] = IF v = w THEN h ELSE hook[v]
  BY DEF Ind, TypeOK
<1>3. HookSeen'
  BY <1>2 DEF Ind, HookSeen
<1>4. QED
  BY <1>1, <1>3

\* The same of a synchronisation, which may register its user.
LEMMA SyncOnly ==
    ASSUME Ind, NEW s \in Syncs, NEW h \in SyncState,
           sync' = [sync EXCEPT ![s] = h],
           h.pc \in {"begun", "fetched"} =>
               h.user \in users' /\ h.published \subseteq {b \in offered : ~b.escrow},
           h.pc = "fetched" => \A p \in h.found : Author[p] = h.user,
           users \subseteq users', offered' = offered
    PROVE  sync' \in [Syncs -> SyncState] /\ SyncSeen'
<1>1. sync' \in [Syncs -> SyncState]
  BY DEF Ind, TypeOK
<1>2. \A v \in Syncs : sync'[v] = IF v = s THEN h ELSE sync[v]
  BY DEF Ind, TypeOK
<1>3. SyncSeen'
  BY <1>2 DEF Ind, SyncSeen
<1>4. QED
  BY <1>1, <1>3

\* The cash of a merge goes with its points.
LEMMA CashStep ==
    ASSUME AwardConstants, Ind, NEW m, NEW kept, NEW known \in BOOLEAN, Sound(m, known),
           m.bounty = kept, record_merges({m}, known),
           reserve_cash_allocation({BountyAward(m, b) : b \in {c \in kept : c.escrow}}),
           users' = users, offered' = offered
    PROVE  CashWithPoints' /\ cash' \subseteq {a \in allocations' : a.kind = "bounty_award"}
<1> DEFINE with == {BountyAward(m, b) : b \in {c \in kept : c.escrow}}
<1>1. /\ allocations \subseteq allocations'
      /\ \A a \in allocations' \ allocations :
             a.kind = "bounty_award" =>
                 /\ \E b \in m.bounty : a = BountyAward(m, b)
                 /\ \A c \in allocations : ~Conflict(a, c)
  <2>1. \A n \in {m} : Sound(n, known)
    OBVIOUS
  <2> QED BY <2>1, RecordKeeps DEF Ind
<1>2. \A a \in with : a.escrow = TRUE /\ a.kind = "bounty_award"
  BY DEF BountyAward
<1>3. cash' = cash \cup {a \in with \cap allocations' : \A c \in cash : c.issue # a.issue}
  BY DEF reserve_cash_allocation
<1>4. \A a : a.kind = "bounty_award" /\ (\E b \in m.bounty : a = BountyAward(m, b)) /\ a.escrow
          => a \in with
  <2> SUFFICES ASSUME NEW a, a.escrow, NEW b \in m.bounty, a = BountyAward(m, b)
               PROVE  a \in with
    OBVIOUS
  <2>1. b.escrow
    BY DEF BountyAward
  <2>2. QED
    BY <2>1
<1> HIDE DEF with
<1>5. cash' \subseteq {a \in allocations' : a.kind = "bounty_award"}
  BY <1>1, <1>2, <1>3 DEF Ind, TypeOK
<1>6. ASSUME NEW a \in allocations', a.kind = "bounty_award", a.escrow
      PROVE  a \in cash'
  <2>1. CASE a \in allocations
    BY <1>3, <1>6, <2>1 DEF Ind, CashWithPoints
  <2>2. CASE a \notin allocations
    <3>1. a \in with
      BY <1>1, <1>4, <1>6, <2>2
    <3>2. \A c \in cash : c.issue # a.issue
      BY <1>1, <1>6, <2>2 DEF Ind, TypeOK, Conflict
    <3>3. QED
      BY <1>3, <3>1, <3>2
  <2>3. QED
    BY <2>1, <2>2
<1>7. ASSUME NEW a \in allocations', a.kind = "bounty_award", a \in cash'
      PROVE  a.escrow
  <2>1. CASE a \in cash
    <3>1. a \in allocations
      BY <2>1 DEF Ind, TypeOK
    <3>2. a.escrow <=> a \in cash
      BY <1>7, <3>1 DEF Ind, CashWithPoints
    <3>3. QED
      BY <2>1, <3>2
  <2>2. CASE a \in with
    BY <1>2, <2>2
  <2>3. QED
    BY <1>3, <1>7, <2>1, <2>2
<1>8. QED
  BY <1>5, <1>6, <1>7 DEF CashWithPoints

\* A row shown merged in a participating repository has its flat award.
LEMMA ShownStep ==
    ASSUME Ind, NEW merges, record_pull_requests(merges),
           \A m \in merges : m.person \in People /\ m.id \in PrIds,
           allocations \subseteq allocations',
           \A m \in merges : m.baseline =>
               \E a \in allocations' : /\ a.kind = "baseline_award"
                                       /\ a.person = m.person /\ a.id = m.id
    PROVE  ShownIsReserved' /\ shown' \subseteq People \X PrIds
<1>1. shown' \subseteq shown \cup {<<m.person, m.id>> : m \in {n \in merges : n.baseline}}
  BY DEF record_pull_requests
<1>2. shown' \subseteq People \X PrIds
  BY <1>1 DEF Ind, TypeOK
<1>3. ASSUME NEW row \in shown'
      PROVE  \E a \in allocations' : a.kind = "baseline_award" /\ <<a.person, a.id>> = row
  <2>1. CASE row \in shown
    BY <2>1 DEF Ind, ShownIsReserved
  <2>2. CASE \E m \in merges : m.baseline /\ row = <<m.person, m.id>>
    BY <2>2
  <2>3. QED
    BY <1>1, <2>1, <2>2
<1>4. QED
  BY <1>2, <1>3 DEF ShownIsReserved

\* A merge as it is detected has an identity, and bounties that were offered.
LEMMA DetectedIsSound ==
    ASSUME AwardConstants, NEW p \in Prs, NEW api \in {"pulls", "search"},
           NEW bounty, NEW published, NEW known \in BOOLEAN,
           bounty \subseteq offered, known => Author[p] \in users
    PROVE  Sound(DetectedMerge(p, api, bounty, published), known)
BY DEF AwardConstants, DetectedMerge, github_pr_id, PrIds, Sound

LEMMA HookCommitStep ==
    ASSUME AwardConstants, Ind, NEW w \in Workers, NEW evidence \in BOOLEAN,
           HookCommit(w, evidence)
    PROVE  Ind'
<1> DEFINE p == hook[w].pr
           seen == hook[w].published
           known == hook[w].known
           match == matching_bounty(p, seen, known)
           kept == {b \in match : b.escrow => evidence}
           m == DetectedMerge(p, "pulls", kept, seen)
<1>1. /\ p \in Prs /\ known \in BOOLEAN
      /\ known => Author[p] \in users
      /\ seen \subseteq offered
  BY DEF HookCommit, Ind, TypeOK, HookState, HookSeen
<1>2. kept \subseteq offered
  BY <1>1, MatchIsRead
<1>3. /\ IF known THEN record_pull_requests({m}) ELSE UNCHANGED shown
      /\ record_merges({m}, known)
      /\ reserve_cash_allocation({BountyAward(m, b) : b \in {c \in kept : c.escrow}})
      /\ Ends(w)
  BY DEF HookCommit
<1> HIDE DEF p, seen, known, match, kept
<1>4. Sound(m, known) /\ m.bounty = kept
  BY <1>1, <1>2, DetectedIsSound DEF DetectedMerge
<1> HIDE DEF m
<1>5. UNCHANGED <<bounties, offered, changes, merged, users, sync>>
  BY <1>3 DEF Ends, board
<1>6. delivery' \in [Prs -> {None, "pending", "processed"}]
  BY <1>3 DEF Ends, Ind, TypeOK
<1>7. hook' \in [Workers -> HookState] /\ HookSeen'
  <2>1. Idle \in HookState /\ Idle.pc = "idle"
    BY DEF Idle, HookState
  <2>2. hook' = [hook EXCEPT ![w] = Idle]
    BY <1>3 DEF Ends
  <2>3. QED
    BY <1>5, <2>1, <2>2, HookOnly
<1>8. /\ allocations \subseteq allocations'
      /\ allocations' \subseteq Award
      /\ ledger' = claimed' /\ claimed' \subseteq allocations'
      /\ \A a \in ledger' : a.person \in users'
      /\ counted' \subseteq People \X PrIds
      /\ NoConflict' /\ OfferedValue'
      /\ m.baseline => \E a \in allocations' : /\ a.kind = "baseline_award"
                                               /\ a.person = m.person /\ a.id = m.id
  <2>1. \A n \in {m} : Sound(n, known)
    BY <1>4
  <2>2. record_merges({m}, known) /\ users' = users /\ offered' = offered
    BY <1>3, <1>5
  <2>3. QED
    BY <1>1, <2>1, <2>2, RecordKeeps DEF Ind
<1>9. CashWithPoints' /\ cash' \subseteq {a \in allocations' : a.kind = "bounty_award"}
  BY <1>1, <1>3, <1>4, <1>5, CashStep
<1>10. ShownIsReserved' /\ shown' \subseteq People \X PrIds
  <2>1. CASE known
    <3>1. record_pull_requests({m})
      BY <1>3, <2>1
    <3>2. \A n \in {m} : n.person \in People /\ n.id \in PrIds
      BY <1>4 DEF Sound
    <3>3. QED
      BY <1>8, <3>1, <3>2, ShownStep
  <2>2. CASE ~known
    BY <1>3, <1>8, <2>2 DEF Ind, TypeOK, ShownIsReserved
  <2>3. QED
    BY <2>1, <2>2
<1>11. TypeOK'
  BY <1>5, <1>6, <1>7, <1>8, <1>9, <1>10 DEF Ind, TypeOK
<1>12. PublishedOffered' /\ SyncSeen'
  BY <1>5 DEF Ind, PublishedOffered, SyncSeen
<1>13. QED
  BY <1>7, <1>8, <1>9, <1>10, <1>11, <1>12 DEF Ind

LEMMA HookStep ==
    ASSUME AwardConstants, Ind, NEW w \in Workers, process_one(w)
    PROVE  Ind'
<1>1. ASSUME NEW h \in HookState, hook' = [hook EXCEPT ![w] = h],
             h.pc \in {"user", "read"} => (h.known => Author[h.pr] \in users),
             h.pc = "read" => h.published \subseteq offered,
             UNCHANGED <<bounties, offered, merged, users, accounts, sync>>,
             delivery' \in [Prs -> {None, "pending", "processed"}]
      PROVE  Ind'
  <2>1. hook' \in [Workers -> HookState] /\ HookSeen'
    BY <1>1, HookOnly
  <2>2. TypeOK'
    BY <1>1, <2>1, AccountsKept DEF Ind, TypeOK
  <2>3. PublishedOffered' /\ SyncSeen'
    BY <1>1 DEF Ind, PublishedOffered, SyncSeen
  <2>4. QED
    BY <1>1, <2>1, <2>2, <2>3, AccountsKept DEF Ind
<1>2. ASSUME NEW p \in Prs, HookTake(w, p)
      PROVE  Ind'
  <2> DEFINE k == Author[p] \in users
             h == [pc |-> "user", pr |-> p, known |-> k]
  <2>1. h \in HookState /\ h.pc = "user" /\ (h.known => Author[h.pr] \in users)
    <3>1. k \in BOOLEAN
      OBVIOUS
    <3>2. h.pr = p /\ h.pc = "user"
      OBVIOUS
    <3>3. h.known = k
      <4> HIDE DEF k
      <4> QED OBVIOUS
    <3>4. h \in HookState
      <4> HIDE DEF k
      <4> QED BY <3>1 DEF HookState
    <3>5. ASSUME h.known PROVE Author[h.pr] \in users
      <4> HIDE DEF h
      <4>1. k
        BY <3>3, <3>5
      <4> QED BY <3>2, <4>1
    <3>6. QED
      BY <3>2, <3>4, <3>5
  <2>2. hook' = [hook EXCEPT ![w] = h]
        /\ UNCHANGED <<bounties, offered, merged, delivery, users, accounts, sync>>
    BY <1>2 DEF HookTake, board, github
  <2> HIDE DEF h
  <2>3. QED
    BY <1>1, <2>1, <2>2 DEF Ind, TypeOK
<1>3. ASSUME HookRead(w)
      PROVE  Ind'
  <2> DEFINE h == [pc |-> "read", pr |-> hook[w].pr, known |-> hook[w].known,
                   published |-> published_bounties(TRUE)]
  <2>1. /\ hook[w].pr \in Prs /\ hook[w].known \in BOOLEAN
        /\ hook[w].known => Author[hook[w].pr] \in users
    BY <1>3 DEF HookRead, Ind, TypeOK, HookState, HookSeen
  <2>2. published_bounties(TRUE) \subseteq offered
    BY DEF published_bounties, Ind, PublishedOffered
  <2>3. published_bounties(TRUE) \subseteq Bounty
    BY DEF published_bounties, Ind, TypeOK
  <2>4. /\ h \in HookState /\ h.pc = "read" /\ (h.known => Author[h.pr] \in users)
        /\ h.published \subseteq offered
    BY <2>1, <2>2, <2>3 DEF HookState
  <2>5. hook' = [hook EXCEPT ![w] = h]
        /\ UNCHANGED <<bounties, offered, merged, delivery, users, accounts, sync>>
    BY <1>3 DEF HookRead, board, github
  <2> HIDE DEF h
  <2>6. QED
    BY <1>1, <2>4, <2>5 DEF Ind, TypeOK
<1>4. ASSUME HookIgnore(w) \/ HookFail(w)
      PROVE  Ind'
  <2>1. Idle \in HookState /\ Idle.pc = "idle"
    BY DEF Idle, HookState
  <2>2. hook' = [hook EXCEPT ![w] = Idle]
        /\ UNCHANGED <<bounties, offered, merged, users, accounts, sync>>
    BY <1>4 DEF HookIgnore, HookFail, Ends, board, github
  <2>3. delivery' \in [Prs -> {None, "pending", "processed"}]
    BY <1>4 DEF HookIgnore, HookFail, Ends, github, Ind, TypeOK
  <2>4. QED
    BY <1>1, <2>1, <2>2, <2>3
<1>5. QED
  BY <1>2, <1>3, <1>4, HookCommitStep DEF process_one

LEMMA SyncCommitStep ==
    ASSUME AwardConstants, Ind, NEW s \in Syncs, SyncCommit(s)
    PROVE  Ind'
<1> DEFINE seen == sync[s].published
           merges == {DetectedMerge(p, "search", matching_bounty(p, seen, TRUE), seen) :
                          p \in {q \in sync[s].found : ~is_self_merge(q)}}
<1>1. /\ sync[s].user \in users /\ sync[s].found \subseteq Prs
      /\ seen \subseteq {b \in offered : ~b.escrow}
      /\ \A p \in sync[s].found : Author[p] = sync[s].user
  BY DEF SyncCommit, Ind, TypeOK, SyncState, SyncSeen
<1>2. \A m \in merges : Sound(m, TRUE) /\ m.bounty \subseteq seen
  <2> SUFFICES ASSUME NEW p \in sync[s].found
               PROVE  LET m == DetectedMerge(p, "search", matching_bounty(p, seen, TRUE), seen)
                      IN  Sound(m, TRUE) /\ m.bounty \subseteq seen
    OBVIOUS
  <2>1. matching_bounty(p, seen, TRUE) \subseteq seen
    BY MatchIsRead
  <2>2. p \in Prs /\ Author[p] \in users /\ matching_bounty(p, seen, TRUE) \subseteq offered
    BY <1>1, <2>1
  <2> HIDE DEF seen
  <2>3. Sound(DetectedMerge(p, "search", matching_bounty(p, seen, TRUE), seen), TRUE)
    BY <2>2, DetectedIsSound
  <2>4. QED
    BY <2>1, <2>3 DEF DetectedMerge
<1>3. /\ record_pull_requests(merges) /\ record_merges(merges, TRUE)
      /\ sync' = [sync EXCEPT ![s] = Idle]
      /\ UNCHANGED <<bounties, offered, merged, delivery, users, cash, hook>>
  BY DEF SyncCommit, board, github
<1> HIDE DEF seen, merges
<1>4. /\ allocations \subseteq allocations'
      /\ allocations' \subseteq Award
      /\ ledger' = claimed' /\ claimed' \subseteq allocations'
      /\ \A a \in ledger' : a.person \in users'
      /\ counted' \subseteq People \X PrIds
      /\ NoConflict' /\ OfferedValue'
      /\ \A a \in allocations' \ allocations :
             a.kind = "bounty_award" => \E m \in merges : \E b \in m.bounty : a = BountyAward(m, b)
      /\ \A m \in merges : m.baseline =>
             \E a \in allocations' : /\ a.kind = "baseline_award"
                                     /\ a.person = m.person /\ a.id = m.id
  <2> DEFINE known == TRUE
  <2>1. /\ \A m \in merges : Sound(m, known)
        /\ record_merges(merges, known) /\ known \in BOOLEAN
    BY <1>2, <1>3
  <2>2. TypeOK /\ NoConflict /\ OfferedValue /\ users' = users /\ offered' = offered
    BY <1>3 DEF Ind
  <2> HIDE DEF known
  <2>3. QED
    BY <2>1, <2>2, RecordKeeps
<1>5. ShownIsReserved' /\ shown' \subseteq People \X PrIds
  <2>1. \A m \in merges : m.person \in People /\ m.id \in PrIds
    BY <1>2 DEF Sound
  <2>2. QED
    BY <1>3, <1>4, <2>1, ShownStep
<1>6. CashWithPoints'
  <2> SUFFICES ASSUME NEW a \in allocations', a.kind = "bounty_award"
               PROVE  a.escrow <=> a \in cash
    BY <1>3 DEF CashWithPoints
  <2>1. CASE a \in allocations
    BY <2>1 DEF Ind, CashWithPoints
  <2>2. CASE a \notin allocations
    <3>1. a \notin cash
      BY <2>2 DEF Ind, TypeOK
    <3>2. PICK m \in merges : \E b \in m.bounty : a = BountyAward(m, b)
      BY <1>4, <2>2
    <3>3. PICK b \in m.bounty : a = BountyAward(m, b)
      BY <3>2
    <3>4. ~b.escrow
      BY <1>1, <1>2
    <3>5. ~a.escrow
      BY <3>3, <3>4 DEF BountyAward
    <3>6. QED
      BY <3>1, <3>5
  <2>3. QED
    BY <2>1, <2>2
<1>7. cash' \subseteq {a \in allocations' : a.kind = "bounty_award"}
  BY <1>3, <1>4 DEF Ind, TypeOK
<1>8. sync' \in [Syncs -> SyncState] /\ SyncSeen'
  <2>1. Idle \in SyncState /\ Idle.pc = "idle"
    BY DEF Idle, SyncState
  <2>2. QED
    BY <1>3, <2>1, SyncOnly
<1>9. TypeOK'
  BY <1>3, <1>4, <1>5, <1>7, <1>8 DEF Ind, TypeOK
<1>10. PublishedOffered' /\ HookSeen'
  BY <1>3 DEF Ind, PublishedOffered, HookSeen
<1>11. QED
  BY <1>4, <1>5, <1>6, <1>8, <1>9, <1>10 DEF Ind

LEMMA SyncStep ==
    ASSUME AwardConstants, Ind, NEW s \in Syncs, run_sync(s)
    PROVE  Ind'
<1>1. ASSUME NEW h \in SyncState, sync' = [sync EXCEPT ![s] = h],
             h.pc \in {"begun", "fetched"} =>
                 h.user \in users' /\ h.published \subseteq {b \in offered : ~b.escrow},
             h.pc = "fetched" => \A p \in h.found : Author[p] = h.user,
             users \subseteq users', users' \subseteq People,
             UNCHANGED <<bounties, offered, merged, delivery, accounts, hook>>
      PROVE  Ind'
  <2>1. sync' \in [Syncs -> SyncState] /\ SyncSeen'
    BY <1>1, SyncOnly
  <2>2. TypeOK'
    BY <1>1, <2>1, AccountsKept DEF Ind, TypeOK
  <2>3. PublishedOffered' /\ HookSeen'
    BY <1>1 DEF Ind, PublishedOffered, HookSeen
  <2>4. QED
    BY <1>1, <2>1, <2>2, <2>3, AccountsKept DEF Ind
<1>2. ASSUME NEW p \in Prs, SyncBegin(s, Author[p])
      PROVE  Ind'
  <2> DEFINE h == [pc |-> "begun", user |-> Author[p], published |-> published_bounties(FALSE)]
  <2>1. Author[p] \in People
    BY DEF AwardConstants
  <2>2. published_bounties(FALSE) \subseteq {b \in offered : ~b.escrow}
    BY DEF published_bounties, Ind, PublishedOffered
  <2>3. published_bounties(FALSE) \subseteq Bounty
    BY DEF published_bounties, Ind, TypeOK
  <2>4. h \in SyncState /\ h.pc = "begun" /\ h.user = Author[p]
        /\ h.published \subseteq {b \in offered : ~b.escrow}
    BY <2>1, <2>2, <2>3 DEF SyncState
  <2>5. /\ sync' = [sync EXCEPT ![s] = h]
        /\ users' = users \cup {Author[p]}
        /\ UNCHANGED <<bounties, offered, merged, delivery, accounts, hook>>
    BY <1>2 DEF SyncBegin, board, github
  <2> HIDE DEF h
  <2>6. QED
    BY <1>1, <2>1, <2>4, <2>5 DEF Ind, TypeOK
<1>3. ASSUME NEW found \in SUBSET merged, SyncFetch(s, found)
      PROVE  Ind'
  <2> DEFINE h == [pc |-> "fetched", user |-> sync[s].user,
                   published |-> sync[s].published, found |-> found]
  <2>1. /\ sync[s].user \in People /\ sync[s].published \in SUBSET Bounty
        /\ sync[s].user \in users
        /\ sync[s].published \subseteq {b \in offered : ~b.escrow}
    BY <1>3 DEF SyncFetch, Ind, TypeOK, SyncState, SyncSeen
  <2>2. found \subseteq Prs /\ \A p \in found : Author[p] = sync[s].user
    BY <1>3 DEF SyncFetch, Ind, TypeOK
  <2>3. h \in SyncState /\ h.pc = "fetched" /\ h.user \in users
        /\ h.published \subseteq {b \in offered : ~b.escrow}
        /\ \A p \in h.found : Author[p] = h.user
    BY <2>1, <2>2 DEF SyncState
  <2>4. /\ sync' = [sync EXCEPT ![s] = h]
        /\ UNCHANGED <<bounties, offered, merged, delivery, users, accounts, hook>>
    BY <1>3 DEF SyncFetch, board, github
  <2> HIDE DEF h
  <2>5. QED
    BY <1>1, <2>3, <2>4 DEF Ind, TypeOK
<1>4. ASSUME SyncFail(s)
      PROVE  Ind'
  <2>1. Idle \in SyncState /\ Idle.pc = "idle"
    BY DEF Idle, SyncState
  <2>2. sync' = [sync EXCEPT ![s] = Idle]
        /\ UNCHANGED <<bounties, offered, merged, delivery, users, accounts, hook>>
    BY <1>4 DEF SyncFail, board, github
  <2>3. QED
    BY <1>1, <2>1, <2>2 DEF Ind, TypeOK
<1>5. QED
  BY <1>2, <1>3, <1>4, SyncCommitStep DEF run_sync

-----------------------------------------------------------------------------
(* The theorems.                                                           *)

LEMMA InitInd == AwardConstants /\ Init => Ind
<1> SUFFICES ASSUME AwardConstants, Init PROVE Ind
  OBVIOUS
<1>1. Idle \in HookState /\ Idle \in SyncState /\ Idle.pc = "idle"
  BY DEF Idle, HookState, SyncState
<1>2. TypeOK
  BY <1>1 DEF Init, TypeOK, AwardConstants
<1>3. HookSeen /\ SyncSeen
  BY <1>1 DEF Init, HookSeen, SyncSeen
<1>4. PublishedOffered /\ NoConflict /\ OfferedValue /\ CashWithPoints /\ ShownIsReserved
  BY DEF Init, PublishedOffered, NoConflict, OfferedValue, CashWithPoints, ShownIsReserved
<1>5. QED
  BY <1>2, <1>3, <1>4 DEF Ind

LEMMA StutterInd == Ind /\ UNCHANGED vars => Ind'
<1> SUFFICES ASSUME Ind, UNCHANGED vars PROVE Ind'
  OBVIOUS
<1>1. /\ UNCHANGED accounts
      /\ UNCHANGED <<bounties, offered, merged, users, delivery, hook, sync>>
  BY DEF vars, board, github
<1>2. TypeOK'
  BY <1>1, AccountsKept DEF Ind, TypeOK
<1>3. PublishedOffered' /\ HookSeen' /\ SyncSeen'
  BY <1>1 DEF Ind, PublishedOffered, HookSeen, SyncSeen
<1>4. QED
  BY <1>1, <1>2, <1>3, AccountsKept DEF Ind

\* Whatever maintainers, GitHub, contributors, workers and synchronisations
\* do, in any order and with any failures, the inductive invariant holds.
THEOREM Inductive == Spec => []Ind
<1>1. Init => Ind
  BY InitInd, AwardConstants
<1>2. Ind /\ [Next]_vars => Ind'
  BY AwardConstants, MaintainerStep, OutsideStep, HookStep, SyncStep, StutterInd DEF Next
<1>3. QED
  BY <1>1, <1>2, PTL DEF Spec

\* The tables keep their types, and the ledger has exactly the claimed awards.
THEOREM LedgerIsClaims == Spec => []TypeOK
<1>1. Ind => TypeOK
  BY DEF Ind
<1>2. QED
  BY <1>1, Inductive, PTL

\* No contributor's claim is ever blocked by an award paid to another: the
\* unique indexes of the reservations are strong enough for the ledger's.
THEOREM ClaimsGoThrough == Spec => []ClaimNeverBlocked
<1>1. Ind => ClaimNeverBlocked
  BY DEF Ind, TypeOK, NoConflict, Conflict, ClaimNeverBlocked, LedgerAccepts
<1>2. QED
  BY <1>1, Inductive, PTL

\* Awards are of values that were on offer, however stale the reading.
THEOREM AwardsAsOffered == Spec => []OfferedValue
<1>1. Ind => OfferedValue
  BY DEF Ind
<1>2. QED
  BY <1>1, Inductive, PTL

\* The cash of a bounty follows its points, and its points the evidence.
THEOREM CashFollowsPoints == Spec => []CashWithPoints
<1>1. Ind => CashWithPoints
  BY DEF Ind
<1>2. QED
  BY <1>1, Inductive, PTL

\* What a contributor is shown as merged has been awarded.
THEOREM ShownIsAwarded == Spec => []ShownIsReserved
<1>1. Ind => ShownIsReserved
  BY DEF Ind
<1>2. QED
  BY <1>1, Inductive, PTL

-----------------------------------------------------------------------------
(* Whose award it is.  Between the merge and the award lie the webhook's    *)
(* delivery or the search, a worker's or a synchronisation's reading, and   *)
(* the time both spend with GitHub.                                         *)

\* The award is of a merged pull request, its author's, not of the owner's own
\* merge; a bounty's is of an issue that pull request says it closes, the flat
\* one of a repository that took part.
Rightful(a) ==
    LET p == a.id[2]
    IN  /\ p \in merged
        /\ a.person = Author[p]
        /\ ~is_self_merge(p)
        /\ IF a.kind = "bounty_award"
           THEN \E k \in DOMAIN Closes[p] : Closes[p][k] = a.issue
           ELSE \E b \in offered : RepoOf[b.issue] = RepoOf[p]

\* Nobody is awarded for what was not merged, or for another's pull request.
AwardsRightful == \A a \in allocations : Rightful(a)

AwardsStay ==
    /\ allocations \subseteq allocations' /\ claimed \subseteq claimed'
    /\ ledger \subseteq ledger' /\ cash \subseteq cash'

\* No later reading, claim, withdrawal or retry takes an award, a ledger entry
\* or the cash of a bounty away again.
AwardsFinal == [][AwardsStay]_vars

\* A bounty's points and its cash have one winner.
OneWinner ==
    /\ \A a, b \in allocations :
           a.kind = "bounty_award" /\ b.kind = "bounty_award" /\ a.issue = b.issue => a = b
    /\ \A a, b \in cash : a.issue = b.issue => a = b

\* What is at work is about pull requests that were merged.
MergedSeen ==
    /\ \A p \in Prs : delivery[p] # None => p \in merged
    /\ \A w \in Workers : hook[w].pc \in {"user", "read"} => hook[w].pr \in merged
    /\ \A s \in Syncs : sync[s].pc = "fetched" => sync[s].found \subseteq merged

LEMMA Least ==
    ASSUME NEW T, T \subseteq Nat, T # {}
    PROVE  \E k \in T : \A j \in T : k <= j
<1>1. PICK k \in T : \A j \in T : <<j, k>> \notin OpToRel(<, Nat)
  BY WFMin, NatLessThanWellFounded
<1>2. \A j \in T : ~(j < k)
  BY <1>1 DEF OpToRel
<1> QED BY <1>2

\* A bounty a merge is paid by is on an issue that its pull request closes.
LEMMA MatchCloses ==
    ASSUME AwardConstants, NEW p \in Prs, NEW published, NEW known,
           NEW b \in matching_bounty(p, published, known)
    PROVE  \E k \in DOMAIN Closes[p] : Closes[p][k] = b.issue
<1> DEFINE hits == {k \in DOMAIN Closes[p] : Open(p, Closes[p][k], published, known) # {}}
           first == CHOOSE k \in hits : \A j \in hits : k <= j
<1>1. hits # {} /\ b \in Open(p, Closes[p][first], published, known)
  BY DEF matching_bounty
<1>2. hits \subseteq Nat
  BY DEF AwardConstants
<1>3. first \in hits
  <2>1. \E k \in hits : \A j \in hits : k <= j
    BY <1>1, <1>2, Least
  <2> HIDE DEF hits
  <2> QED BY <2>1
<1>4. b.issue = Closes[p][first]
  <2> HIDE DEF first
  <2> QED BY <1>1 DEF Open
<1> HIDE DEF first
<1> QED BY <1>3, <1>4

\* A merge that gives its author what it should.
Due(m) ==
    LET p == m.id[2]
    IN  /\ p \in merged
        /\ m.person = Author[p]
        /\ ~is_self_merge(p)
        /\ m.baseline => \E b \in offered : RepoOf[b.issue] = RepoOf[p]
        /\ \A b \in m.bounty : \E k \in DOMAIN Closes[p] : Closes[p][k] = b.issue

LEMMA DetectedIsDue ==
    ASSUME AwardConstants, NEW p \in Prs, p \in merged, ~is_self_merge(p),
           NEW api, NEW published, published \subseteq offered, NEW known,
           NEW bounty, bounty \subseteq matching_bounty(p, published, known)
    PROVE  Due(DetectedMerge(p, api, bounty, published))
<1> DEFINE m == DetectedMerge(p, api, bounty, published)
<1>1. /\ m.id[2] = p /\ m.person = Author[p] /\ m.bounty = bounty
      /\ m.baseline => tracked(p, published)
  BY DEF DetectedMerge, github_pr_id
<1>2. m.baseline => \E b \in offered : RepoOf[b.issue] = RepoOf[p]
  BY <1>1 DEF tracked
<1>3. \A b \in m.bounty : \E k \in DOMAIN Closes[p] : Closes[p][k] = b.issue
  BY <1>1, MatchCloses
<1>4. Due(m)
  <2> HIDE DEF m
  <2> QED BY <1>1, <1>2, <1>3 DEF Due
<1> QED BY <1>4

LEMMA RecordRightful ==
    ASSUME AwardsRightful, NEW merges, NEW known,
           \A m \in merges : Due(m),
           record_merges(merges, known),
           merged' = merged, offered' = offered
    PROVE  AwardsRightful' /\ allocations \subseteq allocations'
           /\ claimed \subseteq claimed' /\ ledger \subseteq ledger'
<1>1. PICK new \in SUBSET Earned(merges) :
          Reserve(Earned(merges), new) /\ CreditIfKnown(new, known)
  BY DEF record_merges
<1>2. allocations' = allocations \cup new /\ claimed \subseteq claimed' /\ ledger \subseteq ledger'
  BY <1>1 DEF Reserve, CreditIfKnown, credit
<1>3. ASSUME NEW a \in new PROVE Rightful(a)
  <2>1. PICK m \in merges : \/ m.baseline /\ a = BaselineAward(m)
                            \/ \E b \in m.bounty : a = BountyAward(m, b)
    BY EarnedIs
  <2>2. Due(m)
    OBVIOUS
  <2>3. CASE m.baseline /\ a = BaselineAward(m)
    <3>1. a.id = m.id /\ a.person = m.person /\ a.kind = "baseline_award"
      BY <2>3 DEF BaselineAward
    <3> QED BY <2>2, <2>3, <3>1 DEF Due, Rightful
  <2>4. CASE \E b \in m.bounty : a = BountyAward(m, b)
    <3>1. PICK b \in m.bounty : a = BountyAward(m, b)
      BY <2>4
    <3>2. /\ a.id = m.id /\ a.person = m.person /\ a.kind = "bounty_award"
          /\ a.issue = b.issue
      BY <3>1 DEF BountyAward
    <3> QED BY <2>2, <3>2 DEF Due, Rightful
  <2> QED BY <2>1, <2>3, <2>4
<1>4. \A a \in allocations : Rightful(a)
  BY DEF AwardsRightful
<1>5. \A a : Rightful(a) => Rightful(a)'
  BY DEF Rightful
<1> QED BY <1>2, <1>3, <1>4, <1>5 DEF AwardsRightful

RightInd == MergedSeen /\ AwardsRightful

\* A step that writes no award, and a worker or synchronisation that goes on
\* with merged pull requests.
LEMMA RightKept ==
    ASSUME RightInd, merged \subseteq merged', offered \subseteq offered',
           allocations' = allocations,
           \A p \in Prs : delivery'[p] # None => p \in merged',
           \A w \in Workers : hook'[w].pc \in {"user", "read"} => hook'[w].pr \in merged',
           \A s \in Syncs : sync'[s].pc = "fetched" => sync'[s].found \subseteq merged'
    PROVE  RightInd'
<1>1. \A a : Rightful(a) => Rightful(a)'
  BY DEF Rightful, is_self_merge
<1>2. AwardsRightful'
  BY <1>1 DEF RightInd, AwardsRightful
<1> QED BY <1>2 DEF RightInd, MergedSeen

LEMMA RightStep ==
    ASSUME AwardConstants, Ind, RightInd, [Next]_vars
    PROVE  RightInd' /\ AwardsStay
<1>1. /\ delivery \in [Prs -> {None, "pending", "processed"}]
      /\ hook \in [Workers -> HookState] /\ sync \in [Syncs -> SyncState]
  BY DEF Ind, TypeOK
<1>2. MergedSeen /\ AwardsRightful
  BY DEF RightInd
<1> USE DEF board, github, accounts
<1>3. CASE Maintainer \/ UNCHANGED vars
  <2>1. UNCHANGED <<merged, delivery, accounts, hook, sync>> /\ offered \subseteq offered'
    BY <1>3 DEF Maintainer, publish_bounties, update_bounty, Replace, vars
  <2> QED BY <1>2, <2>1, RightKept DEF MergedSeen, AwardsStay
<1>4. ASSUME NEW p \in Prs, Merge(p) \/ receive_webhook(p) PROVE RightInd' /\ AwardsStay
  <2>1. /\ UNCHANGED <<bounties, offered, accounts, hook, sync>> /\ merged \subseteq merged'
        /\ delivery' = delivery \/ (p \in merged' /\ delivery' = [delivery EXCEPT ![p] = "pending"])
    BY <1>4 DEF Merge, receive_webhook
  <2>2. \A q \in Prs : delivery'[q] # None => q \in merged'
    BY <1>1, <1>2, <2>1 DEF MergedSeen
  <2> QED BY <1>2, <2>1, <2>2, RightKept DEF MergedSeen, AwardsStay
<1>5. ASSUME NEW u \in People, Register(u) \/ claim_points(u) PROVE RightInd' /\ AwardsStay
  <2>1. /\ UNCHANGED <<offered, merged, delivery, allocations, cash, hook, sync>>
        /\ claimed \subseteq claimed' /\ ledger \subseteq ledger'
    BY <1>5 DEF Register, claim_points, credit
  <2> QED BY <1>2, <2>1, RightKept DEF MergedSeen, AwardsStay
<1>6. ASSUME NEW w \in Workers, NEW h,
             hook' = [hook EXCEPT ![w] = h], h.pc \in {"user", "read"} => h.pr \in merged,
             UNCHANGED <<offered, merged, accounts, sync>>,
             \A p \in Prs : delivery'[p] # None => delivery[p] # None
      PROVE  RightInd' /\ AwardsStay
  <2>1. \A v \in Workers : hook'[v] = IF v = w THEN h ELSE hook[v]
    BY <1>1, <1>6
  <2> QED BY <1>2, <1>6, <2>1, RightKept DEF MergedSeen, AwardsStay
<1>7. Idle.pc = "idle"
  BY DEF Idle
<1>8. ASSUME NEW w \in Workers, NEW p \in Prs, HookTake(w, p) PROVE RightInd' /\ AwardsStay
  <2> DEFINE h == [pc |-> "user", pr |-> p, known |-> Author[p] \in users]
  <2>1. hook' = [hook EXCEPT ![w] = h] /\ UNCHANGED <<offered, merged, accounts, sync, delivery>>
    BY <1>8 DEF HookTake
  <2>2. p \in merged
    BY <1>2, <1>8 DEF HookTake, MergedSeen, None
  <2>3. h.pr = p
    OBVIOUS
  <2> HIDE DEF h
  <2> QED BY <1>6, <2>1, <2>2, <2>3
<1>9. ASSUME NEW w \in Workers, HookRead(w) PROVE RightInd' /\ AwardsStay
  <2> DEFINE h == [pc |-> "read", pr |-> hook[w].pr, known |-> hook[w].known,
                   published |-> published_bounties(TRUE)]
  <2>1. hook' = [hook EXCEPT ![w] = h] /\ UNCHANGED <<offered, merged, accounts, sync, delivery>>
    BY <1>9 DEF HookRead
  <2>2. hook[w].pr \in merged
    BY <1>2, <1>9 DEF HookRead, MergedSeen
  <2>3. h.pr = hook[w].pr
    OBVIOUS
  <2> HIDE DEF h
  <2> QED BY <1>6, <2>1, <2>2, <2>3
<1>10. ASSUME NEW w \in Workers, HookIgnore(w) \/ HookFail(w) PROVE RightInd' /\ AwardsStay
  <2>1. hook[w].pc = "read" => hook[w].pr \in merged
    BY <1>2 DEF MergedSeen
  <2>2. CASE HookFail(w)
    BY <1>6, <1>7, <2>2 DEF HookFail
  <2>3. CASE HookIgnore(w)
    <3>1. hook' = [hook EXCEPT ![w] = Idle] /\ UNCHANGED <<offered, merged, accounts, sync>>
      BY <2>3 DEF HookIgnore, Ends
    <3>2. delivery' = [delivery EXCEPT ![hook[w].pr] = "processed"] /\ hook[w].pr \in merged
      BY <2>1, <2>3 DEF HookIgnore, Ends
    <3>3. \A p \in Prs : delivery'[p] # None => p \in merged'
      BY <1>1, <1>2, <3>1, <3>2 DEF MergedSeen
    <3>4. \A v \in Workers : hook'[v] = IF v = w THEN Idle ELSE hook[v]
      BY <1>1, <3>1
    <3> QED BY <1>2, <1>7, <3>1, <3>3, <3>4, RightKept DEF MergedSeen, AwardsStay
  <2> QED BY <1>10, <2>2, <2>3
<1>11. ASSUME NEW w \in Workers, NEW e \in BOOLEAN, HookCommit(w, e)
       PROVE  RightInd' /\ AwardsStay
  <2> DEFINE p == hook[w].pr
             seen == hook[w].published
             known == hook[w].known
             match == matching_bounty(p, seen, known)
             kept == {b \in match : b.escrow => e}
             m == DetectedMerge(p, "pulls", kept, seen)
  <2>1. /\ hook[w].pc = "read" /\ earns(p, seen, known)
        /\ record_merges({m}, known) /\ Ends(w)
        /\ cash \subseteq cash'
    BY <1>11 DEF HookCommit, reserve_cash_allocation
  <2>2. p \in Prs /\ p \in merged /\ seen \subseteq offered /\ ~is_self_merge(p)
    BY <1>1, <1>2, <2>1 DEF Ind, HookSeen, HookState, MergedSeen, earns
  <2>3. kept \subseteq matching_bounty(p, seen, known)
    OBVIOUS
  <2>4. /\ hook' = [hook EXCEPT ![w] = Idle]
        /\ delivery' = [delivery EXCEPT ![p] = "processed"]
        /\ UNCHANGED <<offered, merged, sync>>
    BY <2>1 DEF Ends
  <2> HIDE DEF p, seen, known, match, kept
  <2>5. Due(m)
    BY <2>2, <2>3, DetectedIsDue
  <2> HIDE DEF m
  <2>6. AwardsRightful' /\ allocations \subseteq allocations'
        /\ claimed \subseteq claimed' /\ ledger \subseteq ledger'
    BY <1>2, <2>1, <2>4, <2>5, RecordRightful
  <2>7. \A q \in Prs : delivery'[q] # None => q \in merged'
    BY <1>1, <1>2, <2>2, <2>4 DEF MergedSeen
  <2>8. \A v \in Workers : hook'[v] = IF v = w THEN Idle ELSE hook[v]
    BY <1>1, <2>4
  <2>9. MergedSeen'
    BY <1>2, <1>7, <2>4, <2>7, <2>8 DEF MergedSeen
  <2> QED BY <2>1, <2>6, <2>9 DEF RightInd, AwardsStay
<1>12. ASSUME NEW s \in Syncs, NEW h,
              sync' = [sync EXCEPT ![s] = h], h.pc = "fetched" => h.found \subseteq merged,
              UNCHANGED <<offered, merged, delivery, accounts, hook>>
       PROVE  RightInd' /\ AwardsStay
  <2>1. \A v \in Syncs : sync'[v] = IF v = s THEN h ELSE sync[v]
    BY <1>1, <1>12
  <2> QED BY <1>2, <1>12, <2>1, RightKept DEF MergedSeen, AwardsStay
<1>13. ASSUME NEW s \in Syncs, NEW p \in Prs, SyncBegin(s, Author[p])
       PROVE  RightInd' /\ AwardsStay
  <2> DEFINE h == [pc |-> "begun", user |-> Author[p], published |-> published_bounties(FALSE)]
  <2>1. sync' = [sync EXCEPT ![s] = h] /\ UNCHANGED <<offered, merged, delivery, accounts, hook>>
    BY <1>13 DEF SyncBegin
  <2>2. h.pc = "begun"
    OBVIOUS
  <2> HIDE DEF h
  <2> QED BY <1>12, <2>1, <2>2
<1>14. ASSUME NEW s \in Syncs, NEW found \in SUBSET merged, SyncFetch(s, found)
       PROVE  RightInd' /\ AwardsStay
  <2> DEFINE h == [pc |-> "fetched", user |-> sync[s].user,
                   published |-> sync[s].published, found |-> found]
  <2>1. sync' = [sync EXCEPT ![s] = h] /\ UNCHANGED <<offered, merged, delivery, accounts, hook>>
    BY <1>14 DEF SyncFetch
  <2>2. h.found = found
    OBVIOUS
  <2> HIDE DEF h
  <2> QED BY <1>12, <2>1, <2>2
<1>15. ASSUME NEW s \in Syncs, SyncFail(s) PROVE RightInd' /\ AwardsStay
  BY <1>7, <1>12, <1>15 DEF SyncFail
<1>16. ASSUME NEW s \in Syncs, SyncCommit(s) PROVE RightInd' /\ AwardsStay
  <2> DEFINE seen == sync[s].published
             merges == {DetectedMerge(p, "search", matching_bounty(p, seen, TRUE), seen) :
                            p \in {q \in sync[s].found : ~is_self_merge(q)}}
  <2>1. /\ sync[s].found \subseteq merged /\ sync[s].found \subseteq Prs /\ seen \subseteq offered
    BY <1>1, <1>2, <1>16 DEF SyncCommit, Ind, TypeOK, SyncSeen, MergedSeen
  <2>2. /\ record_merges(merges, TRUE) /\ sync' = [sync EXCEPT ![s] = Idle]
        /\ UNCHANGED <<offered, merged, delivery, cash, hook>>
    BY <1>16 DEF SyncCommit
  <2>3. \A m \in merges : Due(m)
    <3> SUFFICES ASSUME NEW p \in sync[s].found, ~is_self_merge(p)
                 PROVE  Due(DetectedMerge(p, "search", matching_bounty(p, seen, TRUE), seen))
      OBVIOUS
    <3> HIDE DEF seen
    <3> QED BY <2>1, DetectedIsDue
  <2> HIDE DEF merges
  <2>4. AwardsRightful' /\ allocations \subseteq allocations'
        /\ claimed \subseteq claimed' /\ ledger \subseteq ledger'
    BY <1>2, <2>2, <2>3, RecordRightful
  <2>5. \A v \in Syncs : sync'[v] = IF v = s THEN Idle ELSE sync[v]
    BY <1>1, <2>2
  <2>6. MergedSeen'
    BY <1>2, <1>7, <2>2, <2>5 DEF MergedSeen
  <2> QED BY <2>2, <2>4, <2>6 DEF RightInd, AwardsStay
<1> QED BY <1>3, <1>4, <1>5, <1>8, <1>9, <1>10, <1>11, <1>13, <1>14, <1>15, <1>16
        DEF Next, Outside, process_one, run_sync

LEMMA RightInit == AwardConstants /\ Init => RightInd
BY DEF Init, Idle, RightInd, MergedSeen, AwardsRightful

LEMMA RightInvariant == Spec => []RightInd
<1>1. Ind /\ RightInd /\ [Next]_vars => RightInd'
  BY AwardConstants, RightStep
<1> QED BY <1>1, RightInit, AwardConstants, Inductive, PTL DEF Spec

\* With any workers, syncs and delays, an award goes to the author of a merged
\* pull request that closes the issue, or was merged where bounties are offered.
THEOREM AwardsAreRightful == Spec => []AwardsRightful
<1>1. RightInd => AwardsRightful
  BY DEF RightInd
<1> QED BY <1>1, RightInvariant, PTL

\* A bounty is won once and for good, by points and by cash.
THEOREM WinnerIsFinal == Spec => []OneWinner /\ AwardsFinal
<1>1. Ind => OneWinner
  BY DEF Ind, TypeOK, NoConflict, Conflict, OneWinner
<1>2. Ind /\ RightInd /\ [Next]_vars => [AwardsStay]_vars
  BY AwardConstants, RightStep
<1> QED BY <1>1, <1>2, RightInvariant, Inductive, PTL DEF Spec, AwardsFinal
=============================================================================
