------------------------------- MODULE Awards -------------------------------
(***************************************************************************)
(* Who earns what for a merged pull request: maintainers publish bounties, *)
(* and both the contributor's sync (features/points) and GitHub's webhook  *)
(* (services/webhooks.py) turn merges into reserved awards, which become   *)
(* ledger entries at once or when the contributor registers and claims.    *)
(* Each path reads what is published, talks to GitHub for seconds, and     *)
(* then writes in one transaction; all of them run at the same time.       *)
(***************************************************************************)
EXTENDS Naturals, Sequences, FiniteSets

CONSTANTS People,       \* GitHub identities
          Maintainers,  \* those who may maintain the repositories
          Repos, Issues, Prs,
          Owner,        \* repository -> person
          RepoOf,       \* issue or pull request -> repository
          Author,       \* pull request -> person
          Closes,       \* pull request -> the issues it says it closes, in order
          Values,       \* points a maintainer may publish
          Flat,         \* FLAT_POINTS_PER_MERGE
          Workers,      \* webhook workers, one per process
          Syncs,        \* synchronisations under way
          MaxChanges    \* bound: changes maintainers make

ASSUME AwardConstants ==
    /\ Maintainers \subseteq People
    /\ Owner \in [Repos -> People]
    /\ RepoOf \in [Issues \cup Prs -> Repos]
    /\ Author \in [Prs -> People]
    /\ Closes \in [Prs -> Seq(Issues)]
    /\ Values \subseteq Nat \ {0}
    /\ Flat \in Nat \ {0}
    /\ MaxChanges \in Nat

VARIABLES bounties,     \* issue_points: the rows there are
          offered,      \* history: every bounty that was once on offer
          changes,      \* history: how many changes were made
          merged,       \* GitHub: the pull requests merged so far
          users,        \* the identities that have an account
          delivery,     \* webhook_deliveries, by the pull request they are about
          allocations,  \* reward_allocations
          claimed,      \* those whose ledger_entry_id is set
          ledger,       \* points_ledger, awards
          counted,      \* merged_prs: account and pull request id
          shown,        \* pull_requests: rows shown merged, with the flat award
          cash,         \* escrow_allocations: the award whose bounty pays it
          hook,         \* what each worker is doing
          sync          \* what each synchronisation is doing

board    == <<bounties, offered, changes>>
github   == <<merged, delivery>>
accounts == <<allocations, claimed, ledger, counted, shown, cash>>
vars     == <<board, github, users, accounts, hook, sync>>

None == "none"
Idle == [pc |-> "idle"]

Init == /\ bounties = {}
        /\ offered = {}
        /\ changes = 0
        /\ merged = {}
        /\ users = Maintainers
        /\ delivery = [p \in Prs |-> None]
        /\ allocations = {}
        /\ claimed = {}
        /\ ledger = {}
        /\ counted = {}
        /\ shown = {}
        /\ cash = {}
        /\ hook = [w \in Workers |-> Idle]
        /\ sync = [s \in Syncs |-> Idle]

-----------------------------------------------------------------------------
(* Maintainers.                                                            *)

Row(i) == {b \in bounties : b.issue = i}

Replace(i, b) ==
    /\ bounties' = (bounties \ Row(i)) \cup {b}
    /\ offered' = IF b.status = "published" THEN offered \cup {b} ELSE offered
    /\ changes < MaxChanges
    /\ changes' = changes + 1
    /\ UNCHANGED <<github, users, accounts, hook, sync>>

\* Insert or update; escrow only "on first publication".
publish_bounties(m, i, points, escrow) ==
    /\ escrow => Row(i) = {}
    /\ \E kept \in {escrow} \cup {b.escrow : b \in Row(i)} :
           /\ Row(i) # {} => kept \in {b.escrow : b \in Row(i)}
           /\ Replace(i, [issue |-> i, points |-> points, by |-> m,
                          status |-> "published", escrow |-> kept])

\* One row's value or status, under its lock.  "withdrawn" is unpublished or
\* archived: every reader asks for published bounties, none tells these apart.
update_bounty(i, points, status) ==
    \E b \in Row(i) :
        /\ <<points, status>> # <<b.points, b.status>>
        /\ Replace(i, [issue |-> i, points |-> points, by |-> b.by,
                       status |-> status, escrow |-> b.escrow])

-----------------------------------------------------------------------------
(* GitHub and the people on it.                                            *)

Merge(p) ==
    /\ p \notin merged
    /\ merged' = merged \cup {p}
    /\ UNCHANGED <<board, users, delivery, accounts, hook, sync>>

\* The event may come much later, or never; its id makes a second one the same.
receive_webhook(p) ==
    /\ p \in merged
    /\ delivery[p] = None
    /\ delivery' = [delivery EXCEPT ![p] = "pending"]
    /\ UNCHANGED <<board, merged, users, accounts, hook, sync>>

Register(u) ==
    /\ u \notin users
    /\ users' = users \cup {u}
    /\ UNCHANGED <<board, github, accounts, hook, sync>>

-----------------------------------------------------------------------------
(* What a merge is worth, by the bounties read.                            *)

\* Fault: withdrawn bounties still count.
AnyStatus(includeEscrow) ==
    {b \in bounties : includeEscrow \/ ~b.escrow}

\* Fault: the synchronisation reads escrow bounties too.
AnyMode(includeEscrow) == {b \in bounties : b.status = "published"}

published_bounties(includeEscrow) ==
    {b \in bounties : b.status = "published" /\ (includeEscrow \/ ~b.escrow)}

\* The bounties on an issue that the author (if an account is known) may have.
Open(p, issue, published, known) ==
    {b \in published : b.issue = issue /\ ~(known /\ b.by = Author[p])}

\* The first closing bounty, excluding the author's own: one or none.
matching_bounty(p, published, known) ==
    LET hits == {k \in DOMAIN Closes[p] : Open(p, Closes[p][k], published, known) # {}}
    IN  IF hits = {} THEN {}
        ELSE Open(p, Closes[p][CHOOSE k \in hits : \A j \in hits : k <= j], published, known)

tracked(p, published) == \E b \in published : RepoOf[b.issue] = RepoOf[p]

is_self_merge(p) == Author[p] = Owner[RepoOf[p]]

\* The id a pull request has: the search API gives the id of the issue that it
\* is, the pull request API its own.  GitHub numbers the two independently.
github_pr_id(p, api) == <<api, p>>

DetectedMerge(p, api, bounty, published) ==
    [person |-> Author[p], id |-> github_pr_id(p, api), bounty |-> bounty,
     baseline |-> tracked(p, published)]

-----------------------------------------------------------------------------
(* Reserving and crediting awards.                                         *)

BaselineAward(m) ==
    [person |-> m.person, id |-> m.id, kind |-> "baseline_award",
     issue |-> None, points |-> Flat, by |-> None, escrow |-> FALSE]

BountyAward(m, b) ==
    [person |-> m.person, id |-> m.id, kind |-> "bounty_award",
     issue |-> b.issue, points |-> b.points, by |-> b.by, escrow |-> b.escrow]

\* Fault: only a merge that merged_prs did not have yet is awarded.
NewlyCounted(merges) ==
    {BaselineAward(m) : m \in {n \in merges : n.baseline /\ <<n.person, n.id>> \notin counted}}
    \cup UNION {{BountyAward(m, b) : b \in m.bounty} : m \in merges}

\* record_merges: whether it was counted before or not.
Earned(merges) ==
    {BaselineAward(m) : m \in {n \in merges : n.baseline}}
    \cup UNION {{BountyAward(m, b) : b \in m.bounty} : m \in merges}

\* Fault: reward_allocations_bounty_once is missing.
SamePullRequest(a, b) == a.person = b.person /\ a.id = b.id /\ a.kind = b.kind

\* The two unique indexes of reward_allocations.
Conflict(a, b) ==
    \/ a.person = b.person /\ a.id = b.id /\ a.kind = b.kind
    \/ a.kind = "bounty_award" /\ b.kind = "bounty_award" /\ a.issue = b.issue

\* The two unique indexes of points_ledger: a breach aborts the transaction.
LedgerAccepts(a) ==
    \A e \in ledger :
        /\ ~(a.kind = "baseline_award" /\ e.kind = a.kind /\ e.person = a.person /\ e.id = a.id)
        /\ ~(a.kind = "bounty_award" /\ e.kind = a.kind /\ e.issue = a.issue)

\* The ledger entry, the link to it and the merged_prs row.
credit(awards) ==
    /\ \A a \in awards : LedgerAccepts(a)
    /\ ledger' = ledger \cup awards
    /\ claimed' = claimed \cup awards

\* Fault: an award is credited whether or not its owner has an account.
CreditAlways(awards, known) == credit(awards)

CreditIfKnown(awards, known) ==
    IF known THEN credit(awards) ELSE UNCHANGED <<ledger, claimed>>

\* record_merges inserts one award after the other, on conflict do nothing:
\* whatever the order, a largest set of them that does not conflict.
Reserve(wanted, new) ==
    /\ \A a \in new, b \in allocations : ~Conflict(a, b)
    /\ \A a, b \in new : Conflict(a, b) => a = b
    /\ \A a \in wanted \ new : \E b \in allocations \cup new : Conflict(a, b)
    /\ allocations' = allocations \cup new

record_merges(merges, known) ==
    /\ \E new \in SUBSET Earned(merges) :
           Reserve(Earned(merges), new) /\ CreditIfKnown(new, known)
    /\ counted' = IF known THEN counted \cup {<<m.person, m.id>> : m \in merges} ELSE counted

\* The rows written say what this reading says, whatever an earlier one said.
record_pull_requests(merges) ==
    shown' = (shown \ {<<m.person, m.id>> : m \in merges})
             \cup {<<m.person, m.id>> : m \in {n \in merges : n.baseline}}

\* POST /api/me/claims: every pending award of this identity, or none.
claim_points(u) ==
    LET pending == {a \in allocations \ claimed : a.person = u}
    IN  /\ u \in users
        /\ pending # {}
        /\ credit(pending)
        /\ counted' = counted \cup {<<a.person, a.id>> : a \in pending}
        /\ UNCHANGED <<board, github, users, allocations, shown, cash, hook, sync>>

-----------------------------------------------------------------------------
(* The webhook worker: one delivery per transaction, the row locked.       *)

\* Is there an account for the author?  Then: what is published?
HookTake(w, p) ==
    /\ hook[w] = Idle
    /\ delivery[p] = "pending"
    /\ \A v \in Workers : hook[v] # Idle => hook[v].pr # p
    /\ hook' = [hook EXCEPT ![w] = [pc |-> "user", pr |-> p, known |-> Author[p] \in users]]
    /\ UNCHANGED <<board, github, users, accounts, sync>>

HookRead(w) ==
    /\ hook[w].pc = "user"
    /\ hook' = [hook EXCEPT ![w] =
           [pc |-> "read", pr |-> hook[w].pr, known |-> hook[w].known,
            published |-> published_bounties(TRUE)]]
    /\ UNCHANGED <<board, github, users, accounts, sync>>

\* Cash goes with the bounty award if that award is this pull request's.
reserve_cash_allocation(awards) ==
    cash' = cash \cup {a \in awards \cap allocations' :
                           \A c \in cash : c.issue # a.issue}

\* A merge by the owner, or one that earns nothing, is "ignored".
earns(p, seen, known) ==
    ~is_self_merge(p) /\ (tracked(p, seen) \/ matching_bounty(p, seen, known) # {})

Ends(w) ==
    /\ delivery' = [delivery EXCEPT ![hook[w].pr] = "processed"]
    /\ hook' = [hook EXCEPT ![w] = Idle]
    /\ UNCHANGED <<board, merged, users, sync>>

HookIgnore(w) ==
    /\ hook[w].pc = "read"
    /\ ~earns(hook[w].pr, hook[w].published, hook[w].known)
    /\ Ends(w)
    /\ UNCHANGED accounts

\* With an escrow bounty, GitHub and the funding records must give evidence;
\* without it the bounty is left out, not the flat award.
HookCommit(w, evidence) ==
    /\ hook[w].pc = "read"
    /\ LET p == hook[w].pr
           seen == hook[w].published
           match == matching_bounty(p, seen, hook[w].known)
           kept == {b \in match : b.escrow => evidence}
           m == DetectedMerge(p, "pulls", kept, seen)
       IN  /\ earns(p, seen, hook[w].known)
           /\ evidence => \E b \in match : b.escrow
           /\ IF hook[w].known THEN record_pull_requests({m}) ELSE UNCHANGED shown
           /\ record_merges({m}, hook[w].known)
           /\ reserve_cash_allocation({BountyAward(m, b) : b \in {c \in kept : c.escrow}})
           /\ Ends(w)

\* An error, a restart or a lost connection: rolled back, retried later.
HookFail(w) ==
    /\ hook[w] # Idle
    /\ hook' = [hook EXCEPT ![w] = Idle]
    /\ UNCHANGED <<board, github, users, accounts, sync>>

-----------------------------------------------------------------------------
(* The contributor's synchronisation.                                      *)

SyncBegin(s, u) ==
    /\ sync[s] = Idle
    /\ users' = users \cup {u}
    /\ sync' = [sync EXCEPT ![s] =
           [pc |-> "begun", user |-> u, published |-> published_bounties(FALSE)]]
    /\ UNCHANGED <<board, github, accounts, hook>>

\* Some of the pull requests merged so far: since the cursor, page by page.
SyncFetch(s, found) ==
    /\ sync[s].pc = "begun"
    /\ found \subseteq {p \in merged : Author[p] = sync[s].user}
    /\ sync' = [sync EXCEPT ![s] =
           [pc |-> "fetched", user |-> sync[s].user,
            published |-> sync[s].published, found |-> found]]
    /\ UNCHANGED <<board, github, users, accounts, hook>>

SyncCommit(s) ==
    /\ sync[s].pc = "fetched"
    /\ LET seen == sync[s].published
           merges == {DetectedMerge(p, "search", matching_bounty(p, seen, TRUE), seen) :
                          p \in {q \in sync[s].found : ~is_self_merge(q)}}
       IN  record_pull_requests(merges) /\ record_merges(merges, TRUE)
    /\ sync' = [sync EXCEPT ![s] = Idle]
    /\ UNCHANGED <<board, github, users, cash, hook>>

\* GitHub's refusal, an error or a restart: nothing is written.
SyncFail(s) ==
    /\ sync[s] # Idle
    /\ sync' = [sync EXCEPT ![s] = Idle]
    /\ UNCHANGED <<board, github, users, accounts, hook>>

-----------------------------------------------------------------------------
Maintainer ==
    \/ \E m \in Maintainers, i \in Issues, v \in Values, e \in BOOLEAN :
           publish_bounties(m, i, v, e)
    \/ \E i \in Issues, v \in Values, t \in {"published", "withdrawn"} :
           update_bounty(i, v, t)

Outside == \/ \E p \in Prs : Merge(p) \/ receive_webhook(p)
           \/ \E u \in People : Register(u) \/ claim_points(u)

process_one(w) ==
    \/ \E p \in Prs : HookTake(w, p)
    \/ HookRead(w)
    \/ HookIgnore(w)
    \/ \E e \in BOOLEAN : HookCommit(w, e)
    \/ HookFail(w)

\* (A synchronisation of somebody without pull requests writes nothing.)
run_sync(s) ==
    \/ \E p \in Prs : SyncBegin(s, Author[p])
    \/ \E found \in SUBSET merged : SyncFetch(s, found)
    \/ SyncCommit(s)
    \/ SyncFail(s)

Next == \/ Maintainer
        \/ Outside
        \/ \E w \in Workers : process_one(w)
        \/ \E s \in Syncs : run_sync(s)

Spec == Init /\ [][Next]_vars

-----------------------------------------------------------------------------
(* Properties.                                                             *)

Bounty == [issue : Issues, points : Values, by : Maintainers,
           status : {"published", "withdrawn"}, escrow : BOOLEAN]

PrIds == {"pulls", "search"} \X Prs

Award == [person : People, id : PrIds, kind : {"baseline_award", "bounty_award"},
          issue : Issues \cup {None}, points : Nat,
          by : Maintainers \cup {None}, escrow : BOOLEAN]

HookState == [pc : {"idle"}]
             \cup [pc : {"user"}, pr : Prs, known : BOOLEAN]
             \cup [pc : {"read"}, pr : Prs, known : BOOLEAN, published : SUBSET Bounty]

SyncState == [pc : {"idle"}]
             \cup [pc : {"begun"}, user : People, published : SUBSET Bounty]
             \cup [pc : {"fetched"}, user : People, published : SUBSET Bounty, found : SUBSET Prs]

\* What holds of each variable's values; the ledger has the claimed awards,
\* no other, and every one for an identity that has an account.
TypeOK ==
    /\ bounties \subseteq Bounty
    /\ offered \subseteq Bounty
    /\ merged \subseteq Prs
    /\ users \subseteq People
    /\ delivery \in [Prs -> {None, "pending", "processed"}]
    /\ allocations \subseteq Award
    /\ ledger = claimed
    /\ claimed \subseteq allocations
    /\ \A a \in ledger : a.person \in users
    /\ cash \subseteq {a \in allocations : a.kind = "bounty_award"}
    /\ counted \subseteq People \X PrIds
    /\ shown \subseteq People \X PrIds
    /\ hook \in [Workers -> HookState]
    /\ sync \in [Syncs -> SyncState]

\* A claim credits all that is pending or fails as a whole, so one award that
\* the ledger would not accept blocks a contributor's claims for ever: no
\* reserved award is ever such a one, whoever else was paid in the meantime.
ClaimNeverBlocked ==
    \A a \in allocations \ claimed :
        /\ LedgerAccepts(a)
        /\ \A b \in allocations \ {a} :
               ~(a.kind = "bounty_award" /\ b.kind = a.kind /\ b.issue = a.issue)

\* An award is of a value the bounty was on offer for, by the maintainer who
\* then offered it, though it is read long before it is written; never of one
\* set while the bounty was unpublished.
OfferedValue ==
    \A a \in allocations : a.kind = "bounty_award" =>
        \E b \in offered : b.issue = a.issue /\ b.points = a.points /\ b.by = a.by

\* The points and the cash of an escrow bounty go to one pull request, and
\* neither without the other: no sync takes the points of a bounty whose cash
\* needs evidence, no webhook gives the cash to another than the winner.
CashWithPoints ==
    \A a \in allocations : a.kind = "bounty_award" => (a.escrow <=> a \in cash)

\* A contributor never sees a pull request merged in a participating
\* repository with no award beside it, also when it was recorded once before
\* the repository took part.
ShownIsReserved ==
    \A row \in shown : \E a \in allocations :
        a.kind = "baseline_award" /\ <<a.person, a.id>> = row

\* "One baseline entry per pull request per person."
BaselineOnce ==
    \A a, b \in ledger :
        /\ a.kind = "baseline_award" /\ b.kind = "baseline_award"
        /\ a.person = b.person /\ a.id[2] = b.id[2]
        => a = b
=============================================================================
