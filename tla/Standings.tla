----------------------------- MODULE Standings -----------------------------
(***************************************************************************)
(* What the site shows of points_ledger (features/points/store.py): each   *)
(* page sums the ledger again in its own way, corrections included.        *)
(***************************************************************************)
EXTENDS Moderation, Functions

CONSTANTS Login,        \* person -> place of the login in the alphabet
          PerPage       \* rows of a board's page

People == {Award[n].user : n \in DOMAIN Award}
PRs == {Award[n].pr : n \in DOMAIN Award}
Categories == {Award[n].category : n \in DOMAIN Award} \cup {"other"}
All == 0                \* the period that starts with the clock
Every == "every"        \* no category asked for

ASSUME StandingConstants ==
    /\ Login \in [People -> Nat]
    /\ \A u, v \in People : u # v => Login[u] # Login[v]
    /\ PerPage \in Nat \ {0}
    /\ Every \notin Categories

Sum(entries) == SumFunctionOnSet([n \in DOMAIN ledger |-> ledger[n].points], entries)

EntriesOf(u) == {n \in DOMAIN ledger : ledger[n].user = u}

Merges(entries) == Cardinality({ledger[n].pr : n \in entries})

\* merged_prs got its row with the first award, and keeps it.
user_totals(u) ==
    [points |-> Sum(EntriesOf(u)), merges |-> Merges(EntriesOf(u) \ Voids)]

\* coalesce(merged_at, created_at) >= since
Since(n, since) ==
    IF n \in Voids THEN ledger[n].created >= since ELSE ledger[n].merged >= since

\* The score of a week, or of all time.
user_points_since(u, since) == Sum({n \in EntriesOf(u) : Since(n, since)})

user_points_by_category(u) ==
    LET worth(c) == Sum({n \in EntriesOf(u) : ledger[n].category = c})
    IN  [c \in {d \in Categories : worth(d) # 0} |-> worth(c)]

\* awarded_points, as the lists of pull requests and of recent merges sum it.
awarded_points(u, p) == Sum({n \in EntriesOf(u) : ledger[n].pr = p})

-----------------------------------------------------------------------------
(* The boards.                                                             *)

Scoring(u, since, category) ==
    {n \in EntriesOf(u) : Since(n, since) /\ category \in {Every, ledger[n].category}}

\* Whose entries net to zero or less is left out.
Scored(since, category) == {u \in People : Sum(Scoring(u, since, category)) > 0}

\* Fault: equal points and merges are left in any order.
AnyOrder(u, v, since, category) ==
    LET a == Scoring(u, since, category)
        b == Scoring(v, since, category)
    IN  Sum(a) > Sum(b) \/ (Sum(a) = Sum(b) /\ Merges(a) > Merges(b))

\* points desc, merges desc, github_login asc
Before(u, v, since, category) ==
    LET a == Scoring(u, since, category)
        b == Scoring(v, since, category)
    IN  \/ Sum(a) > Sum(b)
        \/ Sum(a) = Sum(b) /\ Merges(a) > Merges(b)
        \/ Sum(a) = Sum(b) /\ Merges(a) = Merges(b) /\ Login[u] < Login[v]

Row(u, since, category) ==
    [user |-> u,
     rank |-> 1 + Cardinality({v \in Scored(since, category) : Before(v, u, since, category)}),
     points |-> Sum(Scoring(u, since, category)),
     merges |-> Merges(Scoring(u, since, category))]

Board(since, category) == {Row(u, since, category) : u \in Scored(since, category)}

OnPage(page) == (page - 1) * PerPage + 1 .. page * PerPage

\* order by position, github_login, limited to a page.
leaderboard(since, category, page) ==
    LET place(row) == Cardinality({other \in Board(since, category) :
            \/ other.rank < row.rank
            \/ other.rank = row.rank /\ Login[other.user] <= Login[row.user]})
    IN  {row \in Board(since, category) : place(row) \in OnPage(page)}

\* Where one person sits, on whatever page, or nowhere.
leaderboard_position(u, since, category) ==
    {row \in Board(since, category) : row.user = u}

-----------------------------------------------------------------------------
(* Properties.                                                             *)

\* How often moderators resolved a flag by withdrawing an entry.
Withdrawals(n) ==
    Cardinality({f \in Flags : flag[f].status = "withdrawn" /\ flag[f].entry = Ids[n]})

Left(n) == ledger[n].points * (1 - Withdrawals(n))

SumLeft(entries) == SumFunctionOnSet([n \in DOMAIN ledger |-> Left(n)], entries \ Voids)

\* Every page shows the same remainder: a person's total, each category, each
\* pull request and the boards of all time are the awards less what moderators
\* withdrew, so that no withdrawal counts on one page and not on another.  (An
\* award that two overlapping requests withdrew counts negative on all of them.)
ShownIsLeft ==
    \A u \in People :
        /\ user_totals(u).points = SumLeft(EntriesOf(u))
        /\ user_points_since(u, All) = SumLeft(EntriesOf(u))
        /\ \A c \in Categories :
               LET left == SumLeft({n \in EntriesOf(u) : ledger[n].category = c})
               IN  /\ c \in DOMAIN user_points_by_category(u) <=> left # 0
                   /\ left # 0 => user_points_by_category(u)[c] = left
                   /\ u \in Scored(All, c) <=> left > 0
        /\ \A p \in PRs : awarded_points(u, p) = SumLeft({n \in EntriesOf(u) : ledger[n].pr = p})

Pages == 1..Cardinality(People)

\* Whatever was withdrawn, and whoever is level with whom: the pages of a
\* board show the ranks one after the other, each held by one person, who is
\* told that rank when asking for it.
BoardWhole ==
    \A since \in 0..MaxTime, category \in Categories \cup {Every}, page \in Pages :
        LET shown == leaderboard(since, category, page)
            ranks == OnPage(page) \cap 1..Cardinality(Scored(since, category))
        IN  /\ {row.rank : row \in shown} = ranks
            /\ Cardinality(shown) = Cardinality(ranks)
            /\ \A row \in shown : leaderboard_position(row.user, since, category) = {row}
=============================================================================
