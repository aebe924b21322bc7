------------------------------ MODULE SyncRuns ------------------------------
(***************************************************************************)
(* One contributor's synchronisation runs (sync_state.py, run_sync and     *)
(* merged_prs): each walks GitHub's search page by page from a cursor the  *)
(* runs before it left, looks up reviews, and writes what it read, long    *)
(* after it read it.  Runs die, fail, and are given up while they still    *)
(* work; the search index lags behind the pull requests.                   *)
(***************************************************************************)
EXTENDS Integers, FiniteSets

CONSTANTS PRs,          \* the contributor's pull requests
          Runs,         \* slots for sync_runs rows and their background tasks
          PerPage,      \* search results per page: 100
          MaxPages,     \* pages walked: 10
          Day,          \* the day taken off the cursor
          StaleAfter,   \* thirty minutes
          RunLimit,     \* what a run can take: its requests' timeouts add up
          IndexLag,     \* what GitHub's search index may be behind
          Stages,       \* bound: where a pull request can be
          Verdicts,     \* bound: what reviewers say
          MaxTime       \* bound: the clock's last value, standing for all later

ASSUME SyncConstants ==
    /\ IsFiniteSet(PRs)
    /\ {PerPage, MaxPages, MaxTime} \subseteq Nat \ {0}
    /\ {Day, StaleAfter, RunLimit, IndexLag} \subseteq Nat
    /\ RunLimit + IndexLag <= Day
    /\ Stages \subseteq {"draft", "open", "closed", "merged"}
    /\ Verdicts \subseteq {"reviewed", "approved", "changes"}

VARIABLES clock,
          gh,           \* GitHub: each pull request's stage, reviews, update
          index,        \* what the search reports of it
          shown,        \* pull_requests: the row recorded for it
          cursor,       \* the greatest cursor_merged_at of a succeeded run
          row,          \* sync_runs: running, or closed (succeeded or failed)
          task          \* the background tasks of live processes

github   == <<gh, index>>
syncVars == <<clock, github, shown, cursor, row, task>>

Beginning == 0          \* SQL null where a time could be: no cursor, no update

NotOpened == [stage |-> "absent", verdict |-> "none", updated |-> Beginning]

Gone == [pc |-> "gone"]

Closed == [status |-> "closed", started |-> Beginning]

SyncInit ==
    /\ clock = 1
    /\ gh = [p \in PRs |-> NotOpened]
    /\ index = [p \in PRs |-> NotOpened]
    /\ shown = [p \in PRs |-> "none"]
    /\ cursor = Beginning
    /\ row = [r \in Runs |-> Closed]
    /\ task = [r \in Runs |-> Gone]

-----------------------------------------------------------------------------
(* GitHub.                                                                 *)

\* Drafts become open, open ones are reviewed, closed, reopened, merged.
Later(pr) ==
    CASE pr.stage = "absent" -> {"draft", "open"} \X {"none"}
      [] pr.stage = "draft"  -> {"open"} \X {"none"}
      [] pr.stage = "open"   -> ({"open"} \X Verdicts)
                                \cup ({"draft", "closed", "merged"} \X {pr.verdict})
      [] pr.stage = "closed" -> {"open"} \X {pr.verdict}
      [] pr.stage = "merged" -> {}

\* Every change moves updated_at; no two at one instant.
Update(p) ==
    /\ \A q \in PRs : gh[q].updated < clock
    /\ \E new \in {l \in Later(gh[p]) : l[1] \in Stages} :
           gh' = [gh EXCEPT ![p] = [stage |-> new[1], verdict |-> new[2], updated |-> clock]]
    /\ UNCHANGED <<clock, index, shown, cursor, row, task>>

Reindex(p) ==
    /\ index[p] # gh[p]
    /\ index' = [index EXCEPT ![p] = gh[p]]
    /\ UNCHANGED <<clock, gh, shown, cursor, row, task>>

Tick ==
    /\ clock < MaxTime
    /\ \A p \in PRs : index[p] # gh[p] => clock - gh[p].updated < IndexLag
    /\ \A r \in Runs : task[r] # Gone => clock - task[r].started < RunLimit
    /\ clock' = clock + 1
    /\ UNCHANGED <<github, shown, cursor, row, task>>

-----------------------------------------------------------------------------
(* A run begins.                                                           *)

Stale(r) ==
    /\ row[r].status = "running"
    /\ clock - row[r].started > StaleAfter \/ clock = MaxTime

\* Runs still "running" after thirty minutes are closed as interrupted.
release_stale ==
    [r \in Runs |-> IF Stale(r) THEN Closed ELSE row[r]]

\* Any user's request closes everybody's stale runs.
Release ==
    /\ \E r \in Runs : Stale(r)
    /\ row' = release_stale
    /\ UNCHANGED <<clock, github, shown, cursor, task>>

\* Fault: two requests may both insert a running row.
AnyRunning == TRUE

\* sync_runs_one_running_per_user
NoneRunning == \A q \in Runs : release_stale[q].status # "running"

\* full=true ignores the cursor.
begin(r) ==
    /\ task[r] = Gone
    /\ NoneRunning
    /\ row' = [release_stale EXCEPT ![r] = [status |-> "running", started |-> clock]]
    /\ \E since \in {cursor, Beginning} :
           task' = [task EXCEPT ![r] = [pc |-> "search", started |-> clock, since |-> since,
                                        page |-> 1, seen |-> [p \in {} |-> NotOpened]]]
    /\ UNCHANGED <<clock, github, shown, cursor>>

-----------------------------------------------------------------------------
(* It reads GitHub.                                                        *)

\* Fault: the search starts at the cursor itself.
SinceExactly(since) == since

\* updated:>= a day before the cursor.
updatedFrom(since) == since - Day

Hits(r) == {p \in PRs : /\ index[p].stage # "absent"
                        /\ index[p].updated >= updatedFrom(task[r].since)}

\* sort=updated, order=desc
Rank(r, p) == Cardinality({q \in Hits(r) : index[q].updated >= index[p].updated})

Page(r) == {p \in Hits(r) : Rank(r, p) > (task[r].page - 1) * PerPage
                            /\ Rank(r, p) <= task[r].page * PerPage}

\* Between two pages an update moves a pull request to one already read.
fetch_authored_prs(r) ==
    LET items == Page(r)
        seen  == [p \in DOMAIN task[r].seen \cup items |->
                     IF p \in items THEN index[p] ELSE task[r].seen[p]]
    IN  /\ task[r].pc = "search"
        /\ task' = [task EXCEPT ![r] =
               IF Cardinality(items) < PerPage \/ task[r].page = MaxPages
               THEN [task[r] EXCEPT !.pc = "reviews", !.seen = seen]
               ELSE [task[r] EXCEPT !.page = @ + 1, !.seen = seen]]
        /\ UNCHANGED <<clock, github, shown, cursor, row>>

\* A merge outranks closing, closing a draft, and only an open one has a
\* review state: "none" when it could not be looked up.
pull_request_state(stage, review) ==
    IF stage # "open" THEN stage
    ELSE CASE review = "changes"  -> "changes_requested"
           [] review = "approved" -> "approved"
           [] review = "reviewed" -> "in_review"
           [] review = "none"     -> "open"

\* The latest decisive review of each reviewer, as they stand when asked for
\* and not when the search was made.
fetch_review_state(p) == gh[p].verdict

\* A lookup that fails costs the pull request its label only.
review_for(p, item, failing) ==
    IF item.stage # "open" \/ p \in failing THEN "none" ELSE fetch_review_state(p)

assess(r) ==
    /\ task[r].pc = "reviews"
    /\ \E failing \in SUBSET {p \in DOMAIN task[r].seen : task[r].seen[p].stage = "open"} :
           task' = [task EXCEPT ![r] =
               [pc |-> "write", started |-> task[r].started, since |-> task[r].since,
                rows |-> [p \in DOMAIN task[r].seen |->
                    [state |-> pull_request_state(task[r].seen[p].stage,
                                                  review_for(p, task[r].seen[p], failing)),
                     updated |-> task[r].seen[p].updated]]]]
    /\ UNCHANGED <<clock, github, shown, cursor, row>>

-----------------------------------------------------------------------------
(* It writes, whatever was written meanwhile, and then closes its run.     *)

Newest(rows, since) ==
    IF DOMAIN rows = {} THEN since
    ELSE CHOOSE t \in {rows[p].updated : p \in DOMAIN rows} :
             \A p \in DOMAIN rows : rows[p].updated <= t

\* The rows and the awards, in one transaction.
record_pull_requests(r) ==
    /\ task[r].pc = "write"
    /\ shown' = [p \in PRs |-> IF p \in DOMAIN task[r].rows THEN task[r].rows[p].state
                                        ELSE shown[p]]
    /\ task' = [task EXCEPT ![r] = [pc |-> "finish", started |-> task[r].started,
                                    newest |-> Newest(task[r].rows, task[r].since)]]
    /\ UNCHANGED <<clock, github, cursor, row>>

\* Of the succeeded runs the greatest cursor counts, not the last.
NewCursor(r) == IF task[r].newest > cursor THEN task[r].newest ELSE cursor

\* The row is closed whatever became of it; a released run succeeds too.
succeed(r) ==
    /\ task[r].pc = "finish"
    /\ cursor' = NewCursor(r)
    /\ row' = [row EXCEPT ![r] = Closed]
    /\ task' = [task EXCEPT ![r] = Gone]
    /\ UNCHANGED <<clock, github, shown>>

\* GitHub limits, refuses or breaks, or anything else is raised.
fail(r) ==
    /\ task[r].pc \in {"search", "reviews"}
    /\ row' = [row EXCEPT ![r] = Closed]
    /\ task' = [task EXCEPT ![r] = Gone]
    /\ UNCHANGED <<clock, github, shown, cursor>>

\* The process dies and leaves the row as it is.  So it does when the
\* database fails after the fetching, which no except clause covers.
Die(r) ==
    /\ task[r] # Gone
    /\ task' = [task EXCEPT ![r] = Gone]
    /\ UNCHANGED <<clock, github, shown, cursor, row>>

-----------------------------------------------------------------------------
run_sync(r) ==
    \/ begin(r)
    \/ fetch_authored_prs(r)
    \/ assess(r)
    \/ record_pull_requests(r)
    \/ succeed(r)
    \/ fail(r)
    \/ Die(r)

SyncNext ==
    \/ \E p \in PRs : Update(p) \/ Reindex(p)
    \/ Tick
    \/ Release
    \/ \E r \in Runs : run_sync(r)

SyncSpec == SyncInit /\ [][SyncNext]_syncVars

-----------------------------------------------------------------------------
(* Properties.                                                             *)

States == {"draft", "open", "in_review", "approved", "changes_requested", "closed", "merged"}

\* What holds of each variable's values; at most one run of the user is
\* recorded as running, and the cursor is a time GitHub has reported.
SyncTypeOK ==
    /\ clock \in 1..MaxTime
    /\ \A p \in PRs : /\ index[p].updated <= gh[p].updated
                      /\ gh[p].updated <= clock
                      /\ shown[p] \in States \cup {"none"}
    /\ \A q, r \in Runs : row[q].status = "running" /\ row[r].status = "running" => q = r
    /\ cursor \in Beginning..clock

\* What the site shows of a pull request, up to a review it could not look
\* up, is what GitHub says.
Current(p) ==
    IF gh[p].stage = "absent" THEN shown[p] = "none"
    ELSE shown[p] \in {pull_request_state(gh[p].stage, gh[p].verdict),
                       pull_request_state(gh[p].stage, "none")}

\* The cursor passes nothing: a pull request that the site shows wrongly is
\* one the next incremental run asks for, though runs overlap, write late
\* and out of order, miss what moves between pages, and the index lags.
CursorSafe ==
    \A p \in PRs : ~Current(p) => gh[p].updated >= updatedFrom(cursor)
=============================================================================
