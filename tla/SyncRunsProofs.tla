--------------------------- MODULE SyncRunsProofs ---------------------------
(***************************************************************************)
(* The cursor of a contributor's synchronisation passes nothing that the   *)
(* site shows wrongly, for any number of runs, any page size, any stale    *)
(* limit, and any lag of the index that the day of slack covers.           *)
(***************************************************************************)
EXTENDS SyncRuns, SumsAndRanks, TLAPS

\* The hypothesis of CursorKept: the contributor has no more pull requests
\* than the pages walked can hold.  Beyond that the oldest are never read.
AllWalked == Cardinality(PRs) <= MaxPages * PerPage

-----------------------------------------------------------------------------
(* The invariant.                                                          *)

Stage == {"absent", "draft", "open", "closed", "merged"}

Verdict == {"none", "reviewed", "approved", "changes"}

Known == [stage : Stage, verdict : Verdict, updated : Nat]

Noted == [state : States, updated : Nat]

\* A function on some of the pull requests.
Partly(f, T) ==
    /\ f = [p \in DOMAIN f |-> f[p]]
    /\ DOMAIN f \subseteq PRs
    /\ \A p \in DOMAIN f : f[p] \in T

Reading(t) ==
    /\ t = [pc |-> t.pc, started |-> t.started, since |-> t.since, page |-> t.page,
            seen |-> t.seen]
    /\ t.pc \in {"search", "reviews"}
    /\ t.started \in Nat /\ t.since \in Nat /\ t.page \in Nat \ {0}
    /\ Partly(t.seen, Known)

Writing(t) ==
    /\ t = [pc |-> "write", started |-> t.started, since |-> t.since, rows |-> t.rows]
    /\ t.started \in Nat /\ t.since \in Nat
    /\ Partly(t.rows, Noted)

Closing(t) ==
    /\ t = [pc |-> "finish", started |-> t.started, newest |-> t.newest]
    /\ t.started \in Nat /\ t.newest \in Nat

Task(t) == t = Gone \/ Reading(t) \/ Writing(t) \/ Closing(t)

Typed ==
    /\ clock \in Nat \ {0}
    /\ gh \in [PRs -> Known]
    /\ index \in [PRs -> Known]
    /\ shown \in [PRs -> States \cup {"none"}]
    /\ cursor \in Nat
    /\ row \in [Runs -> [status : {"running", "closed"}, started : Nat]]
    /\ task = [r \in Runs |-> task[r]]
    /\ \A r \in Runs : Task(task[r])

\* What the index reports of a pull request was true; it is true still, or
\* the last change is no older than the lag.  Nothing shown is not on GitHub.
Indexed ==
    \A p \in PRs :
        /\ index[p].updated <= gh[p].updated /\ gh[p].updated <= clock
        /\ gh[p].updated = 0 <=> gh[p].stage = "absent"
        /\ index[p].updated = 0 <=> index[p].stage = "absent"
        /\ index[p] # gh[p] => /\ index[p].updated < gh[p].updated
                               /\ clock <= gh[p].updated + IndexLag
        /\ gh[p].stage = "absent" => shown[p] = "none"

\* No two updates at one instant, so that the search has one order.
Apart ==
    \A p, q \in PRs : p # q => /\ gh[p].updated = gh[q].updated => gh[p].updated = 0
                               /\ index[p].updated = gh[q].updated => index[p].updated = 0
                               /\ index[p].updated = index[q].updated => index[p].updated = 0

\* A task is as old as a run can be, and started from a cursor that was.
TimelyTask(t) ==
    /\ t # Gone => t.started <= clock /\ clock <= t.started + RunLimit
    /\ Reading(t) \/ Writing(t) => t.since <= cursor
    /\ Closing(t) => t.newest <= clock

Timely == \A r \in Runs : TimelyTask(task[r])

Bounded == cursor <= clock /\ clock <= MaxTime

\* The pull request changed after the run read it, which the index had not
\* shown when the run began.
Missed(t, p) == t.started <= gh[p].updated + IndexLag

Labels(p) == {pull_request_state(gh[p].stage, gh[p].verdict),
              pull_request_state(gh[p].stage, "none")}

\* What a run carries is as GitHub has it, or older than a change it missed.
CarriesRead(t) ==
    \A p \in DOMAIN t.seen :
        /\ gh[p].stage # "absent"
        /\ t.seen[p].stage # "absent"
        /\ t.seen[p].updated <= gh[p].updated
        /\ t.seen[p] = gh[p] \/ Missed(t, p)

CarriesRows(t) ==
    \A p \in DOMAIN t.rows :
        /\ gh[p].stage # "absent"
        /\ t.rows[p].updated <= gh[p].updated
        /\ t.rows[p].state \in Labels(p) \/ Missed(t, p)

Carried ==
    \A r \in Runs : /\ Reading(task[r]) => CarriesRead(task[r])
                    /\ Writing(task[r]) => CarriesRows(task[r])

OneRunning ==
    \A q, r \in Runs : row[q].status = "running" /\ row[r].status = "running" => q = r

Base == Typed /\ Indexed /\ Apart /\ Timely /\ Bounded /\ Carried /\ OneRunning

\* What a run must find: it was asked for and had settled when the run began.
Due(t, p) ==
    /\ gh[p].stage # "absent"
    /\ gh[p].updated + IndexLag < t.started
    /\ gh[p].updated >= updatedFrom(t.since)

\* A run has found what it must, or has it on a page still to come.
Walked ==
    \A r \in Runs, p \in PRs :
        /\ Reading(task[r]) /\ Due(task[r], p) =>
               \/ p \in DOMAIN task[r].seen
               \/ task[r].pc = "search" /\ Rank(r, p) > (task[r].page - 1) * PerPage
        /\ Writing(task[r]) /\ Due(task[r], p) => p \in DOMAIN task[r].rows

Passes(t, p) == ~Current(p) => gh[p].updated >= updatedFrom(t)

\* A cursor about to be written passes nothing either.
Finishing ==
    \A r \in Runs : Closing(task[r]) =>
        task[r].newest <= cursor \/ \A p \in PRs : Passes(task[r].newest, p)

IInv == Base /\ Walked /\ Finishing /\ CursorSafe

-----------------------------------------------------------------------------
(* The pull requests of a task, and the states they are recorded in.       *)

\* The four kinds of task, told apart by pc.
LEMMA Kinds ==
    ASSUME NEW t, Task(t)
    PROVE  /\ t.pc = "gone" <=> t = Gone
           /\ t.pc \in {"search", "reviews"} <=> Reading(t)
           /\ t.pc = "write" <=> Writing(t)
           /\ t.pc = "finish" <=> Closing(t)
<1>1. ASSUME t = Gone PROVE t.pc = "gone"
  BY <1>1 DEF Gone
<1>2. Reading(t) => t.pc \in {"search", "reviews"}
  BY DEF Reading
<1>3. Writing(t) => t.pc = "write"
  BY DEF Writing
<1>4. Closing(t) => t.pc = "finish"
  BY DEF Closing
<1>5. t = Gone \/ Reading(t) \/ Writing(t) \/ Closing(t)
  BY DEF Task
<1> QED BY <1>1, <1>2, <1>3, <1>4, <1>5

\* A partial function that is written down is one.
LEMMA PartlyWritten ==
    ASSUME NEW D, D \subseteq PRs, NEW T, NEW f, f = [p \in D |-> f[p]], \A p \in D : f[p] \in T
    PROVE  Partly(f, T) /\ DOMAIN f = D
<1>1. DOMAIN f = D
  OBVIOUS
<1> QED BY <1>1 DEF Partly

\* Every stage but absent is recorded as a state.
LEMMA StatesAre ==
    ASSUME NEW stage \in Stage \ {"absent"}, NEW verdict \in Verdict
    PROVE  pull_request_state(stage, verdict) \in States
BY DEF pull_request_state, Stage, Verdict, States

\* A pull request on GitHub is shown rightly in one of its two states.
LEMMA CurrentIs ==
    ASSUME NEW p \in PRs, gh[p].stage # "absent"
    PROVE  Current(p) <=> shown[p] \in Labels(p)
BY DEF Current, Labels

\* The constants are numbers, and the day covers a run and the lag.
LEMMA Constants ==
    /\ IsFiniteSet(PRs)
    /\ PerPage \in Nat \ {0} /\ MaxPages \in Nat \ {0} /\ MaxTime \in Nat \ {0}
    /\ Day \in Nat /\ StaleAfter \in Nat /\ RunLimit \in Nat /\ IndexLag \in Nat
    /\ RunLimit + IndexLag <= Day
    /\ Stages \subseteq Stage \ {"absent"} /\ Verdicts \subseteq Verdict
BY SyncConstants DEF Stage, Verdict

\* The newest of what a run wrote is one of its times, none of them later.
LEMMA NewestIs ==
    ASSUME NEW rows, Partly(rows, Noted), NEW since \in Nat
    PROVE  /\ Newest(rows, since) \in Nat
           /\ DOMAIN rows = {} => Newest(rows, since) = since
           /\ DOMAIN rows # {} => \E p \in DOMAIN rows : Newest(rows, since) = rows[p].updated
<1>1. CASE DOMAIN rows = {}
  BY <1>1 DEF Newest
<1>2. CASE DOMAIN rows # {}
  <2> DEFINE D == DOMAIN rows
             f == [p \in D |-> rows[p].updated]
             times == {rows[p].updated : p \in D}
             isNewest(t) == \A p \in D : rows[p].updated <= t
  <2>1. IsFiniteSet(D)
    BY Constants, FS_Subset DEF Partly
  <2>2. \A p \in D : f[p] = rows[p].updated /\ f[p] \in Nat
    BY DEF Partly, Noted
  <2> HIDE DEF f
  <2>3. PICK m \in D : \A p \in D : f[p] <= f[m]
    BY <1>2, <2>1, <2>2, GreatestIn
  <2>4. \E t \in times : isNewest(t)
    BY <2>2, <2>3
  <2>5. Newest(rows, since) = CHOOSE t \in times : isNewest(t)
    BY <1>2 DEF Newest
  <2>6. Newest(rows, since) \in times
    <3> HIDE DEF times, isNewest
    <3> QED BY <2>4, <2>5
  <2>7. PICK p \in D : Newest(rows, since) = rows[p].updated
    BY <2>6
  <2> QED BY <1>2, <2>2, <2>7
<1> QED BY <1>1, <1>2
-----------------------------------------------------------------------------
(* GitHub moves on.                                                        *)

\* Nothing is known, shown or read at first.
LEMMA InitHolds == SyncInit => IInv
<1> SUFFICES ASSUME SyncInit PROVE IInv
  OBVIOUS
<1> USE DEF SyncInit
<1>1. Typed
  <2>1. NotOpened \in Known
    BY DEF NotOpened, Known, Stage, Verdict, Beginning
  <2> QED BY <2>1 DEF Typed, Closed, Beginning, Task
<1>2. Indexed
  BY DEF Indexed, NotOpened, Beginning
<1>3. Apart
  BY DEF Apart, NotOpened, Beginning
<1>4. \A r \in Runs : ~Reading(task[r]) /\ ~Writing(task[r]) /\ ~Closing(task[r])
  BY DEF Reading, Writing, Closing, Gone
<1>5. Timely /\ Carried /\ Walked /\ Finishing
  BY <1>4 DEF Timely, TimelyTask, Carried, Walked, Finishing
<1>6. Bounded /\ OneRunning
  BY Constants DEF Bounded, OneRunning, Beginning, Closed
<1>7. CursorSafe
  BY DEF CursorSafe, Current, NotOpened
<1> QED BY <1>1, <1>2, <1>3, <1>5, <1>6, <1>7 DEF IInv, Base

\* A change on GitHub has a stage and a verdict that exist.
LEMMA LaterIsKnown ==
    ASSUME NEW pr \in Known, NEW l \in Later(pr), l[1] \in Stages
    PROVE  l[1] \in Stage \ {"absent"} /\ l[2] \in Verdict
<1>1. l[2] \in Verdicts \cup {"none", pr.verdict}
  BY DEF Later, Known, Stage
<1> QED BY <1>1, Constants DEF Known, Verdict

\* What an update does.
LEMMA UpdateDoes ==
    ASSUME Typed, NEW p \in PRs, Update(p)
    PROVE  /\ gh'[p] \in Known /\ gh'[p].stage # "absent" /\ gh'[p].updated = clock
           /\ \A q \in PRs : q # p => gh'[q] = gh[q]
           /\ gh' \in [PRs -> Known]
           /\ \A q \in PRs : gh[q].updated < clock
<1>1. PICK new \in Later(gh[p]) :
          /\ new[1] \in Stages
          /\ gh' = [gh EXCEPT ![p] = [stage |-> new[1], verdict |-> new[2], updated |-> clock]]
  BY DEF Update
<1>2. gh[p] \in Known /\ clock \in Nat
  BY DEF Typed
<1>3. new[1] \in Stage \ {"absent"} /\ new[2] \in Verdict
  BY <1>1, <1>2, LaterIsKnown
<1>4. gh'[p] = [stage |-> new[1], verdict |-> new[2], updated |-> clock]
  BY <1>1 DEF Typed
<1>5. gh'[p] \in Known /\ gh'[p].stage # "absent" /\ gh'[p].updated = clock
  BY <1>2, <1>3, <1>4 DEF Known
<1>6. \A q \in PRs : q # p => gh'[q] = gh[q]
  BY <1>1 DEF Typed
<1>7. gh' \in [PRs -> Known]
  BY <1>1, <1>4, <1>5 DEF Typed
<1> QED BY <1>5, <1>6, <1>7 DEF Update

\* The numbers in play.
LEMMA Numbers ==
    ASSUME Typed
    PROVE  /\ clock \in Nat \ {0} /\ cursor \in Nat
           /\ \A p \in PRs : /\ gh[p] \in Known /\ gh[p].updated \in Nat
                             /\ index[p] \in Known /\ index[p].updated \in Nat
           /\ \A r \in Runs : Task(task[r])
           /\ \A r \in Runs : task[r] # Gone => task[r].started \in Nat
           /\ \A r \in Runs : Reading(task[r]) \/ Writing(task[r]) => task[r].since \in Nat
           /\ \A r \in Runs : Closing(task[r]) => task[r].newest \in Nat
<1>1. \A p \in PRs : gh[p] \in Known /\ index[p] \in Known
  BY DEF Typed
<1>2. \A r \in Runs : Task(task[r])
  BY DEF Typed
<1>3. \A r \in Runs : task[r] # Gone => task[r].started \in Nat
  BY <1>2 DEF Task, Reading, Writing, Closing
<1>4. \A r \in Runs : Reading(task[r]) \/ Writing(task[r]) => task[r].since \in Nat
  BY DEF Reading, Writing
<1>5. \A r \in Runs : Closing(task[r]) => task[r].newest \in Nat
  BY DEF Closing
<1>6. clock \in Nat \ {0} /\ cursor \in Nat
  BY DEF Typed
<1> QED BY <1>1, <1>2, <1>3, <1>4, <1>5, <1>6 DEF Known

\* A task that is not touched stays what it is,
LEMMA TaskSame ==
    ASSUME NEW r \in Runs, task'[r] = task[r]
    PROVE  /\ Reading(task[r])' <=> Reading(task[r])
           /\ Writing(task[r])' <=> Writing(task[r])
           /\ Closing(task[r])' <=> Closing(task[r])
BY DEF Reading, Writing, Closing, Partly

\* a task that it is,
LEMMA TasksSame ==
    ASSUME Typed, UNCHANGED task
    PROVE  /\ task' = [r \in Runs |-> task'[r]]
           /\ \A r \in Runs : Task(task[r])'
<1>1. \A r \in Runs : Task(task[r])
  BY DEF Typed
<1>2. \A r \in Runs : Task(task[r])'
  BY <1>1, TaskSame DEF Task
<1> QED BY <1>2 DEF Typed

\* as timely as it was,
LEMMA TimesSame ==
    ASSUME Timely, UNCHANGED <<clock, cursor, task>>
    PROVE  Timely'
<1>1. \A r \in Runs : TimelyTask(task[r])'
  BY TaskSame DEF Timely, TimelyTask
<1> QED BY <1>1 DEF Timely

\* and its search has the order it had while the index is not touched.
LEMMA RankSame ==
    ASSUME NEW r \in Runs, NEW p \in PRs, task'[r] = task[r], index' = index
    PROVE  Rank(r, p)' = Rank(r, p)
BY DEF Rank, Hits, updatedFrom

\* An update is later than whatever runs and the index know.
LEMMA UpdateKeepsBase ==
    ASSUME Base, NEW p \in PRs, Update(p)
    PROVE  Base'
<1> USE DEF Base
<1>1. /\ UNCHANGED <<clock, index, shown, cursor, row, task>>
      /\ gh'[p].stage # "absent" /\ gh'[p].updated = clock
      /\ \A q \in PRs : q # p => gh'[q] = gh[q]
      /\ gh' \in [PRs -> Known]
      /\ \A q \in PRs : gh[q].updated < clock
  BY UpdateDoes DEF Update
<1>2. Typed'
  BY <1>1, TasksSame DEF Typed
<1>3. Indexed'
  <2> SUFFICES ASSUME NEW q \in PRs
               PROVE  /\ index[q].updated <= gh'[q].updated /\ gh'[q].updated <= clock
                      /\ gh'[q].updated = 0 <=> gh'[q].stage = "absent"
                      /\ index[q].updated = 0 <=> index[q].stage = "absent"
                      /\ index[q] # gh'[q] => /\ index[q].updated < gh'[q].updated
                                              /\ clock <= gh'[q].updated + IndexLag
                      /\ gh'[q].stage = "absent" => shown[q] = "none"
    BY <1>1 DEF Indexed
  <2>1. CASE q # p
    BY <1>1, <2>1 DEF Indexed
  <2>2. CASE q = p
    BY <1>1, <2>2, Numbers, Constants DEF Indexed
  <2> QED BY <2>1, <2>2
<1>4. Apart'
  <2> SUFFICES ASSUME NEW q \in PRs, NEW s \in PRs, q # s
               PROVE  /\ gh'[q].updated = gh'[s].updated => gh'[q].updated = 0
                      /\ index[q].updated = gh'[s].updated => index[q].updated = 0
                      /\ index[q].updated = index[s].updated => index[q].updated = 0
    BY <1>1 DEF Apart
  <2>1. index[q].updated < clock
    BY <1>1, Numbers DEF Indexed
  <2>2. gh'[q].updated = gh'[s].updated => gh'[q].updated = 0
    BY <1>1, Numbers DEF Apart
  <2>3. index[q].updated = gh'[s].updated => index[q].updated = 0
    BY <1>1, <2>1, Numbers DEF Apart
  <2> QED BY <2>2, <2>3 DEF Apart
<1>5. Timely' /\ Bounded' /\ OneRunning'
  BY <1>1, TimesSame DEF Bounded, OneRunning
<1>6. Carried'
  <2> SUFFICES ASSUME NEW r \in Runs
               PROVE  /\ Reading(task[r]) => CarriesRead(task[r])'
                      /\ Writing(task[r]) => CarriesRows(task[r])'
    BY <1>1 DEF Carried, Reading, Writing, Partly
  <2>1. task[r] # Gone => Missed(task[r], p)' /\ task[r].started \in Nat
    BY <1>1, Numbers, Constants DEF Missed, Timely, TimelyTask
  <2>2. ASSUME Reading(task[r]) PROVE CarriesRead(task[r])'
    <3> SUFFICES ASSUME NEW q \in DOMAIN task[r].seen
                 PROVE  /\ gh'[q].stage # "absent"
                        /\ task[r].seen[q].stage # "absent"
                        /\ task[r].seen[q].updated <= gh'[q].updated
                        /\ task[r].seen[q] = gh'[q] \/ Missed(task[r], q)'
      BY <1>1 DEF CarriesRead
    <3>1. q \in PRs /\ task[r] # Gone /\ task[r].seen[q].updated \in Nat
      BY <2>2 DEF Reading, Partly, Known, Gone
    <3>2. /\ gh[q].stage # "absent"
          /\ task[r].seen[q].stage # "absent"
          /\ task[r].seen[q].updated <= gh[q].updated
          /\ task[r].seen[q] = gh[q] \/ Missed(task[r], q)
      BY <2>2 DEF Carried, CarriesRead
    <3>3. CASE q = p
      BY <1>1, <2>1, <3>1, <3>2, <3>3, Numbers
    <3>4. CASE q # p
      BY <1>1, <3>1, <3>2, <3>4 DEF Missed
    <3> QED BY <3>3, <3>4
  <2>3. ASSUME Writing(task[r]) PROVE CarriesRows(task[r])'
    <3> SUFFICES ASSUME NEW q \in DOMAIN task[r].rows
                 PROVE  /\ gh'[q].stage # "absent"
                        /\ task[r].rows[q].updated <= gh'[q].updated
                        /\ task[r].rows[q].state \in Labels(q)' \/ Missed(task[r], q)'
      BY <1>1 DEF CarriesRows
    <3>1. q \in PRs /\ task[r] # Gone /\ task[r].rows[q].updated \in Nat
      BY <2>3 DEF Writing, Partly, Noted, Gone
    <3>2. /\ gh[q].stage # "absent"
          /\ task[r].rows[q].updated <= gh[q].updated
          /\ task[r].rows[q].state \in Labels(q) \/ Missed(task[r], q)
      BY <2>3 DEF Carried, CarriesRows
    <3>3. CASE q = p
      BY <1>1, <2>1, <3>1, <3>2, <3>3, Numbers
    <3>4. CASE q # p
      BY <1>1, <3>1, <3>2, <3>4 DEF Missed, Labels
    <3> QED BY <3>3, <3>4
  <2> QED BY <2>2, <2>3
<1> QED BY <1>2, <1>3, <1>4, <1>5, <1>6

\* The pull request that changes is newer than every cursor, and asked for
\* by no run that is due to have found it.
LEMMA UpdateKeeps ==
    ASSUME IInv, NEW p \in PRs, Update(p)
    PROVE  IInv'
<1> USE DEF IInv, Base
<1>1. /\ UNCHANGED <<clock, index, shown, cursor, row, task>>
      /\ gh'[p].updated = clock
      /\ \A q \in PRs : q # p => gh'[q] = gh[q]
  BY UpdateDoes DEF Update
<1>2. Base'
  BY UpdateKeepsBase
<1>3. Walked'
  <2> SUFFICES ASSUME NEW r \in Runs, NEW q \in PRs, Due(task[r], q)'
               PROVE  /\ Reading(task[r]) =>
                            \/ q \in DOMAIN task[r].seen
                            \/ task[r].pc = "search" /\ Rank(r, q) > (task[r].page - 1) * PerPage
                      /\ Writing(task[r]) => q \in DOMAIN task[r].rows
    <3>1. /\ \A r \in Runs : /\ Reading(task[r])' <=> Reading(task[r])
                             /\ Writing(task[r])' <=> Writing(task[r])
          /\ \A r \in Runs, q \in PRs : Rank(r, q)' = Rank(r, q)
      BY <1>1, TaskSame, RankSame
    <3> QED BY <1>1, <3>1 DEF Walked
  <2>1. CASE q = p
    <3>1. ~ task[r] # Gone
      <4>1. clock + IndexLag < task[r].started
        BY <1>1, <2>1 DEF Due
      <4> QED BY <4>1, Numbers, Constants DEF Timely, TimelyTask
    <3> QED BY <3>1 DEF Reading, Writing, Gone
  <2>2. CASE q # p
    <3>1. Due(task[r], q)
      BY <1>1, <2>2 DEF Due, updatedFrom
    <3> QED BY <3>1 DEF Walked
  <2> QED BY <2>1, <2>2
<1>4. ASSUME NEW t \in Nat, t <= clock, NEW q \in PRs, Passes(t, q) PROVE Passes(t, q)'
  <2>1. CASE q = p
    BY <1>1, <1>4, <2>1, Numbers, Constants DEF Passes, updatedFrom
  <2>2. CASE q # p
    BY <1>1, <1>4, <2>2 DEF Passes, Current, updatedFrom
  <2> QED BY <2>1, <2>2
<1>5. CursorSafe'
  <2>1. PICK t \in Nat : t = cursor
    BY Numbers
  <2>2. \A q \in PRs : Passes(t, q)
    BY <2>1 DEF CursorSafe, Passes
  <2>3. \A q \in PRs : Passes(t, q)'
    BY <1>4, <2>1, <2>2 DEF Bounded
  <2> QED BY <1>1, <2>1, <2>3 DEF CursorSafe, Passes, updatedFrom
<1>6. Finishing'
  <2> SUFFICES ASSUME NEW r \in Runs, Closing(task[r]), ~ task[r].newest <= cursor,
                      NEW q \in PRs
               PROVE  Passes(task[r].newest, q)'
    BY <1>1 DEF Finishing, Closing, Passes, updatedFrom
  <2>1. Passes(task[r].newest, q)
    BY DEF Finishing
  <2>2. task[r].newest \in Nat /\ task[r].newest <= clock
    BY Numbers DEF Timely, TimelyTask
  <2>3. PICK t \in Nat : t = task[r].newest
    BY <2>2
  <2>4. Passes(t, q)'
    BY <1>4, <2>1, <2>2, <2>3 DEF Passes
  <2> QED BY <1>1, <2>3, <2>4 DEF Passes, updatedFrom
<1> QED BY <1>2, <1>3, <1>5, <1>6
-----------------------------------------------------------------------------
(* The index follows, and the clock runs.                                  *)

\* What runs carry and what the cursor passes is the same when only the
\* index, the clock or the rows of runs change.
LEMMA WhatStands ==
    ASSUME Base, UNCHANGED <<gh, shown, cursor, task>>
    PROVE  /\ Carried'
           /\ CursorSafe => CursorSafe'
           /\ Finishing => Finishing'
<1>1. /\ \A r \in Runs : /\ Reading(task[r])' <=> Reading(task[r])
                         /\ Writing(task[r])' <=> Writing(task[r])
                         /\ Closing(task[r])' <=> Closing(task[r])
  BY TaskSame
<1>2. Carried'
  BY <1>1 DEF Base, Carried, CarriesRead, CarriesRows, Missed, Labels
<1>3. CursorSafe => CursorSafe'
  BY DEF CursorSafe, Current, updatedFrom
<1>4. Finishing => Finishing'
  BY <1>1 DEF Finishing, Passes, Current, updatedFrom
<1> QED BY <1>2, <1>3, <1>4

\* What a run must find is in the index as it is on GitHub: the index has
\* had its time since, and the search goes back far enough.
LEMMA DueIsIndexed ==
    ASSUME Base, NEW r \in Runs, Reading(task[r]), NEW p \in PRs, Due(task[r], p)
    PROVE  index[p] = gh[p] /\ p \in Hits(r)
<1>1. task[r] # Gone
  BY DEF Reading, Gone
<1>2. gh[p].updated + IndexLag < clock
  BY <1>1, Numbers, Constants DEF Due, Base, Timely, TimelyTask
<1>3. index[p] = gh[p]
  BY <1>2, Numbers, Constants DEF Base, Indexed
<1> QED BY <1>3 DEF Due, Hits

\* The hits of a search are finitely many, and so is who goes before one.
LEMMA RankIs ==
    ASSUME NEW r \in Runs, NEW p \in PRs
    PROVE  /\ IsFiniteSet(Hits(r))
           /\ IsFiniteSet({q \in Hits(r) : index[q].updated >= index[p].updated})
           /\ Rank(r, p) \in Nat
<1>1. IsFiniteSet(Hits(r))
  BY Constants, FS_Subset DEF Hits
<1>2. IsFiniteSet({q \in Hits(r) : index[q].updated >= index[p].updated})
  BY <1>1, FS_Subset
<1> QED BY <1>1, <1>2, FS_CardinalityType DEF Rank

\* The index catches up with one pull request.
LEMMA ReindexKeepsBase ==
    ASSUME Base, NEW p \in PRs, Reindex(p)
    PROVE  Base'
<1> USE DEF Base
<1>1. /\ UNCHANGED <<clock, gh, shown, cursor, row, task>>
      /\ index' \in [PRs -> Known]
      /\ index'[p] = gh[p]
      /\ \A q \in PRs : q # p => index'[q] = index[q]
  BY DEF Reindex, Typed
<1>2. Typed'
  BY <1>1, TasksSame DEF Typed
<1>3. Indexed'
  BY <1>1, Numbers DEF Indexed
<1>4. Apart'
  <2> SUFFICES ASSUME NEW q \in PRs, NEW s \in PRs, q # s
               PROVE  /\ gh[q].updated = gh[s].updated => gh[q].updated = 0
                      /\ index'[q].updated = gh[s].updated => index'[q].updated = 0
                      /\ index'[q].updated = index'[s].updated => index'[q].updated = 0
    BY <1>1 DEF Apart
  <2> QED BY <1>1 DEF Apart
<1>5. Timely' /\ Bounded' /\ OneRunning'
  BY <1>1, TimesSame DEF Bounded, OneRunning
<1>6. Carried'
  BY <1>1, WhatStands
<1> QED BY <1>2, <1>3, <1>4, <1>5, <1>6

\* A pull request that comes back to the front of the search pushes those
\* behind it back, so that whoever was still to come is still to come.
LEMMA ReindexKeeps ==
    ASSUME IInv, NEW p \in PRs, Reindex(p)
    PROVE  IInv'
<1> USE DEF IInv
<1>1. /\ UNCHANGED <<clock, gh, shown, cursor, row, task>>
      /\ index[p] # gh[p]
      /\ index'[p] = gh[p]
      /\ \A q \in PRs : q # p => index'[q] = index[q]
  BY DEF Reindex, Base, Typed
<1>2. Base'
  BY ReindexKeepsBase
<1>3. ASSUME NEW r \in Runs, Reading(task[r]), NEW q \in PRs, Due(task[r], q)
      PROVE  Rank(r, q)' >= Rank(r, q) /\ Rank(r, q) \in Nat /\ Rank(r, q)' \in Nat
  <2> DEFINE before == {x \in Hits(r) : index[x].updated >= index[q].updated}
             after  == {x \in Hits(r)' : index'[x].updated >= index'[q].updated}
  <2>1. index[q] = gh[q]
    BY <1>3, DueIsIndexed
  <2>2. q # p
    BY <1>1, <2>1
  <2>3. \A x \in PRs : index'[x].updated >= index[x].updated
    BY <1>1, Numbers DEF Base, Indexed
  <2>4. \A x \in PRs : index[x].stage # "absent" => index'[x].stage # "absent"
    <3>1. \A x \in PRs : /\ index'[x].updated \in Nat /\ index[x].updated \in Nat
                         /\ index[x].updated = 0 <=> index[x].stage = "absent"
                         /\ index'[x].updated = 0 <=> index'[x].stage = "absent"
      BY <1>1, Numbers DEF Base, Indexed
    <3> QED BY <2>3, <3>1
  <2>5. task[r].since \in Nat
    BY <1>3, Numbers DEF Base
  <2>6. \A x \in Hits(r) : x \in Hits(r)'
    BY <1>1, <2>3, <2>4, <2>5, Numbers, Constants DEF Hits, updatedFrom, Base
  <2>7. before \subseteq after
    BY <1>1, <2>2, <2>3, <2>6, Numbers DEF Hits, Base
  <2>8. IsFiniteSet(Hits(r)')
    BY Constants, FS_Subset DEF Hits
  <2>9. IsFiniteSet(after)
    BY <2>8, FS_Subset
  <2>10. Cardinality(before) <= Cardinality(after) /\ Cardinality(before) \in Nat
                                                   /\ Cardinality(after) \in Nat
    BY <2>7, <2>9, FS_Subset, FS_CardinalityType
  <2> QED BY <2>10 DEF Rank
<1>4. \A r \in Runs : /\ Reading(task[r])' <=> Reading(task[r])
                      /\ Writing(task[r])' <=> Writing(task[r])
  BY <1>1, TaskSame
<1>5. \A r \in Runs, q \in PRs : Due(task[r], q)' <=> Due(task[r], q)
  BY <1>1 DEF Due, updatedFrom
<1>6. Walked'
  <2> SUFFICES ASSUME NEW r \in Runs, NEW q \in PRs, Due(task[r], q)
               PROVE  /\ Reading(task[r]) =>
                            \/ q \in DOMAIN task[r].seen
                            \/ task[r].pc = "search" /\ Rank(r, q)' > (task[r].page - 1) * PerPage
                      /\ Writing(task[r]) => q \in DOMAIN task[r].rows
    BY <1>1, <1>4, <1>5 DEF Walked
  <2>1. Writing(task[r]) => q \in DOMAIN task[r].rows
    BY DEF Walked
  <2>2. ASSUME Reading(task[r]), q \notin DOMAIN task[r].seen
        PROVE  task[r].pc = "search" /\ Rank(r, q)' > (task[r].page - 1) * PerPage
    <3>1. task[r].pc = "search" /\ Rank(r, q) > (task[r].page - 1) * PerPage
      BY <2>2 DEF Walked
    <3>2. (task[r].page - 1) * PerPage \in Nat
      <4>1. PICK k \in Nat : k = task[r].page - 1
        BY <2>2 DEF Reading
      <4> QED BY <4>1, Constants
    <3>3. Rank(r, q)' >= Rank(r, q) /\ Rank(r, q) \in Nat /\ Rank(r, q)' \in Nat
      BY <1>3, <2>2
    <3> QED BY <3>1, <3>2, <3>3
  <2> QED BY <2>1, <2>2
<1> QED BY <1>1, <1>2, <1>6, WhatStands

\* Time passes: no task outlives its time, and the index keeps up.
LEMMA TickKeepsBase ==
    ASSUME Base, Tick
    PROVE  Base'
<1> USE DEF Base
<1>1. /\ UNCHANGED <<gh, index, shown, cursor, row, task>>
      /\ clock' = clock + 1 /\ clock < MaxTime /\ clock \in Nat \ {0}
      /\ \A p \in PRs : index[p] # gh[p] => clock - gh[p].updated < IndexLag
      /\ \A r \in Runs : task[r] # Gone => clock - task[r].started < RunLimit
  BY Numbers DEF Tick, github
<1>2. Typed'
  BY <1>1, TasksSame DEF Typed
<1>3. Indexed'
  <2> SUFFICES ASSUME NEW p \in PRs
               PROVE  /\ gh[p].updated <= clock + 1
                      /\ index[p] # gh[p] => clock + 1 <= gh[p].updated + IndexLag
    BY <1>1 DEF Indexed
  <2>1. gh[p].updated \in Nat /\ gh[p].updated <= clock
    BY Numbers DEF Indexed
  <2> QED BY <1>1, <2>1, Constants
<1>4. Apart' /\ OneRunning'
  BY <1>1 DEF Apart, OneRunning
<1>5. Bounded'
  <2>1. cursor \in Nat /\ cursor <= clock
    BY Numbers DEF Bounded
  <2> QED BY <1>1, <2>1, Constants DEF Bounded
<1>6. Timely'
  <2> SUFFICES ASSUME NEW r \in Runs PROVE TimelyTask(task[r])'
    BY DEF Timely
  <2>1. TimelyTask(task[r])
    BY DEF Timely
  <2>2. task[r] # Gone => task[r].started <= clock + 1 /\ clock + 1 <= task[r].started + RunLimit
    <3> SUFFICES ASSUME task[r] # Gone
                 PROVE  task[r].started <= clock + 1 /\ clock + 1 <= task[r].started + RunLimit
      OBVIOUS
    <3>1. task[r].started \in Nat /\ task[r].started <= clock /\ clock - task[r].started < RunLimit
      BY <1>1, <2>1, Numbers DEF TimelyTask
    <3> QED BY <1>1, <3>1, Constants
  <2>3. Closing(task[r]) => task[r].newest <= clock + 1
    <3> SUFFICES ASSUME Closing(task[r]) PROVE task[r].newest <= clock + 1
      OBVIOUS
    <3>1. task[r].newest \in Nat /\ task[r].newest <= clock
      BY <2>1, Numbers DEF TimelyTask
    <3> QED BY <1>1, <3>1
  <2>4. /\ Reading(task[r])' <=> Reading(task[r])
        /\ Writing(task[r])' <=> Writing(task[r])
        /\ Closing(task[r])' <=> Closing(task[r])
    BY <1>1, TaskSame
  <2> QED BY <1>1, <2>1, <2>2, <2>3, <2>4 DEF TimelyTask
<1>7. Carried'
  BY <1>1, WhatStands
<1> QED BY <1>2, <1>3, <1>4, <1>5, <1>6, <1>7

\* The walks and the cursor are none of the clock's business.
LEMMA WalksStand ==
    ASSUME IInv, Base', UNCHANGED <<github, shown, cursor, task>>
    PROVE  IInv'
<1>1. UNCHANGED <<gh, index, shown, cursor, task>>
  BY DEF github
<1>2. \A r \in Runs : /\ Reading(task[r])' <=> Reading(task[r])
                      /\ Writing(task[r])' <=> Writing(task[r])
  BY <1>1, TaskSame
<1>3. \A r \in Runs, q \in PRs : Rank(r, q)' = Rank(r, q)
  BY <1>1, RankSame
<1>4. Walked'
  BY <1>1, <1>2, <1>3 DEF IInv, Walked, Due, updatedFrom
<1> QED BY <1>1, <1>4, WhatStands DEF IInv

\* A request closes rows as stale; the tasks behind them go on.
LEMMA ReleaseKeepsBase ==
    ASSUME Base, Release
    PROVE  Base'
<1> USE DEF Base
<1>1. UNCHANGED <<clock, gh, index, shown, cursor, task>> /\ row' = release_stale
  BY DEF Release, github
<1>2. /\ row' \in [Runs -> [status : {"running", "closed"}, started : Nat]]
      /\ \A r \in Runs : row'[r].status = "running" => row[r].status = "running"
  BY <1>1 DEF release_stale, Typed, Closed, Beginning
<1>3. Typed'
  BY <1>1, <1>2, TasksSame DEF Typed
<1>4. Indexed' /\ Apart' /\ Bounded'
  BY <1>1 DEF Indexed, Apart, Bounded
<1>5. Timely'
  BY <1>1, TimesSame
<1>6. OneRunning'
  BY <1>2 DEF OneRunning
<1>7. Carried'
  BY <1>1, WhatStands
<1> QED BY <1>3, <1>4, <1>5, <1>6, <1>7
-----------------------------------------------------------------------------
(* A run's own steps.                                                      *)

\* Of a step that changes one task alone, the others keep theirs.
LEMMA OthersStand ==
    ASSUME Base, NEW r \in Runs, UNCHANGED github,
           \A q \in Runs : q # r => task'[q] = task[q]
    PROVE  \A q \in Runs : q # r =>
               /\ Reading(task[q])' <=> Reading(task[q])
               /\ Writing(task[q])' <=> Writing(task[q])
               /\ Closing(task[q])' <=> Closing(task[q])
               /\ CarriesRead(task[q])' <=> CarriesRead(task[q])
               /\ CarriesRows(task[q])' <=> CarriesRows(task[q])
               /\ \A p \in PRs : /\ Due(task[q], p)' <=> Due(task[q], p)
                                 /\ Rank(q, p)' = Rank(q, p)
<1>1. UNCHANGED <<gh, index>>
  BY DEF github
<1> SUFFICES ASSUME NEW q \in Runs, q # r
             PROVE  /\ Reading(task[q])' <=> Reading(task[q])
                    /\ Writing(task[q])' <=> Writing(task[q])
                    /\ Closing(task[q])' <=> Closing(task[q])
                    /\ CarriesRead(task[q])' <=> CarriesRead(task[q])
                    /\ CarriesRows(task[q])' <=> CarriesRows(task[q])
                    /\ \A p \in PRs : /\ Due(task[q], p)' <=> Due(task[q], p)
                                      /\ Rank(q, p)' = Rank(q, p)
  OBVIOUS
<1>2. task'[q] = task[q]
  OBVIOUS
<1>3. CarriesRead(task[q])' <=> CarriesRead(task[q])
  BY <1>1, <1>2 DEF CarriesRead, Missed
<1>4. CarriesRows(task[q])' <=> CarriesRows(task[q])
  BY <1>1, <1>2 DEF CarriesRows, Missed, Labels
<1>5. \A p \in PRs : Due(task[q], p)' <=> Due(task[q], p)
  BY <1>1, <1>2 DEF Due, updatedFrom
<1> QED BY <1>1, <1>2, <1>3, <1>4, <1>5, TaskSame, RankSame

\* So the invariant of the types, times and contents is that of the one task
\* and of the rows of runs, when neither what is shown nor the cursor change.
LEMMA TaskKeepsBase ==
    ASSUME Base, NEW r \in Runs, UNCHANGED <<clock, github, shown, cursor>>,
           \A q \in Runs : q # r => task'[q] = task[q],
           task' = [q \in Runs |-> task'[q]], Task(task[r])', TimelyTask(task[r])',
           Reading(task[r])' => CarriesRead(task[r])',
           Writing(task[r])' => CarriesRows(task[r])',
           row' \in [Runs -> [status : {"running", "closed"}, started : Nat]], OneRunning'
    PROVE  Base'
<1>1. UNCHANGED <<clock, gh, index, shown, cursor>>
  BY DEF github
<1>2. \A q \in Runs : q # r =>
          /\ Reading(task[q])' <=> Reading(task[q])
          /\ Writing(task[q])' <=> Writing(task[q])
          /\ Closing(task[q])' <=> Closing(task[q])
          /\ CarriesRead(task[q])' <=> CarriesRead(task[q])
          /\ CarriesRows(task[q])' <=> CarriesRows(task[q])
  BY OthersStand
<1>3. Typed'
  <2>1. \A q \in Runs : Task(task[q])'
    BY <1>2 DEF Base, Typed, Task
  <2> QED BY <1>1, <2>1 DEF Base, Typed
<1>4. Indexed' /\ Apart' /\ Bounded'
  BY <1>1 DEF Base, Indexed, Apart, Bounded
<1>5. Timely'
  <2>1. ASSUME NEW q \in Runs, q # r PROVE TimelyTask(task[q])'
    <3>1. TimelyTask(task[q])
      BY DEF Base, Timely
    <3> QED BY <1>1, <1>2, <2>1, <3>1 DEF TimelyTask
  <2> QED BY <2>1 DEF Timely
<1>6. Carried'
  BY <1>2 DEF Base, Carried
<1> QED BY <1>3, <1>4, <1>5, <1>6 DEF Base

\* Likewise for the walks, when the cursor and what is shown stand.
LEMMA TaskKeeps ==
    ASSUME IInv, Base', NEW r \in Runs, UNCHANGED <<github, shown, cursor>>,
           \A q \in Runs : q # r => task'[q] = task[q],
           \A p \in PRs : Due(task[r], p)' =>
               /\ Reading(task[r])' =>
                      \/ p \in DOMAIN task'[r].seen
                      \/ task'[r].pc = "search" /\ Rank(r, p)' > (task'[r].page - 1) * PerPage
               /\ Writing(task[r])' => p \in DOMAIN task'[r].rows,
           Closing(task[r])' => task'[r].newest <= cursor
                                \/ \A p \in PRs : Passes(task[r].newest, p)'
    PROVE  IInv'
<1>1. UNCHANGED <<gh, index, shown, cursor>>
  BY DEF github
<1>2. \A q \in Runs : q # r =>
          /\ Reading(task[q])' <=> Reading(task[q])
          /\ Writing(task[q])' <=> Writing(task[q])
          /\ Closing(task[q])' <=> Closing(task[q])
          /\ \A p \in PRs : /\ Due(task[q], p)' <=> Due(task[q], p)
                            /\ Rank(q, p)' = Rank(q, p)
  BY OthersStand DEF IInv
<1>3. Walked'
  <2> SUFFICES ASSUME NEW q \in Runs, NEW p \in PRs, Due(task[q], p)'
               PROVE  /\ Reading(task[q])' =>
                            \/ p \in DOMAIN task'[q].seen
                            \/ /\ task'[q].pc = "search"
                               /\ Rank(q, p)' > (task'[q].page - 1) * PerPage
                      /\ Writing(task[q])' => p \in DOMAIN task'[q].rows
    BY DEF Walked
  <2>1. CASE q = r
    BY <2>1
  <2>2. CASE q # r
    BY <1>2, <2>2 DEF IInv, Walked
  <2> QED BY <2>1, <2>2
<1>4. CursorSafe'
  BY <1>1 DEF IInv, CursorSafe, Current, updatedFrom
<1>5. Finishing'
  <2> SUFFICES ASSUME NEW q \in Runs, Closing(task[q])'
               PROVE  task'[q].newest <= cursor \/ \A p \in PRs : Passes(task[q].newest, p)'
    BY <1>1 DEF Finishing
  <2>1. CASE q = r
    BY <2>1
  <2>2. CASE q # r
    BY <1>1, <1>2, <2>2 DEF IInv, Finishing, Passes, Current, updatedFrom
  <2> QED BY <2>1, <2>2
<1> QED BY <1>3, <1>4, <1>5 DEF IInv

\* A task that is gone, whatever became of it, owes nothing.
LEMMA GoneKeeps ==
    ASSUME Base, NEW r \in Runs, UNCHANGED <<clock, github, shown, cursor>>,
           task' = [task EXCEPT ![r] = Gone], row' = row \/ row' = [row EXCEPT ![r] = Closed]
    PROVE  Base' /\ (IInv => IInv')
<1>1. /\ task' = [q \in Runs |-> task'[q]]
      /\ task'[r] = Gone
      /\ \A q \in Runs : q # r => task'[q] = task[q]
  BY DEF Base, Typed
<1>2. ~Reading(task[r])' /\ ~Writing(task[r])' /\ ~Closing(task[r])'
  BY <1>1 DEF Reading, Writing, Closing, Gone
<1>3. /\ row' \in [Runs -> [status : {"running", "closed"}, started : Nat]]
      /\ OneRunning'
  BY DEF Base, Typed, OneRunning, Closed, Beginning
<1>4. Task(task[r])' /\ TimelyTask(task[r])'
  BY <1>1, <1>2 DEF Task, TimelyTask
<1>5. Base'
  BY <1>1, <1>2, <1>3, <1>4, TaskKeepsBase
<1> QED BY <1>1, <1>2, <1>5, TaskKeeps

\* A run begins where nobody else runs, with nothing seen and all to find.
LEMMA BeginDoes ==
    ASSUME Base, NEW r \in Runs, begin(r)
    PROVE  /\ Base'
           /\ Reading(task[r])' /\ ~Writing(task[r])' /\ ~Closing(task[r])'
           /\ task'[r].pc = "search" /\ task'[r].page = 1 /\ task'[r].started = clock
           /\ task' = [q \in Runs |-> task'[q]]
           /\ \A q \in Runs : q # r => task'[q] = task[q]
<1>1. PICK since \in {cursor, Beginning} :
          task' = [task EXCEPT ![r] = [pc |-> "search", started |-> clock, since |-> since,
                                       page |-> 1, seen |-> [p \in {} |-> NotOpened]]]
  BY DEF begin
<1>2. /\ UNCHANGED <<clock, github, shown, cursor>>
      /\ row' = [release_stale EXCEPT ![r] = [status |-> "running", started |-> clock]]
      /\ \A q \in Runs : release_stale[q].status # "running"
  BY DEF begin, NoneRunning
<1>3. /\ task' = [q \in Runs |-> task'[q]]
      /\ \A q \in Runs : q # r => task'[q] = task[q]
      /\ task'[r] = [pc |-> "search", started |-> clock, since |-> since,
                     page |-> 1, seen |-> [p \in {} |-> NotOpened]]
  BY <1>1 DEF Base, Typed
<1>4. clock \in Nat /\ cursor \in Nat /\ since \in Nat /\ since <= cursor
  BY Numbers DEF Base, Beginning
<1>5. Partly([p \in {} |-> NotOpened], Known)
  BY DEF Partly
<1>6. Reading(task[r])' /\ ~Writing(task[r])' /\ ~Closing(task[r])'
  <2> DEFINE new == [pc |-> "search", started |-> clock, since |-> since,
                     page |-> 1, seen |-> [p \in {} |-> NotOpened]]
  <2>1. Reading(new) /\ ~Writing(new) /\ ~Closing(new)
    BY <1>4, <1>5 DEF Reading, Writing, Closing
  <2> QED BY <1>3, <2>1 DEF Reading, Writing, Closing, Partly
<1>7. release_stale \in [Runs -> [status : {"running", "closed"}, started : Nat]]
  BY DEF Base, Typed, release_stale, Closed, Beginning
<1>8. row' \in [Runs -> [status : {"running", "closed"}, started : Nat]]
  BY <1>2, <1>4, <1>7
<1>9. OneRunning'
  <2>1. \A q \in Runs : q # r => row'[q].status # "running"
    BY <1>2, <1>7
  <2> QED BY <2>1 DEF OneRunning
<1>10. Task(task[r])'
  BY <1>6 DEF Task
<1>11. TimelyTask(task[r])'
  BY <1>2, <1>3, <1>4, <1>6, Constants DEF TimelyTask
<1>12. CarriesRead(task[r])'
  <2>1. DOMAIN task'[r].seen = {}
    BY <1>3
  <2> QED BY <2>1 DEF CarriesRead
<1>13. Base'
  BY <1>2, <1>3, <1>6, <1>8, <1>9, <1>10, <1>11, <1>12, TaskKeepsBase
<1> QED BY <1>3, <1>6, <1>13

\* All that it must find is on the first page or a later one.
LEMMA BeginKeeps ==
    ASSUME IInv, NEW r \in Runs, begin(r)
    PROVE  IInv'
<1>1. /\ Base'
      /\ Reading(task[r])' /\ ~Writing(task[r])' /\ ~Closing(task[r])'
      /\ task'[r].pc = "search" /\ task'[r].page = 1 /\ task'[r].started = clock
      /\ \A q \in Runs : q # r => task'[q] = task[q]
  BY BeginDoes DEF IInv
<1>2. UNCHANGED <<github, shown, cursor>>
  BY DEF begin
<1>3. ASSUME NEW p \in PRs, Due(task[r], p)'
      PROVE  Rank(r, p)' > (task'[r].page - 1) * PerPage
  <2> DEFINE ahead == {q \in Hits(r)' : index'[q].updated >= index'[p].updated}
  <2>1. p \in Hits(r)'
    <3>1. gh[p].stage # "absent" /\ gh[p].updated + IndexLag < clock
      BY <1>1, <1>2, <1>3 DEF Due, github
    <3>2. index[p] = gh[p]
      BY <3>1, Numbers, Constants DEF IInv, Base, Indexed
    <3> QED BY <1>2, <1>3, <3>2 DEF Due, Hits, github
  <2>2. index'[p].updated \in Nat
    BY <1>2, Numbers DEF IInv, Base, github
  <2>3. p \in ahead
    BY <2>1, <2>2
  <2>4. IsFiniteSet(Hits(r)')
    BY Constants, FS_Subset DEF Hits
  <2>5. IsFiniteSet(ahead)
    BY <2>4, FS_Subset
  <2>6. Cardinality(ahead) \in Nat /\ Cardinality(ahead) # 0
    BY <2>3, <2>5, FS_CardinalityType, FS_EmptySet
  <2>7. Rank(r, p)' = Cardinality(ahead)
    BY DEF Rank
  <2>8. (task'[r].page - 1) * PerPage = 0
    BY <1>1, Constants
  <2> QED BY <2>6, <2>7, <2>8
<1> QED BY <1>1, <1>2, <1>3, TaskKeeps
\* What a page adds to what was seen.
SeenAfter(r) ==
    [p \in DOMAIN task[r].seen \cup Page(r) |->
         IF p \in Page(r) THEN index[p] ELSE task[r].seen[p]]

\* A page is read: what it shows was on GitHub, and is, or changed since.
LEMMA FetchDoes ==
    ASSUME Base, NEW r \in Runs, fetch_authored_prs(r)
    PROVE  /\ Base'
           /\ Reading(task[r]) /\ task[r].pc = "search"
           /\ Reading(task[r])' /\ ~Writing(task[r])' /\ ~Closing(task[r])'
           /\ task'[r].since = task[r].since /\ task'[r].started = task[r].started
           /\ DOMAIN task'[r].seen = DOMAIN task[r].seen \cup Page(r)
           /\ \/ Cardinality(Page(r)) < PerPage \/ task[r].page = MaxPages
              \/ task'[r].pc = "search" /\ task'[r].page = task[r].page + 1
           /\ \A q \in Runs : q # r => task'[q] = task[q]
<1> DEFINE stop == Cardinality(Page(r)) < PerPage \/ task[r].page = MaxPages
           after == IF stop THEN [task[r] EXCEPT !.pc = "reviews", !.seen = SeenAfter(r)]
                            ELSE [task[r] EXCEPT !.page = @ + 1, !.seen = SeenAfter(r)]
<1>1. /\ task[r].pc = "search"
      /\ task' = [task EXCEPT ![r] = after]
      /\ UNCHANGED <<clock, github, shown, cursor, row>>
  BY DEF fetch_authored_prs, SeenAfter
<1>2. Reading(task[r])
  BY <1>1, Numbers, Kinds DEF Base
<1>3. /\ task' = [q \in Runs |-> task'[q]]
      /\ task'[r] = after
      /\ \A q \in Runs : q # r => task'[q] = task[q]
  <2> HIDE DEF after
  <2> QED BY <1>1 DEF Base, Typed
<1>4. Page(r) \subseteq Hits(r) /\ Hits(r) \subseteq PRs
  BY DEF Page, Hits
<1>5. /\ DOMAIN SeenAfter(r) = DOMAIN task[r].seen \cup Page(r)
      /\ \A p \in Page(r) : SeenAfter(r)[p] = index[p]
      /\ \A p \in DOMAIN task[r].seen : p \notin Page(r) => SeenAfter(r)[p] = task[r].seen[p]
      /\ Partly(SeenAfter(r), Known)
  <2>1. \A p \in Page(r) : index[p] \in Known
    BY <1>4, Numbers DEF Base
  <2>2. DOMAIN task[r].seen \subseteq PRs /\ \A p \in DOMAIN task[r].seen : task[r].seen[p] \in Known
    BY <1>2 DEF Reading, Partly
  <2> QED BY <1>4, <2>1, <2>2 DEF SeenAfter, Partly
<1>6. /\ Reading(after) /\ ~Writing(after) /\ ~Closing(after) /\ after # Gone
      /\ after.since = task[r].since /\ after.started = task[r].started
      /\ after.seen = SeenAfter(r)
      /\ stop \/ (after.pc = "search" /\ after.page = task[r].page + 1)
  <2>1. PICK t, more, started, since, page, seen :
            /\ started \in Nat /\ since \in Nat /\ page \in Nat \ {0}
            /\ task[r] = t /\ more = SeenAfter(r)
            /\ t = [pc |-> "search", started |-> started, since |-> since,
                    page |-> page, seen |-> seen]
    BY <1>1, <1>2 DEF Reading
  <2>2. CASE stop
    <3> HIDE DEF stop
    <3>1. after = [t EXCEPT !.pc = "reviews", !.seen = more]
      BY <2>1, <2>2
    <3> HIDE DEF after
    <3>2. after = [pc |-> "reviews", started |-> started, since |-> since,
                   page |-> page, seen |-> SeenAfter(r)]
      <4>1. after = [x \in {"pc", "started", "since", "page", "seen"} |-> after[x]]
        BY <2>1, <3>1
      <4>2. /\ after.pc = "reviews" /\ after.started = started /\ after.since = since
            /\ after.page = page /\ after.seen = more
        BY <2>1, <3>1
      <4> QED BY <2>1, <4>1, <4>2
    <3>3. Reading(after)
      BY <1>5, <2>1, <3>2 DEF Reading
    <3>4. ~Writing(after) /\ ~Closing(after) /\ after # Gone
      BY <3>2 DEF Writing, Closing, Gone
    <3>5. after.since = task[r].since /\ after.started = task[r].started
      BY <2>1, <3>2
    <3>6. after.seen = SeenAfter(r)
      BY <3>2
    <3> QED BY <2>2, <3>3, <3>4, <3>5, <3>6
  <2>3. CASE ~stop
    <3> HIDE DEF stop
    <3>1. after = [t EXCEPT !.page = @ + 1, !.seen = more]
      BY <2>1, <2>3
    <3> HIDE DEF after
    <3>2. after = [pc |-> "search", started |-> started, since |-> since,
                   page |-> page + 1, seen |-> SeenAfter(r)]
      <4>1. after = [x \in {"pc", "started", "since", "page", "seen"} |-> after[x]]
        BY <2>1, <3>1
      <4>2. /\ after.pc = "search" /\ after.started = started /\ after.since = since
            /\ after.page = page + 1 /\ after.seen = more
        BY <2>1, <3>1
      <4> QED BY <2>1, <4>1, <4>2
    <3>3. Reading(after)
      BY <1>5, <2>1, <3>2 DEF Reading
    <3>4. ~Writing(after) /\ ~Closing(after) /\ after # Gone
      BY <3>2 DEF Writing, Closing, Gone
    <3> QED BY <2>1, <3>2, <3>3, <3>4
  <2> QED BY <2>2, <2>3
<1> HIDE DEF after, stop
<1>7. Reading(task[r])' /\ ~Writing(task[r])' /\ ~Closing(task[r])'
  BY <1>3, <1>6 DEF Reading, Writing, Closing, Partly
<1>8. task[r] # Gone /\ TimelyTask(task[r])
  BY <1>2 DEF Base, Timely, Reading, Gone
<1>9. TimelyTask(task[r])'
  BY <1>1, <1>2, <1>3, <1>6, <1>7, <1>8 DEF TimelyTask
<1>10. CarriesRead(task[r])'
  <2> SUFFICES ASSUME NEW p \in DOMAIN SeenAfter(r)
               PROVE  /\ gh[p].stage # "absent"
                      /\ SeenAfter(r)[p].stage # "absent"
                      /\ SeenAfter(r)[p].updated <= gh[p].updated
                      /\ SeenAfter(r)[p] = gh[p] \/ Missed(task[r], p)
    BY <1>1, <1>3, <1>6 DEF CarriesRead, Missed, github
  <2>1. CASE p \in Page(r)
    <3>1. p \in PRs /\ index[p].stage # "absent" /\ SeenAfter(r)[p] = index[p]
      BY <1>4, <1>5, <2>1 DEF Hits
    <3>2. gh[p].stage # "absent" /\ index[p].updated <= gh[p].updated
      BY <3>1, Numbers DEF Base, Indexed
    <3>3. index[p] = gh[p] \/ Missed(task[r], p)
      BY <1>8, <3>1, Numbers, Constants DEF Base, Indexed, Missed, TimelyTask
    <3> QED BY <3>1, <3>2, <3>3
  <2>2. CASE p \notin Page(r)
    <3>1. p \in DOMAIN task[r].seen /\ SeenAfter(r)[p] = task[r].seen[p]
      BY <1>5, <2>2
    <3> QED BY <1>2, <3>1 DEF Base, Carried, CarriesRead
  <2> QED BY <2>1, <2>2
<1>11. /\ Task(task[r])' /\ OneRunning'
       /\ row' \in [Runs -> [status : {"running", "closed"}, started : Nat]]
  BY <1>1, <1>7 DEF Task, Base, Typed, OneRunning
<1>12. Base'
  BY <1>1, <1>3, <1>7, <1>9, <1>10, <1>11, TaskKeepsBase
<1>13. DOMAIN task'[r].seen = DOMAIN task[r].seen \cup Page(r)
  BY <1>3, <1>5, <1>6
<1> QED BY <1>1, <1>2, <1>3, <1>6, <1>7, <1>12, <1>13 DEF stop

\* The hits are in one order, since no two were updated at one instant.
LEMMA HitsAreOrdered ==
    ASSUME Base, NEW r \in Runs
    PROVE  Heads(Hits(r), [p \in Hits(r) |->
                              {q \in Hits(r) : index[q].updated >= index[p].updated}])
<1> DEFINE U == [p \in Hits(r) |-> {q \in Hits(r) : index[q].updated >= index[p].updated}]
<1>1. \A p \in Hits(r) : p \in PRs /\ index[p].updated \in Nat /\ index[p].updated # 0
  BY Numbers DEF Base, Indexed, Hits
<1>2. U \in [Hits(r) -> SUBSET Hits(r)]
  OBVIOUS
<1>3. \A p \in Hits(r) : p \in U[p]
  BY <1>1
<1>4. ASSUME NEW p \in Hits(r), NEW q \in Hits(r), p # q PROVE U[p] # U[q]
  <2>1. index[p].updated # index[q].updated
    BY <1>1, <1>4 DEF Base, Apart
  <2>2. p \notin U[q] \/ q \notin U[p]
    BY <1>1, <2>1
  <2> QED BY <1>3, <2>2
<1>5. ASSUME NEW p \in Hits(r), NEW q \in Hits(r)
      PROVE  U[p] \subseteq U[q] \/ U[q] \subseteq U[p]
  <2>1. CASE index[p].updated >= index[q].updated
    BY <1>1, <2>1
  <2>2. CASE index[q].updated >= index[p].updated
    BY <1>1, <2>2
  <2> QED BY <1>1, <2>1, <2>2
<1> HIDE DEF U
<1>6. Heads(Hits(r), U)
  BY <1>2, <1>3, <1>4, <1>5 DEF Heads
<1> QED BY <1>6 DEF U

\* A hit that is behind a page makes the page full, and is behind no last
\* one: the walk goes on to it.
LEMMA WalkGoesOn ==
    ASSUME AllWalked, Base, NEW r \in Runs, Reading(task[r]), NEW p \in Hits(r),
           Rank(r, p) > task[r].page * PerPage
    PROVE  ~(Cardinality(Page(r)) < PerPage \/ task[r].page = MaxPages)
<1> DEFINE U == [x \in Hits(r) |-> {q \in Hits(r) : index[q].updated >= index[x].updated}]
           a == (task[r].page - 1) * PerPage
           b == task[r].page * PerPage
<1>1. a \in Nat /\ b \in Nat /\ b = a + PerPage /\ PerPage \in Nat
  <2>1. PICK k \in Nat : task[r].page = k + 1
    <3>1. task[r].page \in Nat \ {0}
      BY DEF Reading
    <3>2. task[r].page - 1 \in Nat /\ task[r].page = (task[r].page - 1) + 1
      BY <3>1
    <3> QED BY <3>2
  <2>2. a = k * PerPage /\ b = k * PerPage + PerPage /\ k * PerPage \in Nat
    BY <2>1, Constants
  <2> QED BY <2>2, Constants
<1>2. /\ IsFiniteSet(Hits(r)) /\ Hits(r) \in SUBSET PRs
      /\ Cardinality(Hits(r)) \in Nat /\ Cardinality(Hits(r)) <= Cardinality(PRs)
      /\ Cardinality(PRs) \in Nat
  BY RankIs, Constants, FS_Subset, FS_CardinalityType DEF Hits
<1>3. U[p] \in SUBSET Hits(r) /\ Rank(r, p) = Cardinality(U[p])
  BY DEF Rank
<1>4. Heads(Hits(r), U)
  BY HitsAreOrdered
<1>5. Page(r) = {x \in Hits(r) : Cardinality(U[x]) > a /\ Cardinality(U[x]) <= b}
  BY DEF Page, Rank
<1> HIDE DEF U, a
<1>6. Rank(r, p) \in Nat /\ Rank(r, p) <= Cardinality(Hits(r)) /\ Rank(r, p) > b
  BY <1>2, <1>3, FS_Subset, FS_CardinalityType
<1> HIDE DEF b
<1>7. a <= b /\ b <= Cardinality(Hits(r))
  BY <1>1, <1>2, <1>6
<1>8. Cardinality(Page(r)) = b - a
  BY <1>1, <1>2, <1>4, <1>5, <1>7, PageIsFull
<1>9. ~(Cardinality(Page(r)) < PerPage)
  BY <1>1, <1>8
<1>10. task[r].page # MaxPages
  <2>1. task[r].page = MaxPages => b = MaxPages * PerPage
    BY DEF b
  <2> QED BY <1>1, <1>2, <1>6, <2>1, Constants DEF AllWalked
<1> QED BY <1>9, <1>10

\* What it must find is on the page, or on a page to come.
LEMMA FetchKeeps ==
    ASSUME AllWalked, IInv, NEW r \in Runs, fetch_authored_prs(r)
    PROVE  IInv'
<1>1. /\ Base'
      /\ Reading(task[r]) /\ task[r].pc = "search"
      /\ Reading(task[r])' /\ ~Writing(task[r])' /\ ~Closing(task[r])'
      /\ task'[r].since = task[r].since /\ task'[r].started = task[r].started
      /\ DOMAIN task'[r].seen = DOMAIN task[r].seen \cup Page(r)
      /\ \/ Cardinality(Page(r)) < PerPage \/ task[r].page = MaxPages
         \/ task'[r].pc = "search" /\ task'[r].page = task[r].page + 1
      /\ \A q \in Runs : q # r => task'[q] = task[q]
  BY FetchDoes DEF IInv
<1>2. UNCHANGED <<gh, index, shown, cursor>>
  BY DEF fetch_authored_prs, github
<1>3. ASSUME NEW p \in PRs, Due(task[r], p)', p \notin DOMAIN task'[r].seen
      PROVE  task'[r].pc = "search" /\ Rank(r, p)' > (task'[r].page - 1) * PerPage
  <2>1. Due(task[r], p)
    BY <1>1, <1>2, <1>3 DEF Due, updatedFrom
  <2>2. p \in Hits(r)
    BY <1>1, <2>1, DueIsIndexed DEF IInv
  <2>3. p \notin DOMAIN task[r].seen /\ p \notin Page(r)
    BY <1>1, <1>3
  <2>4. Rank(r, p) > (task[r].page - 1) * PerPage
    BY <1>1, <2>1, <2>3 DEF IInv, Walked
  <2>5. ~(Rank(r, p) <= task[r].page * PerPage)
    BY <2>2, <2>3, <2>4 DEF Page
  <2>6. PICK k \in Nat : k = task[r].page
    BY <1>1 DEF Reading
  <2>7. k * PerPage \in Nat /\ Rank(r, p) \in Nat
    <3>1. k * PerPage \in Nat
      BY Constants
    <3>2. Rank(r, p) \in Nat
      BY RankIs
    <3> QED BY <3>1, <3>2
  <2>8. Rank(r, p) > task[r].page * PerPage
    BY <2>5, <2>6, <2>7
  <2>9. task'[r].pc = "search" /\ task'[r].page = k + 1
    BY <1>1, <2>2, <2>6, <2>8, WalkGoesOn DEF IInv
  <2>10. Rank(r, p)' = Rank(r, p)
    BY <1>1, <1>2 DEF Rank, Hits, updatedFrom
  <2>11. (task'[r].page - 1) = task[r].page
    BY <2>6, <2>9
  <2> QED BY <2>8, <2>9, <2>10, <2>11
<1> QED BY <1>1, <1>2, <1>3, TaskKeeps DEF github
\* What is written of a pull request as it was seen.
RowFor(r, failing, p) ==
    [state   |-> pull_request_state(task[r].seen[p].stage,
                                    review_for(p, task[r].seen[p], failing)),
     updated |-> task[r].seen[p].updated]

\* The reviews are looked up: whatever was seen as it is, is labelled so.
LEMMA AssessDoes ==
    ASSUME Base, NEW r \in Runs, assess(r)
    PROVE  /\ Base'
           /\ Reading(task[r]) /\ task[r].pc = "reviews"
           /\ Writing(task[r])' /\ ~Reading(task[r])' /\ ~Closing(task[r])'
           /\ task'[r].since = task[r].since /\ task'[r].started = task[r].started
           /\ DOMAIN task'[r].rows = DOMAIN task[r].seen
           /\ \A q \in Runs : q # r => task'[q] = task[q]
<1>1. PICK failing \in SUBSET {p \in DOMAIN task[r].seen : task[r].seen[p].stage = "open"} :
          task' = [task EXCEPT ![r] =
              [pc |-> "write", started |-> task[r].started, since |-> task[r].since,
               rows |-> [p \in DOMAIN task[r].seen |-> RowFor(r, failing, p)]]]
  BY DEF assess, RowFor
<1> DEFINE rows == [p \in DOMAIN task[r].seen |-> RowFor(r, failing, p)]
           after == [pc |-> "write", started |-> task[r].started, since |-> task[r].since,
                     rows |-> rows]
<1>2. task[r].pc = "reviews" /\ UNCHANGED <<clock, github, shown, cursor, row>>
  BY DEF assess
<1>3. Reading(task[r]) /\ task[r] # Gone
  BY <1>2, Numbers, Kinds DEF Base, Gone
<1>4. /\ task' = [q \in Runs |-> task'[q]]
      /\ task'[r] = after
      /\ \A q \in Runs : q # r => task'[q] = task[q]
  <2>1. task' = [task EXCEPT ![r] = after]
    BY <1>1
  <2> HIDE DEF after
  <2> QED BY <2>1 DEF Base, Typed
<1>5. ASSUME NEW p \in DOMAIN task[r].seen
      PROVE  /\ p \in PRs
             /\ RowFor(r, failing, p) \in Noted
             /\ RowFor(r, failing, p).updated <= gh[p].updated
             /\ gh[p].stage # "absent"
             /\ RowFor(r, failing, p).state \in Labels(p) \/ Missed(task[r], p)
  <2> DEFINE item == task[r].seen[p]
  <2>1. p \in PRs /\ item \in Known /\ gh[p] \in Known
    BY <1>3, Numbers DEF Base, Reading, Partly
  <2>2. /\ gh[p].stage # "absent" /\ item.stage # "absent"
        /\ item.updated <= gh[p].updated
        /\ item = gh[p] \/ Missed(task[r], p)
    BY <1>3 DEF Base, Carried, CarriesRead
  <2>3. /\ review_for(p, item, failing) \in Verdict
        /\ review_for(p, item, failing) \in {"none", gh[p].verdict}
    BY <2>1 DEF review_for, fetch_review_state, Known, Verdict
  <2>4. pull_request_state(item.stage, review_for(p, item, failing)) \in States
    <3>1. item.stage \in Stage \ {"absent"}
      BY <2>1, <2>2 DEF Known
    <3> QED BY <2>3, <3>1, StatesAre
  <2>5. item = gh[p] => pull_request_state(item.stage, review_for(p, item, failing)) \in Labels(p)
    BY <2>3 DEF Labels
  <2>6. /\ RowFor(r, failing, p).updated = item.updated
        /\ RowFor(r, failing, p).state
               = pull_request_state(item.stage, review_for(p, item, failing))
    BY DEF RowFor
  <2>7. RowFor(r, failing, p) \in Noted
    BY <2>1, <2>4 DEF RowFor, Noted, Known
  <2> QED BY <2>1, <2>2, <2>5, <2>6, <2>7
<1>6. Partly(rows, Noted) /\ DOMAIN rows = DOMAIN task[r].seen
  BY <1>5 DEF Partly
<1>7. \A p \in DOMAIN rows : rows[p] = RowFor(r, failing, p)
  OBVIOUS
<1> HIDE DEF rows
<1>8. Writing(after) /\ ~Reading(after) /\ ~Closing(after)
  <2>1. task[r].started \in Nat /\ task[r].since \in Nat
    BY <1>3 DEF Reading
  <2> QED BY <1>6, <2>1 DEF Writing, Reading, Closing
<1>9. /\ after.since = task[r].since /\ after.started = task[r].started /\ after.rows = rows
  OBVIOUS
<1> HIDE DEF after
<1>10. Writing(task[r])' /\ ~Reading(task[r])' /\ ~Closing(task[r])'
  BY <1>4, <1>8 DEF Writing, Reading, Closing, Partly
<1>11. TimelyTask(task[r])'
  <2>1. TimelyTask(task[r])
    BY DEF Base, Timely
  <2> QED BY <1>2, <1>3, <1>4, <1>9, <1>10, <2>1 DEF TimelyTask
<1>12. CarriesRows(task[r])'
  <2> SUFFICES ASSUME NEW p \in DOMAIN rows
               PROVE  /\ gh[p].stage # "absent"
                      /\ rows[p].updated <= gh[p].updated
                      /\ rows[p].state \in Labels(p) \/ Missed(task[r], p)
    BY <1>2, <1>4, <1>9 DEF CarriesRows, Missed, Labels, github
  <2> QED BY <1>5, <1>6, <1>7
<1>13. /\ Task(task[r])' /\ OneRunning'
       /\ row' \in [Runs -> [status : {"running", "closed"}, started : Nat]]
  BY <1>2, <1>10 DEF Task, Base, Typed, OneRunning
<1>14. Base'
  BY <1>2, <1>4, <1>10, <1>11, <1>12, <1>13, TaskKeepsBase
<1> QED BY <1>2, <1>3, <1>4, <1>6, <1>9, <1>10, <1>14

\* What was found is what will be written.
LEMMA AssessKeeps ==
    ASSUME IInv, NEW r \in Runs, assess(r)
    PROVE  IInv'
<1>1. /\ Base'
      /\ Reading(task[r]) /\ task[r].pc = "reviews"
      /\ Writing(task[r])' /\ ~Reading(task[r])' /\ ~Closing(task[r])'
      /\ task'[r].since = task[r].since /\ task'[r].started = task[r].started
      /\ DOMAIN task'[r].rows = DOMAIN task[r].seen
      /\ \A q \in Runs : q # r => task'[q] = task[q]
  BY AssessDoes DEF IInv
<1>2. UNCHANGED <<gh, index, shown, cursor>>
  BY DEF assess, github
<1>3. ASSUME NEW p \in PRs, Due(task[r], p)' PROVE p \in DOMAIN task'[r].rows
  <2>1. Due(task[r], p)
    BY <1>1, <1>2, <1>3 DEF Due, updatedFrom
  <2> QED BY <1>1, <2>1 DEF IInv, Walked
<1> QED BY <1>1, <1>2, <1>3, TaskKeeps DEF github

\* The rows are written: each is right, or changed within the day.
LEMMA RecordDoes ==
    ASSUME Base, NEW r \in Runs, record_pull_requests(r)
    PROVE  /\ Base'
           /\ Writing(task[r]) /\ DOMAIN task[r].rows \subseteq PRs
           /\ Closing(task[r])' /\ ~Reading(task[r])' /\ ~Writing(task[r])'
           /\ task'[r].newest = Newest(task[r].rows, task[r].since)
           /\ \A q \in Runs : q # r => task'[q] = task[q]
           /\ \A p \in PRs : p \notin DOMAIN task[r].rows => Current(p)' = Current(p)
           /\ \A p \in DOMAIN task[r].rows : ~Current(p)' => gh[p].updated >= updatedFrom(clock)
<1> DEFINE rows == task[r].rows
           after == [pc |-> "finish", started |-> task[r].started,
                     newest |-> Newest(task[r].rows, task[r].since)]
<1>1. /\ task[r].pc = "write"
      /\ shown' = [p \in PRs |-> IF p \in DOMAIN rows THEN rows[p].state ELSE shown[p]]
      /\ task' = [task EXCEPT ![r] = after]
      /\ UNCHANGED <<clock, gh, index, cursor, row>>
  BY DEF record_pull_requests, github
<1>2. Writing(task[r]) /\ task[r] # Gone
  BY <1>1, Numbers, Kinds DEF Base, Gone
<1>3. /\ task' = [q \in Runs |-> task'[q]]
      /\ task'[r] = after
      /\ \A q \in Runs : q # r => task'[q] = task[q]
  <2> HIDE DEF after
  <2> QED BY <1>1 DEF Base, Typed
<1>4. /\ Partly(rows, Noted) /\ DOMAIN rows \subseteq PRs
      /\ task[r].started \in Nat /\ task[r].since \in Nat
  BY <1>2 DEF Writing, Partly
<1>5. CarriesRows(task[r]) /\ TimelyTask(task[r])
  BY <1>2 DEF Base, Carried, Timely
<1>6. \A p \in DOMAIN rows : /\ rows[p].state \in States /\ rows[p].updated \in Nat
                             /\ rows[p].updated <= gh[p].updated
                             /\ gh[p].stage # "absent"
                             /\ rows[p].state \in Labels(p) \/ Missed(task[r], p)
  BY <1>4, <1>5 DEF Partly, Noted, CarriesRows
<1>7. /\ \A p \in DOMAIN rows : shown'[p] = rows[p].state
      /\ \A p \in PRs : p \notin DOMAIN rows => shown'[p] = shown[p]
      /\ shown' \in [PRs -> States \cup {"none"}]
  BY <1>1, <1>4, <1>6 DEF Base, Typed
<1>8. Newest(rows, task[r].since) \in Nat /\ Newest(rows, task[r].since) <= clock
  <2>1. task[r].since <= clock
    BY <1>2, <1>4, <1>5, Numbers DEF TimelyTask, Base, Bounded
  <2>2. \A p \in DOMAIN rows : rows[p].updated <= clock
    <3> SUFFICES ASSUME NEW p \in DOMAIN rows PROVE rows[p].updated <= clock
      OBVIOUS
    <3>1. rows[p].updated \in Nat /\ gh[p].updated \in Nat /\ clock \in Nat
      BY <1>4, <1>6, Numbers DEF Base
    <3>2. rows[p].updated <= gh[p].updated /\ gh[p].updated <= clock
      BY <1>4, <1>6 DEF Base, Indexed
    <3> QED BY <3>1, <3>2
  <2>3. /\ Newest(rows, task[r].since) \in Nat
        /\ DOMAIN rows = {} => Newest(rows, task[r].since) = task[r].since
        /\ DOMAIN rows # {} => \E p \in DOMAIN rows : Newest(rows, task[r].since) = rows[p].updated
    BY <1>4, NewestIs
  <2> HIDE DEF rows
  <2> QED BY <2>1, <2>2, <2>3
<1>9. Closing(after) /\ ~Reading(after) /\ ~Writing(after)
      /\ after.started = task[r].started /\ after.newest = Newest(rows, task[r].since)
  BY <1>4, <1>8 DEF Closing, Reading, Writing
<1> HIDE DEF after
<1>10. Closing(task[r])' /\ ~Reading(task[r])' /\ ~Writing(task[r])'
  BY <1>3, <1>9 DEF Closing, Reading, Writing, Partly
<1>11. \A q \in Runs : q # r =>
           /\ Reading(task[q])' <=> Reading(task[q])
           /\ Writing(task[q])' <=> Writing(task[q])
           /\ Closing(task[q])' <=> Closing(task[q])
           /\ CarriesRead(task[q])' <=> CarriesRead(task[q])
           /\ CarriesRows(task[q])' <=> CarriesRows(task[q])
  BY <1>1, <1>3, OthersStand DEF github
<1>12. Typed'
  <2>1. ASSUME NEW q \in Runs PROVE Task(task[q])'
    <3>1. CASE q = r
      BY <1>10, <3>1 DEF Task
    <3>2. CASE q # r
      BY <1>3, <1>11, <3>2 DEF Base, Typed, Task
    <3> QED BY <3>1, <3>2
  <2> QED BY <1>1, <1>3, <1>7, <2>1 DEF Base, Typed
<1>13. Indexed'
  <2>1. \A p \in PRs : gh[p].stage = "absent" => shown'[p] = shown[p]
    BY <1>6, <1>7
  <2> QED BY <1>1, <2>1 DEF Base, Indexed
<1>14. Apart' /\ Bounded' /\ OneRunning'
  BY <1>1 DEF Base, Apart, Bounded, OneRunning
<1>15. Timely'
  <2>1. TimelyTask(task[r])'
    BY <1>1, <1>2, <1>3, <1>5, <1>8, <1>9, <1>10 DEF TimelyTask
  <2>2. ASSUME NEW q \in Runs, q # r PROVE TimelyTask(task[q])'
    <3>1. TimelyTask(task[q])
      BY DEF Base, Timely
    <3> QED BY <1>1, <1>3, <1>11, <2>2, <3>1 DEF TimelyTask
  <2> QED BY <2>1, <2>2 DEF Timely
<1>16. Carried'
  BY <1>10, <1>11 DEF Base, Carried
<1>17. Base'
  BY <1>12, <1>13, <1>14, <1>15, <1>16 DEF Base
<1>18. \A p \in PRs : p \notin DOMAIN rows => Current(p)' = Current(p)
  BY <1>1, <1>7 DEF Current
<1>19. ASSUME NEW p \in DOMAIN rows, ~Current(p)' PROVE gh[p].updated >= updatedFrom(clock)
  <2>1. rows[p].state \notin Labels(p)
    BY <1>1, <1>4, <1>6, <1>7, <1>19 DEF Current, Labels
  <2>2. task[r].started <= gh[p].updated + IndexLag
    BY <1>6, <2>1 DEF Missed
  <2>3. clock <= task[r].started + RunLimit /\ gh[p].updated \in Nat /\ clock \in Nat
    BY <1>2, <1>4, <1>5, Numbers DEF TimelyTask, Base
  <2> QED BY <1>4, <2>2, <2>3, Constants DEF updatedFrom
<1> QED BY <1>2, <1>3, <1>4, <1>9, <1>10, <1>17, <1>18, <1>19

\* A run passes nothing: what it did not write it had not to find, or has
\* changed since the search; what it wrote wrongly changed while it ran.
LEMMA RecordKeeps ==
    ASSUME IInv, NEW r \in Runs, record_pull_requests(r)
    PROVE  IInv'
<1> DEFINE rows == task[r].rows
<1>1. /\ Base'
      /\ Writing(task[r]) /\ DOMAIN rows \subseteq PRs
      /\ Closing(task[r])' /\ ~Reading(task[r])' /\ ~Writing(task[r])'
      /\ task'[r].newest = Newest(rows, task[r].since)
      /\ \A q \in Runs : q # r => task'[q] = task[q]
      /\ \A p \in PRs : p \notin DOMAIN rows => Current(p)' = Current(p)
      /\ \A p \in DOMAIN rows : ~Current(p)' => gh[p].updated >= updatedFrom(clock)
  BY RecordDoes DEF IInv
<1>2. UNCHANGED <<clock, gh, index, cursor>>
  BY DEF record_pull_requests, github
<1>3. \A q \in Runs : q # r =>
          /\ Reading(task[q])' <=> Reading(task[q])
          /\ Writing(task[q])' <=> Writing(task[q])
          /\ Closing(task[q])' <=> Closing(task[q])
          /\ \A p \in PRs : /\ Due(task[q], p)' <=> Due(task[q], p)
                            /\ Rank(q, p)' = Rank(q, p)
  BY <1>1, <1>2, OthersStand DEF IInv, github
<1>4. Walked'
  <2> SUFFICES ASSUME NEW q \in Runs, NEW p \in PRs, Due(task[q], p)'
               PROVE  /\ Reading(task[q])' =>
                            \/ p \in DOMAIN task'[q].seen
                            \/ /\ task'[q].pc = "search"
                               /\ Rank(q, p)' > (task'[q].page - 1) * PerPage
                      /\ Writing(task[q])' => p \in DOMAIN task'[q].rows
    BY DEF Walked
  <2>1. CASE q = r
    BY <1>1, <2>1
  <2>2. CASE q # r
    BY <1>1, <1>3, <2>2 DEF IInv, Walked
  <2> QED BY <2>1, <2>2
<1>5. ASSUME NEW t \in Nat, t <= clock, NEW p \in PRs, p \in DOMAIN rows \/ Passes(t, p)
      PROVE  Passes(t, p)'
  <2>1. CASE p \in DOMAIN rows
    <3>1. ~Current(p)' => gh[p].updated >= clock - Day
      BY <1>1, <2>1 DEF updatedFrom
    <3>2. gh[p].updated \in Nat /\ clock \in Nat
      BY Numbers DEF IInv, Base
    <3>3. ~Current(p)' => gh[p].updated >= t - Day
      BY <1>5, <3>1, <3>2, Constants
    <3> QED BY <1>2, <3>3 DEF Passes, updatedFrom
  <2>2. CASE p \notin DOMAIN rows
    <3>1. Passes(t, p) /\ Current(p)' = Current(p)
      BY <1>1, <1>5, <2>2
    <3> QED BY <1>2, <3>1 DEF Passes, updatedFrom
  <2> QED BY <2>1, <2>2
<1>6. CursorSafe'
  <2>1. PICK t \in Nat : t = cursor
    BY Numbers DEF IInv, Base
  <2>2. \A p \in PRs : Passes(t, p)
    BY <2>1 DEF IInv, CursorSafe, Passes
  <2>3. \A p \in PRs : Passes(t, p)'
    BY <1>5, <2>1, <2>2 DEF IInv, Base, Bounded
  <2> QED BY <1>2, <2>1, <2>3 DEF CursorSafe, Passes, updatedFrom
<1>7. ASSUME NEW p \in PRs, p \notin DOMAIN rows, NEW t \in Nat, t <= clock PROVE Passes(t, p)
  <2> SUFFICES ASSUME ~Current(p) PROVE gh[p].updated >= t - Day
    BY DEF Passes, updatedFrom
  <2>1. /\ gh[p].updated \in Nat /\ clock \in Nat /\ cursor \in Nat
        /\ task[r].since \in Nat /\ task[r].started \in Nat
    BY <1>1, Numbers DEF IInv, Base, Writing
  <2>2. gh[p].stage # "absent"
    BY DEF IInv, Base, Indexed, Current
  <2>3. gh[p].updated >= cursor - Day
    BY DEF IInv, CursorSafe, updatedFrom
  <2>4. task[r].since <= cursor /\ clock <= task[r].started + RunLimit
    <3>1. task[r] # Gone
      BY <1>1 DEF Writing, Gone
    <3> QED BY <1>1, <3>1 DEF IInv, Base, Timely, TimelyTask
  <2>5. gh[p].updated >= task[r].since - Day
    BY <2>1, <2>3, <2>4, Constants
  <2>6. ~ Due(task[r], p)
    BY <1>1, <1>7 DEF IInv, Walked
  <2>7. ~ gh[p].updated + IndexLag < task[r].started
    BY <2>2, <2>5, <2>6 DEF Due, updatedFrom
  <2> QED BY <1>7, <2>1, <2>4, <2>7, Constants
<1>8. Finishing'
  <2> SUFFICES ASSUME NEW q \in Runs, Closing(task[q])'
               PROVE  \/ task'[q].newest <= cursor
                      \/ \A p \in PRs : Passes(task[q].newest, p)'
    BY <1>2 DEF Finishing
  <2>1. task'[q].newest \in Nat /\ task'[q].newest <= clock
    BY <1>1, <1>2 DEF Base, Timely, TimelyTask, Closing
  <2>2. PICK t \in Nat : t = task'[q].newest
    BY <2>1
  <2>3. CASE q = r
    <3>1. \A p \in PRs : p \in DOMAIN rows \/ Passes(t, p)
      BY <1>7, <2>1, <2>2
    <3>2. \A p \in PRs : Passes(t, p)'
      BY <1>5, <2>1, <2>2, <3>1
    <3> QED BY <1>2, <2>2, <3>2 DEF Passes, updatedFrom
  <2>4. CASE q # r
    <3>1. Closing(task[q]) /\ task[q].newest = t
      BY <1>1, <1>3, <2>2, <2>4
    <3>2. t <= cursor \/ \A p \in PRs : Passes(t, p)
      BY <3>1 DEF IInv, Finishing, Passes
    <3>3. t <= cursor \/ \A p \in PRs : Passes(t, p)'
      BY <1>5, <2>1, <2>2, <3>2
    <3> QED BY <1>2, <2>2, <3>3 DEF Passes, updatedFrom
  <2> QED BY <2>3, <2>4
<1> QED BY <1>1, <1>4, <1>6, <1>8 DEF IInv

\* The run closes, and the cursor becomes what it may.
LEMMA SucceedKeepsBase ==
    ASSUME Base, NEW r \in Runs, succeed(r)
    PROVE  Base'
<1>1. /\ Closing(task[r])
      /\ cursor' = NewCursor(r)
      /\ row' = [row EXCEPT ![r] = Closed]
      /\ task' = [task EXCEPT ![r] = Gone]
      /\ UNCHANGED <<clock, gh, index, shown>>
  BY Numbers, Kinds DEF Base, succeed, github
<1>2. /\ task' = [q \in Runs |-> task'[q]]
      /\ task'[r] = Gone
      /\ \A q \in Runs : q # r => task'[q] = task[q]
  BY <1>1 DEF Base, Typed
<1>3. ~Reading(task[r])' /\ ~Writing(task[r])' /\ ~Closing(task[r])'
  BY <1>2 DEF Reading, Writing, Closing, Gone
<1>4. \A q \in Runs : q # r =>
          /\ Reading(task[q])' <=> Reading(task[q])
          /\ Writing(task[q])' <=> Writing(task[q])
          /\ Closing(task[q])' <=> Closing(task[q])
          /\ CarriesRead(task[q])' <=> CarriesRead(task[q])
          /\ CarriesRows(task[q])' <=> CarriesRows(task[q])
  BY <1>1, <1>2, OthersStand DEF github
<1>5. /\ task[r].newest \in Nat /\ task[r].newest <= clock
      /\ cursor \in Nat /\ cursor <= clock /\ clock <= MaxTime
  BY <1>1, Numbers DEF Base, Timely, TimelyTask, Bounded
<1>6. cursor' \in Nat /\ cursor <= cursor' /\ cursor' <= clock
  BY <1>1, <1>5 DEF NewCursor
<1>7. /\ row' \in [Runs -> [status : {"running", "closed"}, started : Nat]]
      /\ OneRunning'
  BY <1>1 DEF Base, Typed, OneRunning, Closed, Beginning
<1>8. Typed'
  <2>1. \A q \in Runs : Task(task[q])'
    BY <1>2, <1>4 DEF Base, Typed, Task
  <2> QED BY <1>1, <1>2, <1>6, <1>7, <2>1 DEF Base, Typed
<1>9. Indexed' /\ Apart' /\ Bounded'
  BY <1>1, <1>5, <1>6 DEF Base, Indexed, Apart, Bounded
<1>10. Timely'
  <2>1. TimelyTask(task[r])'
    BY <1>2, <1>3 DEF TimelyTask
  <2>2. ASSUME NEW q \in Runs, q # r PROVE TimelyTask(task[q])'
    <3>1. TimelyTask(task[q])
      BY DEF Base, Timely
    <3>2. Reading(task[q]) \/ Writing(task[q]) => task[q].since \in Nat
      BY Numbers DEF Base
    <3> QED BY <1>1, <1>2, <1>4, <1>5, <1>6, <2>2, <3>1, <3>2 DEF TimelyTask
  <2> QED BY <2>1, <2>2 DEF Timely
<1>11. Carried'
  BY <1>3, <1>4 DEF Base, Carried
<1> QED BY <1>7, <1>8, <1>9, <1>10, <1>11 DEF Base

\* A cursor that is greater passes nothing, or it would not have been left.
LEMMA SucceedKeeps ==
    ASSUME IInv, NEW r \in Runs, succeed(r)
    PROVE  IInv'
<1>1. /\ Closing(task[r])
      /\ cursor' = NewCursor(r)
      /\ task' = [task EXCEPT ![r] = Gone]
      /\ UNCHANGED <<clock, gh, index, shown>>
  BY Numbers, Kinds DEF IInv, Base, succeed, github
<1>2. task'[r] = Gone /\ \A q \in Runs : q # r => task'[q] = task[q]
  BY <1>1 DEF IInv, Base, Typed
<1>3. ~Reading(task[r])' /\ ~Writing(task[r])' /\ ~Closing(task[r])'
  BY <1>2 DEF Reading, Writing, Closing, Gone
<1>4. \A q \in Runs : q # r =>
          /\ Reading(task[q])' <=> Reading(task[q])
          /\ Writing(task[q])' <=> Writing(task[q])
          /\ Closing(task[q])' <=> Closing(task[q])
          /\ \A p \in PRs : /\ Due(task[q], p)' <=> Due(task[q], p)
                            /\ Rank(q, p)' = Rank(q, p)
  BY <1>1, <1>2, OthersStand DEF IInv, github
<1>5. Base'
  BY SucceedKeepsBase DEF IInv
<1>6. Walked'
  <2> SUFFICES ASSUME NEW q \in Runs, NEW p \in PRs, Due(task[q], p)'
               PROVE  /\ Reading(task[q])' =>
                            \/ p \in DOMAIN task'[q].seen
                            \/ /\ task'[q].pc = "search"
                               /\ Rank(q, p)' > (task'[q].page - 1) * PerPage
                      /\ Writing(task[q])' => p \in DOMAIN task'[q].rows
    BY DEF Walked
  <2>1. CASE q = r
    BY <1>3, <2>1
  <2>2. CASE q # r
    BY <1>2, <1>4, <2>2 DEF IInv, Walked
  <2> QED BY <2>1, <2>2
<1>7. task[r].newest \in Nat /\ cursor \in Nat
  BY <1>1, Numbers DEF IInv, Base
<1>8. CursorSafe'
  <2>1. CASE task[r].newest > cursor
    <3>1. \A p \in PRs : ~Current(p) => gh[p].updated >= task[r].newest - Day
      BY <1>1, <1>7, <2>1 DEF IInv, Finishing, Passes, updatedFrom
    <3> QED BY <1>1, <2>1, <3>1 DEF CursorSafe, Current, updatedFrom, NewCursor
  <2>2. CASE ~ task[r].newest > cursor
    BY <1>1, <2>2 DEF IInv, CursorSafe, Current, updatedFrom, NewCursor
  <2> QED BY <2>1, <2>2
<1>9. Finishing'
  <2> SUFFICES ASSUME NEW q \in Runs, Closing(task[q])'
               PROVE  \/ task'[q].newest <= cursor'
                      \/ \A p \in PRs : Passes(task[q].newest, p)'
    BY DEF Finishing
  <2>1. q # r /\ Closing(task[q]) /\ task'[q] = task[q] /\ task[q].newest \in Nat
    BY <1>2, <1>3, <1>4, Numbers DEF IInv, Base
  <2>2. cursor' \in Nat /\ cursor <= cursor'
    BY <1>1, <1>7 DEF NewCursor
  <2>3. CASE task[q].newest <= cursor
    BY <1>7, <2>1, <2>2, <2>3
  <2>4. CASE \A p \in PRs : Passes(task[q].newest, p)
    BY <1>1, <2>1, <2>4 DEF Passes, Current, updatedFrom
  <2> QED BY <2>1, <2>3, <2>4 DEF IInv, Finishing
<1> QED BY <1>5, <1>6, <1>8, <1>9 DEF IInv

-----------------------------------------------------------------------------
(* The theorems.                                                           *)

\* Every step keeps the types, the times and what the runs carry.
LEMMA StepKeepsBase == Base /\ [SyncNext]_syncVars => Base'
<1> SUFFICES ASSUME Base, [SyncNext]_syncVars PROVE Base'
  OBVIOUS
<1>1. CASE UNCHANGED syncVars
  <2>1. UNCHANGED <<clock, github, gh, index, shown, cursor, row, task>>
    BY <1>1 DEF syncVars, github
  <2>2. Typed'
    BY <2>1, TasksSame DEF Base, Typed
  <2>3. Indexed' /\ Apart' /\ Bounded' /\ OneRunning'
    BY <2>1 DEF Base, Indexed, Apart, Bounded, OneRunning
  <2>4. Timely'
    BY <2>1, TimesSame DEF Base
  <2>5. Carried'
    BY <2>1, WhatStands
  <2> QED BY <2>2, <2>3, <2>4, <2>5 DEF Base
<1>2. ASSUME NEW p \in PRs, Update(p) PROVE Base'
  BY <1>2, UpdateKeepsBase
<1>3. ASSUME NEW p \in PRs, Reindex(p) PROVE Base'
  BY <1>3, ReindexKeepsBase
<1>4. CASE Tick
  BY <1>4, TickKeepsBase
<1>5. CASE Release
  BY <1>5, ReleaseKeepsBase
<1>6. ASSUME NEW r \in Runs, run_sync(r) PROVE Base'
  <2>1. CASE begin(r)
    BY <2>1, BeginDoes
  <2>2. CASE fetch_authored_prs(r)
    BY <2>2, FetchDoes
  <2>3. CASE assess(r)
    BY <2>3, AssessDoes
  <2>4. CASE record_pull_requests(r)
    BY <2>4, RecordDoes
  <2>5. CASE succeed(r)
    BY <2>5, SucceedKeepsBase
  <2>6. CASE fail(r)
    BY <2>6, GoneKeeps DEF fail
  <2>7. CASE Die(r)
    BY <2>7, GoneKeeps DEF Die
  <2> QED BY <1>6, <2>1, <2>2, <2>3, <2>4, <2>5, <2>6, <2>7 DEF run_sync
<1> QED BY <1>1, <1>2, <1>3, <1>4, <1>5, <1>6 DEF SyncNext

\* Every step keeps the invariant.
LEMMA StepKeeps == AllWalked => (IInv /\ [SyncNext]_syncVars => IInv')
<1> SUFFICES ASSUME AllWalked, IInv, [SyncNext]_syncVars PROVE IInv'
  OBVIOUS
<1>0. Base'
  BY StepKeepsBase DEF IInv
<1>1. CASE UNCHANGED syncVars
  BY <1>0, <1>1, WalksStand DEF syncVars
<1>2. ASSUME NEW p \in PRs, Update(p) PROVE IInv'
  BY <1>2, UpdateKeeps
<1>3. ASSUME NEW p \in PRs, Reindex(p) PROVE IInv'
  BY <1>3, ReindexKeeps
<1>4. CASE Tick
  BY <1>0, <1>4, WalksStand DEF Tick
<1>5. CASE Release
  BY <1>0, <1>5, WalksStand DEF Release
<1>6. ASSUME NEW r \in Runs, run_sync(r) PROVE IInv'
  <2>1. CASE begin(r)
    BY <2>1, BeginKeeps
  <2>2. CASE fetch_authored_prs(r)
    BY <2>2, FetchKeeps
  <2>3. CASE assess(r)
    BY <2>3, AssessKeeps
  <2>4. CASE record_pull_requests(r)
    BY <2>4, RecordKeeps
  <2>5. CASE succeed(r)
    BY <2>5, SucceedKeeps
  <2>6. CASE fail(r)
    BY <2>6, GoneKeeps DEF fail, IInv
  <2>7. CASE Die(r)
    BY <2>7, GoneKeeps DEF Die, IInv
  <2> QED BY <1>6, <2>1, <2>2, <2>3, <2>4, <2>5, <2>6, <2>7 DEF run_sync
<1> QED BY <1>1, <1>2, <1>3, <1>4, <1>5, <1>6 DEF SyncNext

\* The types and times of every behaviour, however many pull requests there
\* are: one run of the user is recorded as running, at most.
THEOREM SyncTypeCorrect == SyncSpec => []SyncTypeOK
<1>1. SyncInit => Base
  BY InitHolds DEF IInv
<1>2. Base => SyncTypeOK
  <2> SUFFICES ASSUME Base PROVE SyncTypeOK
    OBVIOUS
  <2>1. clock \in 1..MaxTime /\ cursor \in Beginning..clock
    BY Numbers, Constants DEF Base, Bounded, Beginning
  <2>2. \A p \in PRs : /\ index[p].updated <= gh[p].updated
                       /\ gh[p].updated <= clock
                       /\ shown[p] \in States \cup {"none"}
    BY DEF Base, Typed, Indexed
  <2> QED BY <2>1, <2>2 DEF SyncTypeOK, Base, OneRunning
<1> QED BY <1>1, <1>2, StepKeepsBase, PTL DEF SyncSpec

\* The cursor passes nothing that the site shows wrongly, as long as the
\* pages of a search can hold the contributor's pull requests.
THEOREM CursorKept ==
    ASSUME AllWalked
    PROVE  SyncSpec => []CursorSafe
<1>1. IInv => CursorSafe
  BY DEF IInv
<1>2. IInv /\ [SyncNext]_syncVars => IInv'
  BY StepKeeps
<1> QED BY <1>1, <1>2, InitHolds, PTL DEF SyncSpec
=============================================================================
