----------------------------- MODULE MCSyncRuns -----------------------------
(* TLC instance of SyncRuns: two pull requests, a page for each, and two    *)
(* runs, one of which may have been given up while it still works.         *)
EXTENDS SyncRuns, TLC

CONSTANTS pr1, pr2, run1, run2

\* Neither pull requests nor runs are told apart.
Alike == Permutations(PRs) \cup Permutations(Runs)
=============================================================================
