------------------------------ MODULE MCAwards ------------------------------
(* TLC instance of Awards: two contributors whose pull requests close the   *)
(* same bounty, one of them another bounty first.                           *)
EXTENDS Awards

CONSTANTS mona, ann, bob, repo1, issue1, issue2, pull1, pull2

MCOwner  == [x \in {repo1} |-> mona]
MCRepoOf == [x \in {issue1, issue2, pull1, pull2} |-> repo1]
MCAuthor == [x \in {pull1, pull2} |-> IF x = pull1 THEN ann ELSE bob]
MCCloses == [x \in {pull1, pull2} |-> IF x = pull1 THEN <<issue2, issue1>> ELSE <<issue1>>]
=============================================================================
