---------------------------- MODULE MCModeration ----------------------------
(* TLC instance of Moderation and Standings: a pull request with a bounty   *)
(* and a flat award, whose ids begin alike, one of another person on level  *)
(* terms, three flags, two moderators.                                      *)
EXTENDS Standings, TLC

CONSTANTS ann, bob, pull, late, f1, f2, f3, dee, eve

MCAward ==
    <<[user |-> ann, pr |-> pull, points |-> 2, category |-> "docs", merged |-> 0],
      [user |-> ann, pr |-> pull, points |-> 1, category |-> "docs", merged |-> 0],
      [user |-> bob, pr |-> late, points |-> 2, category |-> "docs", merged |-> 1]>>
MCIds   == <<1, 12, 13, 14, 15, 16>>
MCLogin == [u \in {ann, bob} |-> IF u = ann THEN 1 ELSE 2]

\* No flag and no moderator is special.
Alike == Permutations(Flags) \cup Permutations(Moderators)
=============================================================================
