-------------------------- MODULE MCLegacyPayments --------------------------
(* TLC instance of LegacyPayments: an owner who owes one contributor the    *)
(* same amount twice, so that the operations differ in their nonce alone.   *)
EXTENDS LegacyPayments

CONSTANTS mona, ann, monas, anns, claim1, claim2, first, second

MCOwn    == [p \in {mona, ann} |-> IF p = mona THEN {monas} ELSE {anns}]
MCPayer  == [c \in {claim1, claim2} |-> mona]
MCPayee  == [c \in {claim1, claim2} |-> ann]
MCAmount == [c \in {claim1, claim2} |-> 1]
=============================================================================
