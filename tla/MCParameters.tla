----------------------------- MODULE MCParameters -----------------------------
(* Parameters with texts in and above the range, a blank field, which counts  *)
(* as 0, and a decimal that rounds to the largest value in range.             *)
EXTENDS Parameters

CONSTANT Half

MCTexts == {0, 2, 3, 4, Half}
MCRound == [t \in MCTexts |-> IF t = Half THEN 3 ELSE t]
=============================================================================
