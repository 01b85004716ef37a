--------------------------- MODULE MCTokenBudgeter ---------------------------
(* Scope trees for model checking the token budgeter.                       *)
EXTENDS TokenBudgeter

WithAgent == {<<"s">>, <<"s", "w">>, <<"s", "w", "a">>}
=============================================================================
