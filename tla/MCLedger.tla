------------------------------ MODULE MCLedger ------------------------------
(* Ledger with what TLC needs: clients and submissions are interchangeable.  *)
EXTENDS Ledger, TLC

Symmetry == Permutations(Clients) \union Permutations(Subs)

=============================================================================
