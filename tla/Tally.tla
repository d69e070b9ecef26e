------------------------------- MODULE Tally -------------------------------
(***************************************************************************)
(* The total of an amount over a set of holders, written as the number of  *)
(* units held: holder h with amount[h] = n owns the n pairs <<h, 1>> ...   *)
(* <<h, n>>.  Counting units instead of folding keeps the total within     *)
(* what the finite-set theorems can prove for every set of holders.        *)
(***************************************************************************)
EXTENDS Integers, FiniteSets

Units(amount, S) == UNION { {h} \X (1 .. amount[h]) : h \in S }

Tally(amount, S) == Cardinality(Units(amount, S))
=============================================================================
