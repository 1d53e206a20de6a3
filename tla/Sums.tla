-------------------------------- MODULE Sums --------------------------------
(***************************************************************************)
(* Sums over rows, as SQL and reduce() compute them: amounts of refunds,   *)
(* reserved quantities, movements of a drawer; and rows in the order of    *)
(* their numbers.  f is a function, so that what a sum does can be stated  *)
(* and proved (SumTheorems).                                               *)
(***************************************************************************)
EXTENDS FiniteSetsExt, Integers

\* The sum of f[x] for the x in S.
Total(f, S) == MapThenSumSet(LAMBDA x : f[x], S)

\* The numbers in S, smallest first: orderBy and the order of an array.
InOrder(S) ==
  [k \in 1..Cardinality(S) |->
     CHOOSE n \in S : Cardinality({m \in S : m <= n}) = k]
=============================================================================
