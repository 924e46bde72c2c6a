------------------------------- MODULE Lists -------------------------------
(***************************************************************************)
(* Array.prototype.sort and filter of the pages and the services.  The     *)
(* library has SortSeq and SelectSeq, of which nothing can be proved; here *)
(* the n-th member of a set is the one that n - 1 others precede, which    *)
(* needs no recursion.                                                     *)
(***************************************************************************)
EXTENDS Naturals, Sequences, FiniteSets

\* Those that precede x in the strict order R, a set of pairs.
Preceding(x, S, R) == {y \in S : <<y, x>> \in R}

\* The members of S in the order R.
Enumeration(S, R) ==
  [n \in 1..Cardinality(S) |-> CHOOSE x \in S : Cardinality(Preceding(x, S, R)) + 1 = n]

\* The positions of a list in the order of their values; equal ones stay in place.
ByValue(list) ==
  {p \in (DOMAIN list) \X (DOMAIN list) :
     list[p[1]] < list[p[2]] \/ (list[p[1]] = list[p[2]] /\ p[1] < p[2])}

\* sort, for a list of numbers
Ascending(list) ==
  LET order == Enumeration(DOMAIN list, ByValue(list))
  IN  [n \in DOMAIN list |-> list[order[n]]]

ByPosition(positions) == {p \in positions \X positions : p[1] < p[2]}

\* filter: the members of a list that are in S
Filtered(list, S) ==
  LET kept == {i \in DOMAIN list : list[i] \in S}
      order == Enumeration(kept, ByPosition(kept))
  IN  [n \in 1..Cardinality(kept) |-> list[order[n]]]
=============================================================================
