------------------------------ MODULE MCAgOdbc ------------------------------
(* AgOdbc for TLC: two parameters that may share a value, a column of one  *)
(* of three types, two rows in each result.                                *)
EXTENDS AgOdbc, TLC

CONSTANTS p1, p2, j1, j2, x, y

MCParam == {p1, p2}
MCJson  == {j1, j2}
MCText  == {x, y}
MCSymmetry == Permutations(MCParam) \cup Permutations(MCJson) \cup Permutations(MCText)
MCName  == {"jsonb", "vertex", "text"}

\* Bound: the column is bound and read where no value was printed yet, the
\* parameters being NULL.  No action touches both the parameters and the
\* column, and what is left out are combinations of their states.
Apart == (\A j \in Json : printed[j] = None) \/ (bound = "no" /\ settled /\ row = 0 /\ size = 0)

MCSpec == Init /\ [][Next /\ Apart']_vars
=============================================================================
