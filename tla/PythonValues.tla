----------------------------- MODULE PythonValues -----------------------------
(* What several modules share of the language the program is written in.   *)
EXTENDS Integers, Sequences, FiniteSets

CONSTANT None   \* Python's None

\* "x or default": 0 is replaced as well as None.
Or(x, default) == IF x \in {None, 0} THEN default ELSE x

\* "[row for row in rows if row in chosen]".  SelectSeq says the same, but
\* nothing can be proved of it.
KeptAt(rows, chosen) == {i \in DOMAIN rows : rows[i] \in chosen}
NthOf(positions, n) == CHOOSE i \in positions : Cardinality({k \in positions : k < i}) = n - 1
Filtered(rows, chosen) ==
    [n \in 1 .. Cardinality(KeptAt(rows, chosen)) |-> rows[NthOf(KeptAt(rows, chosen), n)]]
=============================================================================
