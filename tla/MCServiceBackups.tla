--------------------------- MODULE MCServiceBackups ---------------------------
(* Instances of ServiceBackups.                                             *)
EXTENDS ServiceBackups, TLC
CONSTANTS n1, n2, e1, e2, b1, b2, email, slack
TwoNames == {n1, n2}
TwoEditors == {e1, e2}
TwoBackups == {b1, b2}
TwoChannels == {email, slack}

Entry(name, enabled, fires) == [name |-> name, enabled |-> enabled, fires |-> fires]
SomeEntries == {Entry(n1, TRUE, TRUE), Entry(n1, FALSE, TRUE), Entry(n2, TRUE, FALSE)}
First == {<<>>, <<Entry(n1, TRUE, TRUE)>>}

Symmetry == Permutations(TwoEditors) \cup Permutations(TwoBackups) \cup Permutations(TwoChannels)
=============================================================================
